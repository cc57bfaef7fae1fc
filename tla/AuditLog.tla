------------------------------ MODULE AuditLog ------------------------------
(***************************************************************************)
(* What the live order path expects of the audit log (LiveOrder takes      *)
(* AppendAudit as one step): an append that is reported done is on disk    *)
(* and stays there, and only what some append was asked for is there.      *)
(***************************************************************************)
CONSTANTS Records

VARIABLES asked, log, done  \* begun; on disk as a whole; reported done

vars == <<asked, log, done>>

Init == asked = {} /\ log = {} /\ done = {}

Ask == \E r \in Records \ asked : asked' = asked \cup {r} /\ UNCHANGED <<log, done>>

(* One record reaches the disk, or several that were written before one    *)
(* of them is synced; also the record of an append that fails later on.    *)
Store == log \subseteq log' /\ log' \subseteq asked /\ UNCHANGED <<asked, done>>

Report == \E r \in log : done' = done \cup {r} /\ UNCHANGED <<asked, log>>

Next == Ask \/ Store \/ Report

Spec == Init /\ [][Next]_vars
=============================================================================
