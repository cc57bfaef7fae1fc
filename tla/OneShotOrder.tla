---------------------------- MODULE OneShotOrder ----------------------------
(***************************************************************************)
(* What the manual live path promises, without saying how: within one life *)
(* of the process an order fingerprint is reserved before anything is sent *)
(* for it, a reservation is never taken back, and at most one POST is sent *)
(* for a reserved fingerprint.  Only the end of the process forgets.       *)
(***************************************************************************)
EXTENDS Naturals

CONSTANT Fingerprints

VARIABLES
  reserved,  \* fingerprints for which an attempt has begun in this life
  sends      \* sends[f]: POSTs sent for f in this life

oneShotVars == <<reserved, sends>>

Init ==
  /\ reserved = {}
  /\ sends = [f \in Fingerprints |-> 0]

Reserve(f) ==
  /\ f \notin reserved
  /\ reserved' = reserved \cup {f}
  /\ UNCHANGED sends

Send(f) ==
  /\ f \in reserved
  /\ sends[f] = 0
  /\ sends' = [sends EXCEPT ![f] = 1]
  /\ UNCHANGED reserved

Forget ==
  /\ reserved' = {}
  /\ sends' = [f \in Fingerprints |-> 0]

Next ==
  \/ \E f \in Fingerprints : Reserve(f) \/ Send(f)
  \/ Forget

Spec == Init /\ [][Next]_oneShotVars
=============================================================================
