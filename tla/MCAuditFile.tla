---------------------------- MODULE MCAuditFile -----------------------------
(* Two processes, three records of two pieces. *)
EXTENDS AuditFile
=============================================================================
