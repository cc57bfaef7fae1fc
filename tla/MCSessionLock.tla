--------------------------- MODULE MCSessionLock ---------------------------
(* Three commands started together, by one operator in three terminals. *)
EXTENDS SessionLock
=============================================================================
