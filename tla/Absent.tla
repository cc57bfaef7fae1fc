------------------------------- MODULE Absent -------------------------------
(* What the account of the TUI and the calculations share: the None of the *)
(* code.                                                                   *)
CONSTANT None
=============================================================================
