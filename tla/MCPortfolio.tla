----------------------------- MODULE MCPortfolio -----------------------------
(* Two accounts, with one order event on each side of a refresh. *)
EXTENDS Portfolio
=============================================================================
