---------------------------- MODULE MCTokenCache ----------------------------
(***************************************************************************)
(* Two or three readers that meet the same dead token, and one caller that *)
(* uses a token once.                                                      *)
(***************************************************************************)
EXTENDS TokenCache
=============================================================================
