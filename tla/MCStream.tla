------------------------------ MODULE MCStream ------------------------------
(* One tick is about 20 s for the socket timers and 1 s for the delays,    *)
(* which never run at the same time.                                       *)
EXTENDS Stream
=============================================================================
