---------------------------- MODULE MCLiveOrder ----------------------------
(***************************************************************************)
(* Plans 1 and 2 come from the same intent (one fingerprint), plan 3 from  *)
(* another quantity of the same symbol and side.                           *)
(***************************************************************************)
EXTENDS LiveOrder

MCSymbols == {"AAPL", "TSLA"}
MCSides == {"BUY"}
MCIntentOf == [p \in Plans |-> IF p <= 2 THEN 10 ELSE 20]
MCSymbolOf == [i \in Intents |-> "AAPL"]
MCSideOf == [i \in Intents |-> "BUY"]
=============================================================================
