------------------------------ MODULE MCAlerts ------------------------------
(* The price of B moves; A is only there to be switched to. *)
EXTENDS Alerts

MCWanted == {[symbol |-> "B", kind |-> "above"], [symbol |-> "B", kind |-> "change"]}
MCThrice == [s \in Symbols |-> IF s = "B" THEN 3 ELSE 0]
=============================================================================
