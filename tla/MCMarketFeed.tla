---------------------------- MODULE MCMarketFeed ----------------------------
(* All trades are of symbol A, and the last of them begins a new minute. *)
EXTENDS MarketFeed

MCSymbolOf == [t \in Trades |-> "A"]
MCMinuteOf == [t \in Trades |-> IF t < NumTrades THEN 1 ELSE 2]
=============================================================================
