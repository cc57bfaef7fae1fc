--------------------------- MODULE MCCalculations ---------------------------
(* The calculations over all inputs of a bounded kind. *)
EXTENDS Calculations

MCCap == [kr |-> 4, us |-> 3]
MCHorizon == ("1m" :> 3) @@ ("5m" :> 5) @@ ("15m" :> 15) @@ ("1h" :> 60) @@ ("1d" :> 3)

(* Orders on A. *)
MCIntents ==
  {i \in [symbol : {"A"}, market : {"kr", "us"}, side : {"BUY", "SELL"}, type : {"LIMIT", "MARKET"},
          quantity : {1, 2, 4}, limit : {1, 3, None}, reference : {2}, holding : {0, 2, 4},
          power : {0, 2, 3}] :
     /\ (i.type = "MARKET") <=> (i.limit = None)
     /\ IF i.side = "BUY" THEN i.holding = 0 ELSE i.power = 0}

MCBooks == {None} \cup [market : {"kr", "us"}, bid : {1, 3, None}, ask : {2, 3, None}]
MCQuotes == [book : MCBooks, last : {2, None}, quoteFresh : BOOLEAN, bookFresh : BOOLEAN]

MCOpenOrders ==
  {[id |-> 1, symbol |-> "A", side |-> "SELL", status |-> "PENDING", remaining |-> 1],
   [id |-> 2, symbol |-> "A", side |-> "SELL", status |-> "NEVER_SEEN", remaining |-> 1],
   [id |-> 3, symbol |-> "A", side |-> "SELL", status |-> "FILLED", remaining |-> 3],
   [id |-> 4, symbol |-> "A", side |-> "BUY", status |-> "PENDING", remaining |-> 4],
   [id |-> 5, symbol |-> "B", side |-> "SELL", status |-> "PENDING", remaining |-> 5]}

(* A trade near the end of a minute, a longer candle or a day. *)
MCTrades == [moment : [at : {1, 2, 5, 7}, offset : {0, 2}], price : {1, 2}, volume : {1}]

MCBars ==
  {[open |-> 1, close |-> 2, high |-> 3, low |-> 1, volume |-> 1],
   [open |-> 1, close |-> 1, high |-> 1, low |-> 1, volume |-> 0],
   [open |-> 4, close |-> 3, high |-> 4, low |-> 3, volume |-> 2],
   [open |-> 2, close |-> 4, high |-> 5, low |-> 2, volume |-> 1]}

(* Candles of which the oldest are of the day before. *)
MCCharts ==
  UNION {{[i \in 1 .. n |-> bars[i] @@ [session |-> IF i <= today THEN 2 ELSE 1]] :
            bars \in [1 .. n -> MCBars], today \in 1 .. n} : n \in 2 .. 5}

(* Daily candles of days 1 to 3. *)
MCDailies ==
  UNION {{[i \in DOMAIN days |-> bars[i] @@ [day |-> days[i]]] : bars \in [DOMAIN days -> MCBars]} :
           days \in {<<3>>, <<2>>, <<3, 2>>, <<3, 1>>, <<2, 1>>, <<3, 2, 1>>}}
MCOpened == {bar @@ [day |-> d] : bar \in MCBars, d \in 2 .. 3}

MCSides == UNION {[1 .. n -> [volume : 0 .. 2]] : n \in 0 .. 3}
MCTapes == UNION {[1 .. n -> [price : 1 .. 3, volume : 0 .. 2]] : n \in 0 .. 3}

(* Some readings of a timeframe, and how its indicators turned out. *)
Sample ==
  {[ema |-> 1, location |-> 1, vwap |-> 1, book |-> 0, tape |-> None, volume |-> "usual"],
   [ema |-> -1, location |-> 0, vwap |-> 1, book |-> 1, tape |-> 1, volume |-> "confirmed"],
   [ema |-> None, location |-> None, vwap |-> -1, book |-> -1, tape |-> -1, volume |-> None]}

MCTimeframes ==
  [reading : Sample, state : {"valid"}] \cup
    {[reading |-> CHOOSE r \in Sample : TRUE, state |-> state] : state \in {"invalid", "raises"}}

(* Holdings with a loss, and with a negative value. *)
MCHoldings ==
  [symbol : {"A", "B", "C"}, market : {"kr", "us"}, quantity : {3}, purchase : {0, 2}, value : {-1, 3},
   profit : {-1, 1}, daily : {1}]

MCLengths == {79, 80, 86, 139, 140, 199, MaxCandles}
MCOutlooks ==
  [stale : BOOLEAN, firstChange : {1, 40, 100}, bothValidated : BOOLEAN,
   score : {44, 45, 60, 100}, label : {"BUY", "HOLD", "SELL"}, agreement : {57, 58, 80},
   margin : {11, 12}]
=============================================================================
