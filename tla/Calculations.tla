---------------------------- MODULE Calculations ----------------------------
(***************************************************************************)
(* The calculations of the program, one at a time: nothing has been        *)
(* calculated, or one thing for one input.  A step is a calculation as the *)
(* code asks for it, on an input the code can ask it for; the inputs are   *)
(* constants, about which only their type is assumed.                      *)
(***************************************************************************)
EXTENDS PortfolioView, Candles, Indicators, MarketMetrics, Interpretation, DirectionSignal

CONSTANTS
  Symbols,
  Intents, Quotes, OpenOrders,   \* what a ticket asks for, sees and shares the account with
  Trades, MaxTrades, Span,       \* live trades, and the length of longer candles
  Charts,                        \* candles, the newest first
  Dailies, Opened, Prices,       \* daily candles, the first candle of a new day, its price
  Timeframes,                    \* the indicators of one timeframe
  Sides, Tapes,                  \* of the order book; the last trades
  Holdings, MaxHoldings, Rate,   \* of a portfolio; won for a dollar
  Lengths, Outlooks,             \* numbers of candles, and what neighbours predict
  Period, Window, Recent, Least, \* of averages, swings and levels; volumes compared with
  Depth                          \* levels of the book that count

VARIABLES kind, input

Amount == Nat \ {0}
Markets == {"kr", "us"}

(* Orders as a ticket puts them together: a limit price exactly for LIMIT. *)
Intent ==
  {i \in [symbol : Symbols, market : Markets, side : {"BUY", "SELL"}, type : {"LIMIT", "MARKET"},
          quantity : Amount, limit : Amount \cup {None}, reference : Amount, holding : Nat, power : Nat] :
     (i.type = "MARKET") <=> (i.limit = None)}

Book == [market : Markets, bid : Amount \cup {None}, ask : Amount \cup {None}]

Quote ==
  [book : {None} \cup Book, last : Amount \cup {None}, quoteFresh : BOOLEAN, bookFresh : BOOLEAN]

OpenOrder == [id : Nat, symbol : Symbols, side : {"BUY", "SELL"}, status : STRING, remaining : Nat]

(* What was paid for a holding is not negative: the broker's word, which    *)
(* the code takes as it is.                                                *)
Holding ==
  [symbol : Symbols, market : Markets, quantity : Nat, purchase : Nat, value : Int, profit : Int,
   daily : Int]

(* Candles with the session, or the day, they are of. *)
Candle(of) ==
  {c \in [{"open", "close", "high", "low", "volume", of} -> Nat] :
     c.low > 0 /\ {c.open, c.close} \subseteq c.low .. c.high}

Timeframe == [reading : Reading, state : {"valid", "invalid", "raises"}]

Outlook ==
  [stale : BOOLEAN, firstChange : Nat, bothValidated : BOOLEAN, score : 0 .. 100,
   label : {"BUY", "HOLD", "SELL"}, agreement : 0 .. 100, margin : 0 .. 100]

Headlines == {"up", "down", "rebound", "correction", "range", "conflict", "none"}
Modes == MultiTimeframes \cup {"1h"}

(* Clocks are whole minutes off, and longer candles whole minutes long.    *)
Trade ==
  {t \in [moment : [at : Int, offset : Int], price : Amount, volume : Nat] :
     t.moment.offset % Minute = 0}

(* Daily candles have the newest first, one for a day.                     *)
ASSUME InputsAreTyped ==
  /\ None \notin Int \cup (Int \X Int) /\ \A orders \in SUBSET OpenOrders : orders # None
  /\ Intents \subseteq Intent /\ Quotes \subseteq Quote
  /\ OpenOrders \subseteq OpenOrder /\ IsFiniteSet(OpenOrders)
  /\ Trades \subseteq Trade /\ MaxTrades \in Nat /\ Span \in Amount /\ Span % Minute = 0
  /\ \A chart \in Charts : chart \in Seq(Candle("session")) /\ chart # << >>
  /\ \A dailies \in Dailies :
       /\ dailies \in Seq(Candle("day")) /\ dailies # << >>
       /\ \A i, j \in DOMAIN dailies : i < j => dailies[i].day > dailies[j].day
  /\ Opened \subseteq Candle("day")
  /\ {Period, Window, Recent, Least, Depth} \subseteq Amount
  /\ Timeframes \subseteq Timeframe
  /\ \A side \in Sides : side \in Seq([volume : Nat])
  /\ \A tape \in Tapes : tape \in Seq([price : Amount, volume : Nat])
  /\ Holdings \subseteq Holding /\ MaxHoldings \in Nat /\ Rate \in Amount
  /\ Lengths \subseteq 0 .. MaxCandles /\ Outlooks \subseteq Outlook

CalcInit == kind = "none" /\ input = None

Choose(k) == kind = "none" /\ kind' = k

(* build_pretrade_facts for the preview of an order *)
FactsOfOrder ==
  /\ Choose("facts")
  /\ \E intent \in {i \in Intents : RiskGateAccepts(i)} :
     \E quote \in Quotes, orders \in (SUBSET OpenOrders) \cup {None} :
       /\ quote.book = None => ~quote.bookFresh
       /\ input' = [intent |-> intent, quote |-> quote, orders |-> orders]

FoldLiveTrades ==
  /\ Choose("trades")
  /\ \E n \in 1 .. MaxTrades : input' \in [1 .. n -> Trades]

DrawChart == Choose("chart") /\ input' \in Charts

ReadTimeframe == Choose("reading") /\ input' \in Reading

AlignTimeframes ==
  /\ Choose("alignment")
  /\ input' \in [intraday : [{"1m", "5m", "15m"} -> Headlines], day : Headlines]

CompareTimeframes ==
  /\ Choose("timeframes")
  /\ \E data \in [Modes -> Timeframes], selected \in Modes, stale \in BOOLEAN :
       input' = [data |-> data, selected |-> selected, stale |-> stale]

WeighBook == Choose("book") /\ input' \in [bids : Sides, asks : Sides]

WeighTape == Choose("tape") /\ input' \in Tapes

(* The first candle of a new day, after the daily candles so far. *)
FigureDay ==
  /\ Choose("day")
  /\ \E dailies \in Dailies, opened \in Opened, price \in Prices :
       /\ Head(dailies).day <= opened.day
       /\ input' = [dailies |-> dailies, opened |-> opened, day |-> opened.day, price |-> price]

ShowSellable ==
  /\ Choose("sellable")
  /\ \E item \in Holdings, orders \in SUBSET OpenOrders : input' = [item |-> item, orders |-> orders]

(* A portfolio has a symbol once. *)
ShowPortfolio ==
  /\ Choose("portfolio")
  /\ \E n \in 1 .. MaxHoldings : \E items \in [1 .. n -> Holdings] :
       /\ \A i, j \in 1 .. n : items[i].symbol = items[j].symbol => i = j
       /\ input' = items

JudgeDirection ==
  /\ Choose("direction")
  /\ \E mode \in DOMAIN Horizon, n \in Lengths, outlook \in Outlooks :
       input' = [mode |-> mode, n |-> n, outlook |-> outlook]

CalcNext ==
  \/ FactsOfOrder \/ FoldLiveTrades \/ DrawChart
  \/ ReadTimeframe \/ AlignTimeframes \/ CompareTimeframes \/ WeighBook \/ WeighTape
  \/ FigureDay \/ ShowSellable \/ ShowPortfolio \/ JudgeDirection

CalcSpec == CalcInit /\ [][CalcNext]_<<kind, input>>

-----------------------------------------------------------------------------
(* Pretrade!FactsMatchTheGates: the facts beside a confirmation announce   *)
(* exactly the blocks that the gates of the submission enforce.            *)
FactsAnnounceTheGates ==
  kind = "facts" => FactsMatchTheGates(input.intent, input.quote, input.orders)

(* Pretrade!NoUnfoundedPass: PASS is never said of what is unknown, stale  *)
(* or does not suffice beside the open orders.                             *)
PassIsFounded ==
  kind = "facts" => NoUnfoundedPass(input.intent, input.quote, input.orders)

(* Candles!CandlesMatchTheTrades: folded one by one, whatever boundary,    *)
(* clock and order, trades give the candles of those that were not late.   *)
LiveCandlesAreExact == kind = "trades" => CandlesMatchTheTrades(input, Span)

(* Indicators: averages stay inside the candles of their window or session *)
(* and the volume ratio inside the volumes, and the RSI has no bias.       *)
AveragesStayInside ==
  kind = "chart" =>
    /\ EmaStaysInside(input, Period)
    /\ VwapStaysInSession(input)
    /\ RsiIsMirrored(input, Period)
    /\ VolumeRatioStaysInside(input, Recent, Least)

(* Indicators and MarketMetrics: averages stay inside; a candle that is new*)
(* or grows makes or takes the swing of the edge and no other; levels      *)
(* enclose the price; few columns keep the chart, and a new day keeps the  *)
(* close before it.                                                        *)
ChartIsTrue ==
  /\ AveragesStayInside
  /\ kind = "chart" =>
       /\ SwingsRepaintAtTheEdgeOnly(input, Window)
       /\ LevelsEnclose(input, Tail(input), Recent, Window)
       /\ ColumnsKeepTheChart(input)
  /\ kind = "day" => PreviousCloseStands(input.price, input.day, input.dailies, input.opened)

(* PortfolioView: every holding counts once in its own currency, and the   *)
(* portfolio calls sellable what a ticket may sell.                        *)
PortfolioAddsUp ==
  /\ kind = "portfolio" => HoldingsAddUp(input, Rate)
  /\ kind = "sellable" => SellableAgreesWithTheTicket(input.item, input.orders)

(* Interpretation and MarketMetrics: a reading turns round with its        *)
(* signals and is surer than low only with the majority; so do timeframes  *)
(* taken together, which do not meddle with each other; book and tape      *)
(* weigh both sides alike.                                                 *)
ReadingsAreEvenHanded ==
  /\ kind = "reading" => ReadingFollowsTheVotes(input)
  /\ kind = "alignment" => AlignmentIsUnanimous(input.intraday, input.day)
  /\ kind = "timeframes" => TimeframesStandAlone(input.data, input.selected, input.stale)
  /\ kind = "book" => BookIsEven(input, Depth)
  /\ kind = "tape" => TapeIsEven(input)

(* DirectionSignal: validation never learns from the future, a full        *)
(* history always suffices for it, and a BUY or SELL is earned.            *)
DirectionIsHonest ==
  kind = "direction" =>
    /\ LearnsFromThePast(input.mode, input.n, input.outlook)
    /\ FullHistoryIsEnough(input.mode, input.n, input.outlook)
    /\ SignalIsEarned(input.mode, input.n, input.outlook)
=============================================================================
