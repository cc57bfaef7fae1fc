------------------------------- MODULE Candles -------------------------------
(***************************************************************************)
(* Live trades folded into candles one by one (live_chart), and minute     *)
(* candles put together to longer ones (indicators).  A moment is an       *)
(* instant with the offset of the clock it was written by: minutes are     *)
(* compared by the instant, days and longer buckets on the wall clock.     *)
(*                                                                         *)
(* Candles are sequences, the newest first.  One currency.                 *)
(***************************************************************************)
EXTENDS Integers, Sequences, FiniteSetsExt, SequencesExt

CONSTANTS
  Minute, Day,   \* their length in instants
  Limit          \* the most candles kept

ASSUME CandlesAssumption ==
  /\ {Minute, Day, Limit} \subseteq Nat \ {0}
  /\ Day % Minute = 0

WallClock(moment) == moment.at + moment.offset

(* _minute_key *)
MinuteOf(moment) == moment.at \div Minute

OwnDay(moment, reference) == WallClock(moment) \div Day \* mutant: the clock of the trade

(* _daily_key: the day on the clock of the newest candle *)
DayOf(moment, reference) == (moment.at + reference.offset) \div Day

(* _bucket_key *)
Bucket(interval, moment, reference) ==
  IF interval = "1m" THEN MinuteOf(moment) ELSE DayOf(moment, reference)

(* _bucket_timestamp: a minute keeps the clock of the trade, a day takes   *)
(* the one of the newest candle.                                           *)
BucketStart(interval, moment, reference) ==
  IF interval = "1m"
  THEN [moment EXCEPT !.at = @ - (@ % Minute)]
  ELSE [at |-> Day * DayOf(moment, reference) - reference.offset, offset |-> reference.offset]

NewCandle(start, trade) ==
  [start |-> start, open |-> trade.price, high |-> trade.price, low |-> trade.price,
   close |-> trade.price, volume |-> trade.volume]

Updated(candle, trade) ==
  [candle EXCEPT !.high = Max({@, trade.price}), !.low = Min({@, trade.price}),
                 !.close = trade.price, !.volume = @ + trade.volume]

Kept(candles) == SubSeq(candles, 1, Min({Limit, Len(candles)}))

(* apply_trade_to_candles *)
FoldTrade(interval, candles, trade) ==
  IF candles = << >>
  THEN << NewCandle(BucketStart(interval, trade.moment, trade.moment), trade) >>
  ELSE LET newest == Head(candles).start
           here == Bucket(interval, trade.moment, newest)
           there == Bucket(interval, newest, newest)
       IN  CASE here < there -> candles
             [] here = there -> Kept(<<Updated(Head(candles), trade)>> \o Tail(candles))
             [] here > there ->
                  Kept(<<NewCandle(BucketStart(interval, trade.moment, newest), trade)>> \o candles)

FoldTrades(interval, trades) ==
  LET folded[n \in 0 .. Len(trades)] ==
        IF n = 0 THEN << >> ELSE FoldTrade(interval, folded[n - 1], trades[n])
  IN  folded[Len(trades)]

-----------------------------------------------------------------------------
(* A finite set of numbers in rising and in falling order. *)
Rising(S) ==
  CHOOSE s \in [1 .. Cardinality(S) -> S] : \A i, j \in DOMAIN s : i < j => s[i] < s[j]
Falling(S) ==
  CHOOSE s \in [1 .. Cardinality(S) -> S] : \A i, j \in DOMAIN s : i < j => s[i] > s[j]

(* aggregate_candles: one candle for every wall-clock bucket of length     *)
(* span and every offset, in the order in which the input meets them; the  *)
(* candles of a bucket are known by their places.                          *)
SpanKey(candle, span) == <<WallClock(candle.start) \div span, candle.start.offset>>

SpanStart(candle, span) ==
  [candle.start EXCEPT !.at = @ - (WallClock(candle.start) % span)]

Oldest(candles, places) ==
  candles[CHOOSE i \in places : \A j \in places : candles[i].start.at <= candles[j].start.at]
Latest(candles, places) ==
  candles[CHOOSE i \in places : \A j \in places : candles[i].start.at >= candles[j].start.at]

Merged(candles, places, span) ==
  [start |-> SpanStart(Oldest(candles, places), span),
   open |-> Oldest(candles, places).open, close |-> Latest(candles, places).close,
   high |-> Max({candles[i].high : i \in places}), low |-> Min({candles[i].low : i \in places}),
   volume |-> SumFunction([i \in places |-> candles[i].volume])]

(* The places of the candles in the bucket of the i-th. *)
Members(candles, i, span) ==
  {j \in DOMAIN candles : SpanKey(candles[j], span) = SpanKey(candles[i], span)}

Aggregate(candles, span) ==
  LET first == {i \in DOMAIN candles : i = Min(Members(candles, i, span))}
  IN  [n \in 1 .. Cardinality(first) |-> Merged(candles, Members(candles, Rising(first)[n], span), span)]

-----------------------------------------------------------------------------
(* The candle of the trades at some places, from a start on. *)
CandleOf(trades, starts, places) ==
  [start |-> starts[Min(places)],
   open |-> trades[Min(places)].price, close |-> trades[Max(places)].price,
   high |-> Max({trades[i].price : i \in places}), low |-> Min({trades[i].price : i \in places}),
   volume |-> SumFunction([i \in places |-> trades[i].volume])]

(* Trades that count: none of a later minute, or day, came in before them. *)
Counted(keys) == {i \in DOMAIN keys : \A j \in 1 .. i - 1 : keys[j] <= keys[i]}

(* The candles of the trades counted, one for each key, the newest first.  *)
CandlesBy(trades, keys, starts, counted) ==
  LET present == {keys[i] : i \in counted}
  IN  [n \in 1 .. Cardinality(present) |->
         CandleOf(trades, starts, {i \in counted : keys[i] = Falling(present)[n]})]

(* Minute, day and longer bucket of each trade, and where they start: days *)
(* on the first clock, the others on the clock of the trade.               *)
Minutes(trades) == [i \in DOMAIN trades |-> trades[i].moment.at \div Minute]
MinuteStarts(trades) ==
  [i \in DOMAIN trades |-> [trades[i].moment EXCEPT !.at = Minute * (@ \div Minute)]]

Days(trades) == [i \in DOMAIN trades |-> (trades[i].moment.at + trades[1].moment.offset) \div Day]
DayStarts(trades) ==
  [i \in DOMAIN trades |-> [at |-> Day * Days(trades)[i] - trades[1].moment.offset,
                            offset |-> trades[1].moment.offset]]

Spans(trades, span) == [i \in DOMAIN trades |-> WallClock(trades[i].moment) \div span]
SpanStarts(trades, span) ==
  [i \in DOMAIN trades |-> [trades[i].moment EXCEPT !.at = @ - (WallClock(trades[i].moment) % span)]]

TotalVolume(candles) == SumFunction([n \in DOMAIN candles |-> candles[n].volume])

(* Live candles are the candles of the trades that were not late, in       *)
(* falling order and within the limit: no trade counts twice or in two     *)
(* candles, at whatever boundary and by whatever clock it falls; days are  *)
(* those of the first clock.  On one clock the longer candles, put         *)
(* together from minutes, are those of the same trades; between clocks no  *)
(* volume is lost.                                                         *)
CandlesMatchTheTrades(trades, span) ==
  LET counted == Counted(Minutes(trades))
      InMinutes == CandlesBy(trades, Minutes(trades), MinuteStarts(trades), counted)
      InDays == CandlesBy(trades, Days(trades), DayStarts(trades), Counted(Days(trades)))
      minutes == FoldTrades("1m", trades)
      long == Aggregate(minutes, span)
  IN /\ minutes = Kept(InMinutes) /\ FoldTrades("1d", trades) = Kept(InDays)
     /\ TotalVolume(long) = TotalVolume(minutes)
     /\ (\A i \in DOMAIN trades : trades[i].moment.offset = trades[1].moment.offset)
          /\ Len(InMinutes) <= Limit =>
            long = CandlesBy(trades, Spans(trades, span), SpanStarts(trades, span), counted)
=============================================================================
