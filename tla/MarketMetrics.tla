--------------------------- MODULE MarketMetrics ---------------------------
(***************************************************************************)
(* The figures beside the price (render): the day in the header, what the  *)
(* book and the tape say, and the columns a chart is squeezed into.        *)
(* Percentages are fractions <<numerator, denominator>>, None where the    *)
(* code has None.  A day is the date of a quote on the clock of the daily  *)
(* candles; texts, colours and the spread are left out.                    *)
(***************************************************************************)
EXTENDS Integers, Sequences, FiniteSetsExt, SequencesExt, Absent

Volume(entries) == SumFunction([i \in DOMAIN entries |-> entries[i].volume])

Percent(part, whole) == IF whole > 0 THEN <<100 * part, whole>> ELSE None

(* _same_market_date: a quote without a time is one of today. *)
SameMarketDate(day, candle) == day = None \/ day = candle.day

(* market_metrics, the day: dailies with the newest first *)
DayFigures(price, day, dailies) ==
  LET today == dailies # << >> /\ SameMarketDate(day, Head(dailies))
      before == IF today THEN Tail(dailies) ELSE dailies
  IN  [previousClose |-> IF before = << >> THEN None ELSE Head(before).close,
       high |-> IF today THEN Max({Head(dailies).high, price}) ELSE None,
       low |-> IF today THEN Min({Head(dailies).low, price}) ELSE None,
       volume |-> IF today THEN Head(dailies).volume ELSE None]

RecentVwap(trades) ==
  IF Volume(trades) = 0 THEN None
  ELSE <<SumFunction([i \in DOMAIN trades |-> trades[i].price * trades[i].volume]), Volume(trades)>>

(* market_signals: the share of the bids in the best depth levels *)
Best(side, depth) == SubSeq(side, 1, Min({depth, Len(side)}))

Imbalance(book, depth) ==
  LET bids == Volume(Best(book.bids, depth))
  IN  Percent(bids, bids + Volume(Best(book.asks, depth)))

(* market_signals: the share of the volume traded above the trade before   *)
(* in what was traded above or below it; trades with the newest first.     *)
TradedWhere(trades, Moved(_, _)) ==
  LET moved == {i \in 1 .. Len(trades) - 1 : Moved(trades[i].price, trades[i + 1].price)}
  IN  SumFunctionOnSet([i \in DOMAIN trades |-> trades[i].volume], moved)

Pressure(trades) ==
  LET up == TradedWhere(trades, >)
  IN  Percent(up, up + TradedWhere(trades, <))

(* downsample_candles: a chart, the oldest candle first, in few columns *)
Column(group) ==
  [open |-> Head(group).open, close |-> Last(group).close,
   high |-> Max({c.high : c \in ToSet(group)}), low |-> Min({c.low : c \in ToSet(group)}),
   volume |-> Volume(group)]

Downsample(line, columns) ==
  LET upTo(n) == (n * Len(line)) \div columns
  IN  IF Len(line) <= columns THEN line
      ELSE [n \in 1 .. columns |-> Column(SubSeq(line, upTo(n - 1) + 1, upTo(n)))]

-----------------------------------------------------------------------------
Complementary(a, b) ==
  IF a = None THEN b = None
  ELSE a[1] * b[2] + b[1] * a[2] = 100 * a[2] * b[2]

(* The sides of a book weigh alike: with bids and asks exchanged the       *)
(* imbalance is what is left to 100; levels below the depth say nothing.   *)
BookIsEven(book, depth) ==
  /\ Complementary(Imbalance(book, depth), Imbalance([bids |-> book.asks, asks |-> book.bids], depth))
  /\ Imbalance(book, depth) =
       Imbalance([bids |-> Best(book.bids, depth), asks |-> Best(book.asks, depth)], depth)

(* Rising and falling trades weigh alike, and the average price of the     *)
(* tape lies between prices that something was traded at.                  *)
TapeIsEven(trades) ==
  LET traded == {t.price : t \in {s \in ToSet(trades) : s.volume > 0}}
      vwap == RecentVwap(trades)
  IN  /\ Complementary(Pressure(trades),
                       Pressure([i \in DOMAIN trades |-> [trades[i] EXCEPT !.price = -@]]))
      /\ vwap # None =>
           Min(traded) * vwap[2] <= vwap[1] /\ vwap[1] <= Max(traded) * vwap[2]

(* When the daily candle of a new day appears, the close that the change   *)
(* of the price is measured against stays where it was; and no close of    *)
(* the day of the quote itself is ever taken for it.                       *)
PreviousCloseStands(price, day, dailies, opened) ==
  LET earlier == {i \in DOMAIN dailies : dailies[i].day < day}
      close == DayFigures(price, day, dailies).previousClose
  IN  /\ Head(dailies).day < day =>
           close = DayFigures(price, day, <<opened>> \o dailies).previousClose
      /\ close = IF earlier = {} THEN None ELSE dailies[Min(earlier)].close

(* However few the columns, the chart keeps its volume, its extremes, the  *)
(* open it began with and the close it ends with, and every column holds   *)
(* its own open and close.                                                 *)
ColumnsKeepTheChart(candles) ==
  LET line == Reverse(candles)
  IN  \A n \in 1 .. Len(line) + 1 :
        LET drawn == Downsample(line, n)
        IN  /\ Len(drawn) = Min({n, Len(line)})
            /\ Volume(drawn) = Volume(line)
            /\ Max({c.high : c \in ToSet(drawn)}) = Max({c.high : c \in ToSet(line)})
            /\ Min({c.low : c \in ToSet(drawn)}) = Min({c.low : c \in ToSet(line)})
            /\ Head(drawn).open = Head(line).open /\ Last(drawn).close = Last(line).close
            /\ \A c \in ToSet(drawn) : c.low <= Min({c.open, c.close}) /\ Max({c.open, c.close}) <= c.high
=============================================================================
