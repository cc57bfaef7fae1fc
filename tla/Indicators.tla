----------------------------- MODULE Indicators -----------------------------
(***************************************************************************)
(* The indicators of the chart, calculated from candles with the newest    *)
(* first: moving average, session VWAP, RSI, relative volume and price     *)
(* levels.  An average is a fraction <<numerator, denominator>>; the       *)
(* rounding of the decimals of the code is left out.  Series are functions *)
(* of the age of a candle in candles, as the tuples of the code, and None  *)
(* where the code has None.                                                *)
(***************************************************************************)
EXTENDS Integers, Sequences, FiniteSetsExt, SequencesExt, Absent

(* chronological position of the candle with index i *)
Position(candles, i) == Len(candles) - i + 1

Chronological(candles) == Reverse(candles)

(* ema_series *)
Ema(candles, period) ==
  LET close(n) == Chronological(candles)[n].close
      ema[n \in period .. Len(candles)] ==
        IF n = period THEN <<SumFunction([m \in 1 .. period |-> close(m)]), period>>
        ELSE <<2 * close(n) * ema[n - 1][2] + (period - 1) * ema[n - 1][1], (period + 1) * ema[n - 1][2]>>
  IN  [i \in DOMAIN candles |->
         IF Position(candles, i) < period THEN None ELSE ema[Position(candles, i)]]

AnySession(session, candle) == TRUE  \* mutant: sums are kept over night

(* The candle belongs to the session the sums were started for. *)
SameSession(session, candle) == session = candle.session

(* session_vwap_series, the typical price tripled: the sums with one       *)
(* candle more, and the value they stand for                               *)
Summed(sums, c) ==
  LET kept == IF SameSession(sums.session, c) THEN sums ELSE [session |-> c.session, pv |-> 0, volume |-> 0]
  IN  [session |-> c.session,
       pv |-> kept.pv + (c.high + c.low + c.close) * c.volume,
       volume |-> kept.volume + c.volume]

Vwap(candles) ==
  LET sums[n \in 0 .. Len(candles)] ==
        IF n = 0 THEN [session |-> None, pv |-> 0, volume |-> 0]
        ELSE Summed(sums[n - 1], Chronological(candles)[n])
      value(s) == IF s.volume > 0 THEN <<s.pv, 3 * s.volume>> ELSE None
  IN  [i \in DOMAIN candles |-> value(sums[Position(candles, i)])]

(* rsi_series: gains and losses, both multiplied by the same number, with  *)
(* Wilder's smoothing.                                                     *)
Strengths(candles, period) ==
  LET close(n) == Chronological(candles)[n].close
      gain(n) == Max({close(n + 1) - close(n), 0})
      loss(n) == Max({close(n) - close(n + 1), 0})
      smooth[n \in period .. Len(candles) - 1] ==
        IF n = period
        THEN [gain |-> SumFunction([m \in 1 .. period |-> gain(m)]),
              loss |-> SumFunction([m \in 1 .. period |-> loss(m)]), scale |-> 1]
        ELSE LET s == smooth[n - 1]
             IN  [gain |-> s.gain * (period - 1) + gain(n) * s.scale * period,
                  loss |-> s.loss * (period - 1) + loss(n) * s.scale * period,
                  scale |-> s.scale * period]
  IN  smooth

(* _rsi_value *)
RsiValue(gain, loss) ==
  CASE gain = 0 /\ loss = 0 -> <<50, 1>>
    [] gain > 0 \/ loss > 0 -> <<100 * gain, gain + loss>>

Rsi(candles, period) ==
  [i \in DOMAIN candles |->
     LET n == Position(candles, i) - 1
     IN  IF n < period THEN None
         ELSE RsiValue(Strengths(candles, period)[n].gain, Strengths(candles, period)[n].loss)]

-----------------------------------------------------------------------------
(* relative_volume: the prior candles with a volume, and the k-th smallest *)
(* of their volumes                                                        *)
Baseline(candles, lookback) ==
  {i \in 2 .. Min({lookback + 1, Len(candles)}) : candles[i].volume > 0}

Ranked(candles, places, k) ==
  CHOOSE v \in {candles[i].volume : i \in places} :
    /\ Cardinality({i \in places : candles[i].volume < v}) < k
    /\ Cardinality({i \in places : candles[i].volume <= v}) >= k

RelativeVolume(candles, lookback, minimum) ==
  LET baseline == Baseline(candles, lookback)
      middle == Cardinality(baseline) \div 2
      median == IF Cardinality(baseline) % 2 = 1
                THEN <<Ranked(candles, baseline, middle + 1), 1>>
                ELSE <<Ranked(candles, baseline, middle) + Ranked(candles, baseline, middle + 1), 2>>
  IN  IF candles = << >> THEN None
      ELSE IF Head(candles).volume = 0 \/ Cardinality(baseline) < minimum THEN None
      ELSE <<Head(candles).volume * median[2], median[1]>>

OlderSide(candles, i, window) == {i + d : d \in 1 .. window} \* mutant: not confirmed yet

Around(candles, i, window) == {i + d : d \in (-window .. window) \ {0}}

(* _pivot_extremes: the newest candle above, or below, all its neighbours, *)
(* with a full window on both sides.                                       *)
Pivot(candles, window, value(_), Beyond(_, _)) ==
  LET confirmed == {i \in DOMAIN candles :
        /\ Around(candles, i, window) \subseteq DOMAIN candles
        /\ \A j \in Around(candles, i, window) : Beyond(value(candles[i]), value(candles[j]))}
  IN  IF confirmed = {} THEN None ELSE value(candles[Min(confirmed)])

SwingHigh(candles, window) == Pivot(candles, window, LAMBDA c : c.high, >)
SwingLow(candles, window) == Pivot(candles, window, LAMBDA c : c.low, <)

(* support_resistance, for the candles of the day and the daily ones *)
Levels(candles, dailies, lookback, window) ==
  LET recent == {candles[i] : i \in 1 .. Min({lookback, Len(candles)})}
      today == {c \in recent : c.session = Head(candles).session}
  IN [recentHigh |-> Max({c.high : c \in recent}), recentLow |-> Min({c.low : c \in recent}),
      sessionHigh |-> Max({c.high : c \in today}), sessionLow |-> Min({c.low : c \in today}),
      previousClose |->
        IF dailies = << >> THEN None
        ELSE IF Head(dailies).session = Head(candles).session /\ Len(dailies) > 1
             THEN dailies[2].close ELSE Head(dailies).close,
      swingHigh |-> SwingHigh(candles, window), swingLow |-> SwingLow(candles, window)]

(* nearest_support_resistance *)
Nearest(levels, price) ==
  LET known == {levels[l] : l \in DOMAIN levels} \ {None}
      below == {v \in known : v <= price}
      above == {v \in known : v >= price}
  IN  [support |-> IF below = {} THEN None ELSE Max(below),
       resistance |-> IF above = {} THEN None ELSE Min(above)]

-----------------------------------------------------------------------------
Between(low, fraction, high) ==
  low * fraction[2] <= fraction[1] /\ fraction[1] <= high * fraction[2]

Closes(candles) == {c.close : c \in ToSet(candles)}

(* The candles up to index i. *)
Until(candles, i) == SubSeq(candles, i, Len(candles))

(* A moving average never leaves the closes it averages. *)
EmaStaysInside(candles, period) ==
  \A i \in DOMAIN candles :
    Ema(candles, period)[i] # None =>
      Between(Min(Closes(Until(candles, i))), Ema(candles, period)[i], Max(Closes(Until(candles, i))))

(* A VWAP never leaves the prices of its own session, to whatever level    *)
(* the night moved them.                                                   *)
VwapStaysInSession(candles) ==
  \A i \in DOMAIN candles :
    LET ours == {c \in ToSet(Until(candles, i)) : c.session = candles[i].session}
    IN  Vwap(candles)[i] # None =>
          Between(Min({c.low : c \in ours}), Vwap(candles)[i], Max({c.high : c \in ours}))

Turned(candles) == [i \in DOMAIN candles |-> [candles[i] EXCEPT !.close = -@]]

(* Strength and weakness are measured alike: the RSI of the mirrored       *)
(* closes is what is left to 100.                                          *)
RsiIsMirrored(candles, period) ==
  \A i \in DOMAIN candles :
    LET up == Rsi(candles, period)[i]
        down == Rsi(Turned(candles), period)[i]
    IN  IF up = None THEN down = None
        ELSE Between(0, up, 100) /\ up[1] * down[2] + down[1] * up[2] = 100 * up[2] * down[2]

(* The ratio of volumes compares with a volume there was, or between two.  *)
VolumeRatioStaysInside(candles, lookback, minimum) ==
  LET ratio == RelativeVolume(candles, lookback, minimum)
      before == {candles[i].volume : i \in 2 .. Min({lookback + 1, Len(candles)})} \ {0}
  IN  ratio # None =>
        /\ Min(before) * ratio[1] <= Head(candles).volume * ratio[2]
        /\ Head(candles).volume * ratio[2] <= Max(before) * ratio[1]

(* The newest candle after it has grown to the high h and the low l.       *)
Grown(candles, h, l) == [candles EXCEPT ![1] = [@ EXCEPT !.high = h, !.low = l]]

(* Only one swing depends on the newest candle: that of the edge, which has*)
(* the newest candle as the last of its newer side.  A candle more brings  *)
(* that swing or none, and leaves the others.  While the newest candle     *)
(* grows it takes the swing of the edge away exactly when it reaches it,   *)
(* and the one before shows again; no other swing repaints.                *)
SwingsRepaintAtTheEdgeOnly(candles, window) ==
  LET edge == candles[window + 1]
      before == Tail(candles)
  IN  Len(candles) > window + 1 =>
        /\ SwingHigh(candles, window) \in {SwingHigh(before, window), edge.high}
        /\ SwingLow(candles, window) \in {SwingLow(before, window), edge.low}
        /\ \A h \in Head(candles).high .. Max({c.high : c \in ToSet(candles)}) + 1,
              l \in 1 .. Head(candles).low :
             /\ SwingHigh(Grown(candles, h, l), window) =
                  SwingHigh(IF h < edge.high THEN candles ELSE before, window)
             /\ SwingLow(Grown(candles, h, l), window) =
                  SwingLow(IF l > edge.low THEN candles ELSE before, window)

(* A price inside the recent candles has support and resistance, and no    *)
(* level of the chart lies nearer to it than they do.                      *)
LevelsEnclose(candles, dailies, lookback, window) ==
  LET levels == Levels(candles, dailies, lookback, window)
  IN  \A price \in levels.recentLow .. levels.recentHigh :
        LET near == Nearest(levels, price)
        IN  /\ near.support # None /\ near.resistance # None
            /\ \A l \in DOMAIN levels :
                 levels[l] = None \/ levels[l] <= near.support \/ levels[l] >= near.resistance
=============================================================================
