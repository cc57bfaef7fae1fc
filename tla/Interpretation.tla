--------------------------- MODULE Interpretation ---------------------------
(***************************************************************************)
(* The reading of one timeframe from the signs of its signals, and of      *)
(* several timeframes together (interpretation).  A signal is 1, 0 or -1,  *)
(* or None without data; prices and percentages matter only through these  *)
(* signs, so the thresholds they are cut at are left out (_direction), and *)
(* so is the wording of evidence and risks.                                *)
(***************************************************************************)
EXTENDS Integers, Sequences, FiniteSetsExt, Absent

Signs == {-1, 0, 1}

(* ema: EMA9 against EMA21, with location, the price against EMA21; book   *)
(* and tape: None without signals; volume: against 1.3 and 0.7.            *)
Reading ==
  {r \in [ema : Signs \cup {None}, location : Signs \cup {None}, vwap : Signs \cup {None},
          book : Signs \cup {None}, tape : Signs \cup {None},
          volume : {None, "weak", "usual", "confirmed"}] :
     (r.ema = None) <=> (r.location = None)}

Voters == {"ema", "location", "vwap", "book", "tape"}

Votes(r, sign) == Cardinality({v \in Voters : r[v] = sign})

Opposed(a, b) == a \in {-1, 1} /\ b = -a

(* flow_direction: the tape, unless it says nothing *)
Flow(r) == IF r.tape \in {-1, 1} THEN r.tape ELSE r.book

BookTapeConflict(r) == Opposed(r.book, r.tape)
TrendFlowConflict(r) == Opposed(r.ema, Flow(r))

HasPriceContext(r) == r.ema # None \/ r.vwap # None

(* headline of interpret_timeframe: up, down, rebound and correction have  *)
(* a direction, range, conflict and none have not.                         *)
Headline(r) ==
  LET up == Votes(r, 1)
      down == Votes(r, -1)
      available == Cardinality({v \in Voters : r[v] # None})
  IN  IF ~HasPriceContext(r) THEN "none"
      ELSE IF up + down < 2 THEN IF available >= 2 /\ up + down = 0 THEN "range" ELSE "none"
      ELSE IF r.ema = -1 /\ r.vwap = 1 /\ Flow(r) = 1 THEN "rebound"
      ELSE IF r.ema = 1 /\ r.vwap = -1 /\ Flow(r) = -1 THEN "correction"
      ELSE IF up >= down + 2 THEN "up"
      ELSE IF down >= up + 2 THEN "down"
      ELSE IF BookTapeConflict(r) \/ TrendFlowConflict(r) \/ (up > 0 /\ down > 0) THEN "conflict"
      ELSE "range"

AnyLoser(n) == TRUE                      \* mutant: the votes against are not counted

NoVoteAgainst(n) == n = 0

Confidence(r) ==
  LET winner == Max({Votes(r, 1), Votes(r, -1)})
      loser == Min({Votes(r, 1), Votes(r, -1)})
  IN  CASE Headline(r) = "none" -> "unavailable"
        [] Headline(r) # "none" /\ winner + loser < 2 -> "low"
        [] Headline(r) # "none" /\ winner + loser >= 2 ->
             IF Headline(r) = "conflict" \/ BookTapeConflict(r) THEN "low"
             ELSE IF winner >= 3 /\ NoVoteAgainst(loser) /\ r.volume = "confirmed" THEN "high"
             ELSE IF winner >= 2 /\ winner > loser THEN "moderate" ELSE "low"

(* the direction a headline gives to its timeframe, 0 without one *)
Heading(headline) ==
  CASE headline \in {"up", "rebound"} -> 1
    [] headline \in {"down", "correction"} -> -1
    [] headline \in {"range", "conflict", "none"} -> 0

(* _alignment of the headlines of some intraday timeframes and of the day *)
Alignment(intraday, day) ==
  LET all == {Heading(intraday[m]) : m \in DOMAIN intraday} \cup {Heading(day)}
      known == Cardinality({m \in DOMAIN intraday : Heading(intraday[m]) # 0})
               + IF Heading(day) # 0 THEN 1 ELSE 0
      headed(sign) == Cardinality({m \in DOMAIN intraday : Heading(intraday[m]) = sign})
  IN  IF known < 2 THEN "unknown"
      ELSE IF -1 \notin all THEN "aligned up"
      ELSE IF 1 \notin all THEN "aligned down"
      ELSE IF Heading(day) = -1 /\ headed(1) >= 2 THEN "short rebound"
      ELSE IF Heading(day) = 1 /\ headed(-1) >= 2 THEN "short correction"
      ELSE "mixed"

(* build_market_interpretation: data[mode] is the reading of a mode, or    *)
(* that its indicators are invalid, or that calculating them raises.  Only *)
(* the mode shown is read with book and tape.  None: the window stays shut.*)
MultiTimeframes == {"1m", "5m", "15m", "1d"}

WithoutFlow(r) == [r EXCEPT !.book = None, !.tape = None]

HeadlineIn(data, mode, selected) ==
  IF data[mode].state = "valid"
  THEN Headline(IF mode = selected THEN data[mode].reading ELSE WithoutFlow(data[mode].reading))
  ELSE "none"                            \* unavailable_timeframe

MarketReading(data, selected, stale) ==
  LET headlines == [m \in MultiTimeframes |-> HeadlineIn(data, m, selected)]
  IN  IF stale
      THEN [selected |-> "none", timeframes |-> [m \in MultiTimeframes |-> "none"],
            alignment |-> "unknown"]
      ELSE IF data[selected].state = "raises" THEN None
      ELSE [selected |-> HeadlineIn(data, selected, selected), timeframes |-> headlines,
            alignment |-> Alignment([m \in MultiTimeframes \ {"1d"} |-> headlines[m]], headlines["1d"])]

-----------------------------------------------------------------------------
Opposite(x) ==
  CASE x = "up" -> "down" [] x = "down" -> "up"
    [] x = "rebound" -> "correction" [] x = "correction" -> "rebound"
    [] x = "aligned up" -> "aligned down" [] x = "aligned down" -> "aligned up"
    [] x = "short rebound" -> "short correction" [] x = "short correction" -> "short rebound"
    [] x \in {"range", "conflict", "none", "unknown", "mixed"} -> x

Mirrored(r) == [f \in DOMAIN r |-> IF f \in Voters /\ r[f] # None THEN -r[f] ELSE r[f]]

(* The same signals turned round are read as the opposite, with the same   *)
(* confidence: no branch of the reading favours a side.  More than low     *)
(* confidence is given only to what the majority says, high confidence     *)
(* never against a vote, and a timeframe without its own price never heads *)
(* anywhere.                                                               *)
ReadingFollowsTheVotes(r) ==
  /\ Headline(Mirrored(r)) = Opposite(Headline(r))
  /\ Confidence(Mirrored(r)) = Confidence(r)
  /\ Confidence(r) \in {"moderate", "high"} =>
       Heading(Headline(r)) * (Votes(r, 1) - Votes(r, -1)) > 0
  /\ Confidence(r) = "high" =>
       \A v \in Voters : r[v] \in {None, 0, Heading(Headline(r))}
  /\ r.ema = None /\ r.vwap = None => Heading(Headline(r)) = 0

(* No intraday timeframe goes against an alignment, and turned round the   *)
(* timeframes align the other way.                                         *)
AlignmentIsUnanimous(intraday, day) ==
  LET turned == [m \in DOMAIN intraday |-> Opposite(intraday[m])]
  IN  /\ Alignment(turned, Opposite(day)) = Opposite(Alignment(intraday, day))
      /\ Alignment(intraday, day) = "aligned up" =>
           \A m \in DOMAIN intraday : Heading(intraday[m]) # -1

(* Where there is a reading, the book and the tape of the moment, and a    *)
(* failure of a timeframe that is not the one shown, change nothing in what*)
(* is said of the others (a failure of the one shown shuts the whole       *)
(* reading); an alignment is claimed only of timeframes that were read, and*)
(* never of stale data.                                                    *)
TimeframesStandAlone(data, selected, stale) ==
  LET read == MarketReading(data, selected, stale)
      Changed(m, entry) == MarketReading([data EXCEPT ![m] = entry], selected, stale)
  IN  read # None =>
        /\ \A m \in MultiTimeframes \ {selected} :
             /\ Changed(m, [data[m] EXCEPT !.reading = WithoutFlow(@)]) = read
             /\ \A n \in MultiTimeframes \ {m} :
                  Changed(m, [data[m] EXCEPT !.state = "raises"]).timeframes[n] = read.timeframes[n]
        /\ read.alignment # "unknown" =>
             /\ ~stale
             /\ Cardinality({m \in MultiTimeframes : data[m].state = "valid"
                                                    /\ HasPriceContext(data[m].reading)}) >= 2
        /\ selected \in MultiTimeframes => read.timeframes[selected] = read.selected
=============================================================================
