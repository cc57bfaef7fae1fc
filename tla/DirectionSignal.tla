--------------------------- MODULE DirectionSignal ---------------------------
(***************************************************************************)
(* The local direction signal (ai_direction): which candles become         *)
(* examples, which examples a validation step may learn from, and the      *)
(* gates between the candles and a BUY or SELL.  The neighbours and their  *)
(* distances are data: what they predict is an input.                      *)
(*                                                                         *)
(* Candles are numbered from 0, the oldest; example e is candle            *)
(* Lookback + e with the return to the close Horizon[mode] candles later.  *)
(* Shares and scores are percentages.                                      *)
(***************************************************************************)
EXTENDS Integers, FiniteSets

CONSTANTS
  Lookback, MinTraining, MinValidation, ValidationWindow,
  MinScore, MinAgreement, MinMargin, MinConfidence,
  Horizon,     \* Horizon[mode], in candles
  MaxCandles   \* the most candles a request brings

ASSUME DirectionAssumption ==
  /\ {Lookback, MinTraining, MinValidation, ValidationWindow, MaxCandles} \subseteq Nat \ {0}
  /\ {MinScore, MinAgreement, MinMargin, MinConfidence} \subseteq 0 .. 100
  /\ \A mode \in DOMAIN Horizon : Horizon[mode] \in Nat \ {0}

(* The numbers leave room for a signal: enough training for every number   *)
(* of neighbours, and enough candles for a validation of every horizon.    *)
ASSUME RoomAssumption ==
  /\ MinTraining >= 15 /\ ValidationWindow >= MinValidation
  /\ \A mode \in DOMAIN Horizon :
       Lookback + 2 * Horizon[mode] + MinTraining + MinValidation <= MaxCandles

LargerOf(a, b) == IF a >= b THEN a ELSE b
SmallerOf(a, b) == IF a <= b THEN a ELSE b

(* _examples: those whose label is known *)
NumExamples(n, h) == LargerOf(n - h - Lookback, 0)

FeatureCandle(e) == Lookback + e
LabelCandle(e, h) == Lookback + e + h

NoEmbargo(e, h) == 0 .. e - 1            \* mutant

(* prior in _walk_forward_score: examples before the embargo *)
TrainingFor(e, h) == 0 .. e - h

ValidationStart(n, h) == LargerOf(MinTraining + h, NumExamples(n, h) - ValidationWindow)

(* The examples validated; up to firstChange all labels are the same. *)
Validated(n, h, firstChange) ==
  {e \in ValidationStart(n, h) .. NumExamples(n, h) - 1 :
     /\ Cardinality(TrainingFor(e, h)) >= MinTraining
     /\ firstChange \in TrainingFor(e, h)}

(* _walk_forward_score has a score. *)
HasScore(n, h, in) ==
  /\ Cardinality(Validated(n, h, in.firstChange)) >= MinValidation
  /\ in.bothValidated

(* Neighbours asked: an odd number near the root of the examples. *)
Neighbours(examples) ==
  LET root == CHOOSE r \in 0 .. examples : r * r <= examples /\ (r + 1) * (r + 1) > examples
      k == LargerOf(7, SmallerOf(15, root))
  IN  IF k % 2 = 0 THEN k - 1 ELSE k

(* _predict: a direction without enough agreement is a HOLD. *)
Predicted(in) ==
  IF in.label \in {"BUY", "SELL"} /\ (in.agreement < MinAgreement \/ in.margin < MinMargin)
  THEN "HOLD" ELSE in.label

Insufficient(quality) == [direction |-> "INSUFFICIENT", quality |-> quality]

MinimumCandles(h) == Lookback + h + MinTraining + MinValidation

WeaklyConfirmed(in) == in.agreement * in.score < 100 * MinConfidence

(* build_ai_direction_signal *)
Signal(mode, n, in) ==
  LET h == Horizon[mode]
      direction == IF Predicted(in) \in {"BUY", "SELL"} /\ WeaklyConfirmed(in)
                   THEN "HOLD" ELSE Predicted(in)
  IN  IF in.stale THEN Insufficient("stale")
      ELSE IF \/ n < MinimumCandles(h)
              \/ NumExamples(n, h) < MinTraining + MinValidation
              \/ in.firstChange \notin 0 .. NumExamples(n, h) - 1
              \/ ~HasScore(n, h, in)
              \/ in.score < MinScore
      THEN Insufficient("limited")
      ELSE [direction |-> direction,
            quality |-> IF direction = "HOLD" THEN "limited" ELSE "validated"]

-----------------------------------------------------------------------------
(* No validation step, and no prediction, learns from a label that was not *)
(* known at the candle it judges, and yet nothing known is wasted: the     *)
(* last label it learns from is the close of that very candle.  A signal   *)
(* always asks as many neighbours as it has, an odd number.                *)
LearnsFromThePast(mode, n, in) ==
  LET h == Horizon[mode]
      steps == Validated(n, h, in.firstChange)
  IN  /\ \A e \in steps :
           /\ \A t \in TrainingFor(e, h) : LabelCandle(t, h) <= FeatureCandle(e)
           /\ \E t \in TrainingFor(e, h) : LabelCandle(t, h) = FeatureCandle(e)
      /\ Signal(mode, n, in).direction # "INSUFFICIENT" =>
           /\ \A t \in 0 .. NumExamples(n, h) - 1 : LabelCandle(t, h) <= n - 1
           /\ Neighbours(NumExamples(n, h)) <= Cardinality(TrainingFor(ValidationStart(n, h), h))
           /\ Neighbours(NumExamples(n, h)) % 2 = 1

(* Every mode can speak: with the candles one request brings, and labels   *)
(* that differ early enough, the steps left by lookback, horizon, embargo  *)
(* and training suffice for a score; for an hour not one is to spare.      *)
FullHistoryIsEnough(mode, n, in) ==
  n = MaxCandles /\ in.firstChange = 1 =>
    Cardinality(Validated(n, Horizon[mode], 1)) >= MinValidation

(* A direction is given only by a validated model that agrees with itself, *)
(* and never more sure of itself than its worst factor.                    *)
SignalIsEarned(mode, n, in) ==
  Signal(mode, n, in).direction \in {"BUY", "SELL"} =>
    /\ ~in.stale /\ Signal(mode, n, in).direction = in.label
    /\ in.score >= MinConfidence /\ in.agreement >= MinConfidence
    /\ in.score * in.agreement >= 100 * MinConfidence
    /\ Cardinality(Validated(n, Horizon[mode], in.firstChange)) >= MinValidation
=============================================================================
