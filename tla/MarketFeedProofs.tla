-------------------------- MODULE MarketFeedProofs --------------------------
(***************************************************************************)
(* For any symbols, trades and size of the trade buffer: nothing of        *)
(* another symbol is shown, LIVE is not shown over a degradation, the      *)
(* candles count every trade once, and the quote never goes back in time.  *)
(*                                                                         *)
(* The last two speak of what a replay computes over the trade buffer; the *)
(* lemmas on it are by induction over the places of the buffer.            *)
(***************************************************************************)
EXTENDS MarketFeed, WellFoundedInduction, SequenceTheorems, TLAPS

-----------------------------------------------------------------------------
(* Nothing of another symbol is on the screen, whichever reply or event    *)
(* comes while the symbol is switched, and back.                           *)
THEOREM ShownIsActive == Spec => []NoForeignData
<1>1. Init => NoForeignData
  BY DEF Init, NoForeignData
<1>2. NoForeignData /\ [Next]_vars => NoForeignData'
  <2> SUFFICES ASSUME NoForeignData, [Next]_vars PROVE NoForeignData'
    OBVIOUS
  <2> USE DEF NoForeignData
  <2>1. CASE SwitchSymbol
    BY <2>1 DEF SwitchSymbol, ClearScreen
  <2>2. CASE FeedEvent
    <3>1. symbol' = symbol /\ snap' = snap
      BY <2>2 DEF FeedEvent, StreamConnects, Subscribed, StreamError, ProtocolError, BookArrives,
         TradeArrives, OldTradeArrives, TradeNotFolded, dataVars, taskVars
    <3>2. shown' \subseteq shown \cup {symbol}
      BY <2>2 DEF FeedEvent, FeedListens, StreamConnects, Subscribed, StreamError, ProtocolError,
         BookArrives, TradeArrives, OldTradeArrives, TradeNotFolded, dataVars, taskVars
    <3>3. QED BY <3>1, <3>2
  <2>3. ASSUME NEW w \in Workers, SnapshotApplied(w) \/ CandlesApplied
        PROVE  NoForeignData'
    BY <2>3 DEF SnapshotApplied, CandlesApplied, StillWanted
  <2>4. CASE UNCHANGED <<symbol, snap, shown>>
    BY <2>4
  <2>5. \/ SwitchSymbol \/ FeedEvent \/ UNCHANGED <<symbol, snap, shown>>
        \/ \E w \in Workers : SnapshotApplied(w) \/ CandlesApplied
    BY DEF Next, Begin, Refresh, ReadQuote, ReadCandles, ReplyDiscarded,
       RefreshFails, ChartModeChosen, SwitchRequested, Execute, TimePasses, vars, dataVars
  <2>6. QED BY <2>1, <2>2, <2>3, <2>4, <2>5
<1>3. QED BY <1>1, <1>2, PTL DEF Spec

-----------------------------------------------------------------------------
(* While the feed refreshes after its subscription, no event of the stream *)
(* can degrade it; a switch cancels it before it changes the symbol.       *)
FeedRefresh ==
  /\ pc["feed"] # "idle" => streamLive /\ ~protocolDegraded
  /\ pc["switch"] = "cancelling" => pc["feed"] = "idle" /\ feedSymbol = None

(* Nobody but the four tasks ever asks for a refresh. *)
Tasks == DOMAIN pc = Workers

(* Every step leaves the four tasks. *)
LEMMA TasksStay == Spec => []Tasks
<1>1. Init => Tasks
  BY DEF Init, Tasks
<1>2. Tasks /\ [Next]_vars => Tasks'
  <2> SUFFICES ASSUME Tasks, [Next]_vars PROVE Tasks'
    OBVIOUS
  <2> USE DEF Tasks
  <2>1. ASSUME NEW w \in Workers, Begin(w) PROVE Tasks'
    BY <2>1 DEF Begin
  <2>2. ASSUME NEW w \in Workers, Refresh(w) PROVE Tasks'
    BY <2>2 DEF Refresh, ReadQuote, ReadCandles, SnapshotApplied, CandlesApplied, ReplyDiscarded,
       RefreshFails, LeaveRefresh
  <2>3. CASE FeedEvent
    BY <2>3 DEF FeedEvent, StreamConnects, Subscribed, StreamError, ProtocolError, BookArrives,
       TradeArrives, OldTradeArrives, TradeNotFolded, taskVars
  <2>4. ASSUME NEW s \in Symbols, SwitchRequested(s) PROVE Tasks'
    BY <2>4 DEF SwitchRequested
  <2>5. CASE SwitchSymbol \/ ChartModeChosen \/ Execute \/ TimePasses \/ UNCHANGED vars
    BY <2>5 DEF SwitchSymbol, ChartModeChosen, Execute, TimePasses, taskVars, vars
  <2>6. QED BY <2>1, <2>2, <2>3, <2>4, <2>5 DEF Next
<1>3. QED BY <1>1, <1>2, PTL DEF Spec

(* What a refresh of worker w leaves of the other workers and of the       *)
(* stream: a step of it never degrades the protocol.                       *)
LEMMA RefreshKeeps ==
  ASSUME Tasks, NEW w \in Workers, Refresh(w)
  PROVE  /\ pc[w] = "rest"
         /\ streamLive' = streamLive
         /\ protocolDegraded' => protocolDegraded
         /\ pc' = pc \/ pc' = [pc EXCEPT ![w] = "idle"]
         /\ w # "switch" => feedSymbol' = feedSymbol
         /\ w = "switch" /\ pc' = pc => feedSymbol' = feedSymbol
<1>1. CASE ReadQuote(w) \/ ReadCandles(w)
  BY <1>1 DEF ReadQuote, ReadCandles, stateVars
<1>2. CASE SnapshotApplied(w)
  BY <1>2 DEF SnapshotApplied, LeaveRefresh, Tasks
<1>3. CASE w = "resync" /\ CandlesApplied
  BY <1>3 DEF CandlesApplied, LeaveRefresh
<1>4. CASE ReplyDiscarded(w)
  BY <1>4 DEF ReplyDiscarded, LeaveRefresh, stateVars, Tasks
<1>5. CASE RefreshFails(w)
  BY <1>5 DEF RefreshFails, LeaveRefresh, Tasks
<1>6. QED BY <1>1, <1>2, <1>3, <1>4, <1>5 DEF Refresh

(* FeedRefresh is inductive. *)
LEMMA FeedRefreshStays == Spec => []FeedRefresh
<1>1. Init => FeedRefresh
  BY DEF Init, FeedRefresh, Workers
<1>2. Tasks /\ FeedRefresh /\ [Next]_vars => FeedRefresh'
  <2> SUFFICES ASSUME Tasks, FeedRefresh, [Next]_vars PROVE FeedRefresh'
    OBVIOUS
  <2> USE DEF FeedRefresh
  <2>1. ASSUME NEW w \in Workers, Begin(w) PROVE FeedRefresh'
    BY <2>1 DEF Begin, Asks, Tasks, Workers
  <2>2. ASSUME NEW w \in Workers, Refresh(w) PROVE FeedRefresh'
    BY <2>2, RefreshKeeps DEF Tasks, Workers
  <2>3. CASE StreamConnects \/ StreamError \/ ProtocolError \/ BookArrives
             \/ \E t \in Trades : TradeArrives(t) \/ OldTradeArrives(t) \/ TradeNotFolded(t)
    <3>1. FeedListens /\ pc' = pc
      BY <2>3 DEF StreamConnects, StreamError, ProtocolError, BookArrives, TradeArrives,
         OldTradeArrives, TradeNotFolded, taskVars
    <3>2. QED BY <3>1 DEF FeedListens
  <2>4. CASE Subscribed
    BY <2>4 DEF Subscribed, FeedListens, Tasks, Workers
  <2>5. ASSUME NEW s \in Symbols, SwitchRequested(s) PROVE FeedRefresh'
    BY <2>5 DEF SwitchRequested, FeedAfterCancel, stateVars, Tasks, Workers
  <2>6. CASE SwitchSymbol
    BY <2>6 DEF SwitchSymbol, Tasks, Workers
  <2>7. CASE ChartModeChosen \/ Execute \/ TimePasses \/ UNCHANGED vars
    BY <2>7 DEF ChartModeChosen, Execute, TimePasses, vars, taskVars, stateVars
  <2>8. QED BY <2>1, <2>2, <2>3, <2>4, <2>5, <2>6, <2>7 DEF Next, FeedEvent
<1>3. QED BY <1>1, <1>2, TasksStay, PTL DEF Spec

(* LIVE on a live stream hides neither a protocol error that is pending    *)
(* nor candles that failed to sync, whatever refresh ends meanwhile.       *)
THEOREM LiveIsTrue == Spec => []LiveIsUndegraded
<1>1. Init => LiveIsUndegraded
  BY DEF Init, LiveIsUndegraded
<1>2. FeedRefresh /\ LiveIsUndegraded /\ [Next]_vars => LiveIsUndegraded'
  <2> SUFFICES ASSUME FeedRefresh, LiveIsUndegraded, [Next]_vars PROVE LiveIsUndegraded'
    OBVIOUS
  <2> USE DEF LiveIsUndegraded
  <2>1. ASSUME NEW w \in Workers, SnapshotApplied(w) PROVE LiveIsUndegraded'
    <3>1. /\ candleDegraded' = FALSE /\ streamLive' = streamLive
          /\ protocolDegraded' = (protocolDegraded /\ ~req[w].live)
          /\ w = "feed" => ~protocolDegraded
      BY <2>1 DEF SnapshotApplied, TakeCandles, FeedRefresh
    <3>2. connState' = "LIVE" => w = "feed" \/ req[w].live \/ connState = "LIVE"
      <4>1. CASE w = "feed"
        BY <4>1
      <4>2. CASE w # "feed" /\ indicatorDegraded'
        BY <2>1, <4>2 DEF SnapshotApplied
      <4>3. CASE w # "feed" /\ ~indicatorDegraded' /\ ~req[w].live
        BY <2>1, <4>3 DEF SnapshotApplied
      <4>4. QED BY <4>1, <4>2, <4>3
    <3>3. QED BY <3>1, <3>2
  <2>2. CASE CandlesApplied
    BY <2>2 DEF CandlesApplied, TakeCandles, RenderStats
  <2>3. ASSUME NEW w \in Workers, RefreshFails(w) PROVE LiveIsUndegraded'
    BY <2>3 DEF RefreshFails, SetCandleDegraded
  <2>4. ASSUME NEW w \in Workers, Begin(w) PROVE LiveIsUndegraded'
    BY <2>4 DEF Begin
  <2>5. CASE StreamConnects \/ StreamError \/ ProtocolError \/ Subscribed \/ SwitchSymbol
    BY <2>5 DEF StreamConnects, StreamError, ProtocolError, Subscribed, SwitchSymbol
  <2>6. CASE BookArrives \/ \E t \in Trades : TradeArrives(t) \/ OldTradeArrives(t)
    <3>1. Recover /\ UNCHANGED <<streamLive, candleDegraded>>
      BY <2>6 DEF BookArrives, TradeArrives, OldTradeArrives
    <3>2. QED BY <3>1 DEF Recover, RenderStats, ProtocolRecovers
  <2>7. ASSUME NEW t \in Trades, TradeNotFolded(t) PROVE LiveIsUndegraded'
    BY <2>7 DEF TradeNotFolded, RenderStats
  <2>8. CASE ChartModeChosen
    BY <2>8 DEF ChartModeChosen, RenderStats
  <2>9. CASE UNCHANGED stateVars
    BY <2>9 DEF stateVars
  <2>10. ASSUME NEW w \in Workers, ReplyDiscarded(w) PROVE LiveIsUndegraded'
    BY <2>10 DEF ReplyDiscarded
  <2>11. \/ \E w \in Workers : SnapshotApplied(w) \/ CandlesApplied \/ RefreshFails(w) \/ Begin(w)
         \/ \E w \in Workers : ReplyDiscarded(w)
         \/ StreamConnects \/ StreamError \/ ProtocolError \/ Subscribed \/ SwitchSymbol
         \/ BookArrives
         \/ \E t \in Trades : TradeArrives(t) \/ OldTradeArrives(t) \/ TradeNotFolded(t)
         \/ ChartModeChosen \/ UNCHANGED stateVars
    BY DEF Next, Refresh, ReadQuote, ReadCandles,
       SwitchRequested, Execute, TimePasses, FeedEvent, vars
  <2>12. QED BY <2>1, <2>2, <2>3, <2>4, <2>5, <2>6, <2>7, <2>8, <2>9, <2>10, <2>11
<1>3. QED BY <1>1, <1>2, FeedRefreshStays, PTL DEF Spec

-----------------------------------------------------------------------------
(* Any set of natural numbers that is not empty has a least member. *)
LEMMA LeastNumber ==
  ASSUME NEW S \in SUBSET Nat, S # {}
  PROVE  \E m \in S : \A k \in S : m <= k
<1> DEFINE R == OpToRel(<, Nat)
<1>1. IsWellFoundedOn(R, Nat)
  BY NatLessThanWellFounded
<1>2. \A m, n \in Nat : m < n => <<m, n>> \in R
  BY DEF OpToRel
<1>3. \E m \in S : \A k \in S : <<k, m>> \notin R
  <2> HIDE DEF R
  <2> QED BY <1>1, WFMin
<1>4. PICK m \in S : \A k \in S : ~(k < m)
  BY <1>2, <1>3
<1>5. QED BY <1>4

(* Induction over the natural numbers, for a set. *)
LEMMA SetInduction ==
  ASSUME NEW S, 0 \in S, \A n \in Nat : n \in S => n + 1 \in S
  PROVE  Nat \subseteq S
<1> SUFFICES ASSUME Nat \ S # {} PROVE FALSE
  OBVIOUS
<1>1. PICK m \in Nat \ S : \A k \in Nat \ S : m <= k
  <2>1. Nat \ S \in SUBSET Nat
    OBVIOUS
  <2>2. QED BY <2>1, LeastNumber
<1>2. m # 0 /\ m - 1 \in Nat /\ m - 1 \notin Nat \ S
  BY <1>1
<1>3. QED BY <1>2

(* A set of bounded numbers that is not empty has a greatest member. *)
LEMMA GreatestNumber ==
  ASSUME NEW N \in Nat, NEW S \in SUBSET (0 .. N), S # {}
  PROVE  \E m \in S : \A k \in S : k <= m
<1> DEFINE T == {d \in 0 .. N : N - d \in S}
<1>1. T \in SUBSET Nat
  OBVIOUS
<1>2. ASSUME NEW k \in S PROVE N - k \in T /\ k \in 0 .. N
  OBVIOUS
<1>3. PICK d \in T : \A e \in T : d <= e
  <2>1. T # {}
    BY <1>2
  <2> HIDE DEF T
  <2> QED BY <1>1, <2>1, LeastNumber
<1>4. N - d \in S /\ d \in 0 .. N
  BY <1>3
<1>5. ASSUME NEW k \in S PROVE k <= N - d
  <2>1. d <= N - k /\ k \in 0 .. N
    BY <1>2, <1>3
  <2>2. QED BY <1>4, <2>1
<1>6. QED BY <1>4, <1>5

(* A function that is defined step by step from its value at 0 exists. *)
Stepwise(f, V, base, n, next) ==
  /\ f \in [0 .. n -> V]
  /\ f[0] = base /\ \A i \in 1 .. n : f[i] = next[<<f[i - 1], i>>]

(* For any first value and any way to the next one there is one. *)
LEMMA StepwiseFunction ==
  ASSUME NEW V, NEW base \in V, NEW n \in Nat, NEW next \in [V \X (1 .. n) -> V]
  PROVE  \E f : Stepwise(f, V, base, n, next)
<1> DEFINE Upto(m, f) == f[0] = base /\ \A i \in 1 .. m : f[i] = next[<<f[i - 1], i>>]
           S == {m \in Nat : m <= n => \E f \in [0 .. m -> V] : Upto(m, f)}
<1>1. 0 \in S
  <2>1. Upto(0, [i \in 0 .. 0 |-> base]) /\ [i \in 0 .. 0 |-> base] \in [0 .. 0 -> V]
    OBVIOUS
  <2>2. QED BY <2>1
<1>2. ASSUME NEW m \in Nat, m \in S PROVE m + 1 \in S
  <2> SUFFICES ASSUME m + 1 <= n PROVE \E g \in [0 .. m + 1 -> V] : Upto(m + 1, g)
    OBVIOUS
  <2>1. PICK f \in [0 .. m -> V] : Upto(m, f)
    BY <1>2
  <2> DEFINE g == [i \in 0 .. m + 1 |-> IF i <= m THEN f[i] ELSE next[<<f[m], m + 1>>]]
  <2>2. f[m] \in V /\ m + 1 \in 1 .. n
    OBVIOUS
  <2>3. g \in [0 .. m + 1 -> V]
    BY <2>2
  <2>4. g[0] = base /\ \A i \in 0 .. m : g[i] = f[i]
    BY <2>1
  <2>5. ASSUME NEW i \in 1 .. m + 1 PROVE g[i] = next[<<g[i - 1], i>>]
    <3>1. CASE i <= m
      <4>1. i \in 1 .. m /\ i - 1 \in 0 .. m /\ i \in 0 .. m
        BY <3>1
      <4>2. f[i] = next[<<f[i - 1], i>>]
        BY <2>1, <4>1
      <4>3. QED BY <2>4, <4>1, <4>2
    <3>2. CASE i = m + 1
      <4>1. m + 1 \in 0 .. m + 1 /\ ~(m + 1 <= m) /\ m \in 0 .. m /\ i - 1 = m
        BY <3>2
      <4>2. g[m + 1] = next[<<f[m], m + 1>>] /\ g[m] = f[m]
        BY <2>4, <4>1
      <4>3. QED BY <3>2, <4>1, <4>2
    <3>3. QED BY <3>1, <3>2
  <2>6. QED BY <2>3, <2>4, <2>5
<1>3. n \in S
  <2> HIDE DEF S
  <2> QED BY <1>1, <1>2, SetInduction
<1>4. QED BY <1>3 DEF Stepwise

-----------------------------------------------------------------------------
(* The price in a REST answer is the newest trade of the symbol.           *)
LEMMA RestPriceIsNewest ==
  ASSUME NEW s, NEW e \in 0 .. NumTrades
  PROVE  /\ RestPrice(s, e) \in {0} \cup Trades
         /\ RestPrice(s, e) # 0 => SymbolOf[RestPrice(s, e)] = s /\ RestPrice(s, e) <= e
         /\ \A t \in Trades : t <= e /\ SymbolOf[t] = s => t <= RestPrice(s, e)
<1> DEFINE known == {t \in Trades : t <= e /\ SymbolOf[t] = s}
<1> USE MarketFeedAssumption DEF MarketFeedAssumption, Trades
<1>1. CASE known = {}
  BY <1>1 DEF RestPrice
<1>2. CASE known # {}
  <2>1. \E m \in known : \A u \in known : u <= m
    <3>1. known \in SUBSET (0 .. NumTrades) /\ NumTrades \in Nat
      OBVIOUS
    <3> HIDE DEF known
    <3> QED BY <1>2, <3>1, GreatestNumber
  <2>2. RestPrice(s, e) = CHOOSE m \in known : \A u \in known : u <= m
    BY <1>2 DEF RestPrice
  <2>3. RestPrice(s, e) \in known /\ \A u \in known : u <= RestPrice(s, e)
    <3> HIDE DEF known
    <3> QED BY <2>1, <2>2
  <2>4. QED BY <2>3
<1>3. QED BY <1>1, <1>2

(* A replay counts one place of the buffer after the other. *)
Counted(c, places, f) ==
  /\ f \in [0 .. Len(buffer) -> [Trades -> Nat]]
  /\ f[0] = c
  /\ \A i \in 1 .. Len(buffer) :
       f[i] = IF i \in places THEN Fold(f[i - 1], buffer[i][2]) ELSE f[i - 1]

(* What ReplayedOnto computes is the last of such counts. *)
LEMMA ReplayUnfolds ==
  ASSUME buffer \in Seq(Nat \X Trades), NEW c \in [Trades -> Nat], NEW places
  PROVE  \E f : Counted(c, places, f) /\ ReplayedOnto(c, places) = f[Len(buffer)]
<1> DEFINE V == [Trades -> Nat]
           n == Len(buffer)
           next == [p \in V \X (1 .. n) |->
                      IF p[2] \in places THEN Fold(p[1], buffer[p[2]][2]) ELSE p[1]]
           Def(f) == [i \in 0 .. n |->
                        IF i = 0 THEN c
                        ELSE IF i \in places THEN Fold(f[i - 1], buffer[i][2])
                        ELSE f[i - 1]]
<1>1. n \in Nat /\ \A i \in 1 .. n : buffer[i] \in Nat \X Trades
  BY LenProperties, ElementOfSeq
<1>2. \A d \in V, t \in Trades : Fold(d, t) \in V
  BY DEF Fold
<1>3. next \in [V \X (1 .. n) -> V]
  BY <1>1, <1>2
<1>4. PICK f : Stepwise(f, V, c, n, next)
  <2> HIDE DEF V, n, next, Def
  <2>1. c \in V
    BY DEF V
  <2>2. n \in Nat
    BY <1>1
  <2>3. QED BY ONLY <1>3, <2>1, <2>2, StepwiseFunction
<1>5. ASSUME NEW i \in 1 .. n
      PROVE  f[i] = IF i \in places THEN Fold(f[i - 1], buffer[i][2]) ELSE f[i - 1]
  <2> HIDE DEF V, n, next, Def
  <2>1. /\ f \in [0 .. n -> V]
        /\ f[i] = next[<<f[i - 1], i>>]
    BY <1>4 DEF Stepwise
  <2>2. i - 1 \in 0 .. n
    BY <1>1
  <2>3. f[i - 1] \in V
    BY <2>1, <2>2
  <2>4. QED BY <2>1, <2>3 DEF next
<1>6. f = Def(f)
  BY <1>1, <1>4, <1>5 DEF Stepwise
<1>7. (CHOOSE g : g = Def(g)) = Def(CHOOSE g : g = Def(g))
  <2> HIDE DEF Def
  <2> QED BY <1>6
<1>8. PICK g : g = Def(g) /\ ReplayedOnto(c, places) = g[n]
  BY <1>7 DEF ReplayedOnto
<1>9. \A i \in 0 .. n : g[i] \in V
  <2> DEFINE S == {i \in Nat : i <= n => g[i] \in V}
  <2>1. 0 \in S
    BY <1>1, <1>8
  <2>2. ASSUME NEW i \in Nat, i \in S PROVE i + 1 \in S
    <3> SUFFICES ASSUME i + 1 <= n PROVE g[i + 1] \in V
      OBVIOUS
    <3>1. /\ i + 1 \in 0 .. n /\ i + 1 # 0 /\ i + 1 \in 1 .. n /\ (i + 1) - 1 = i
          /\ g[i] \in V
      BY <1>1, <2>2
    <3>2. g[i + 1] = IF i + 1 \in places THEN Fold(g[i], buffer[i + 1][2]) ELSE g[i]
      BY <1>8, <3>1
    <3>3. QED BY <1>1, <1>2, <3>1, <3>2
  <2>3. Nat \subseteq S
    <3> HIDE DEF S
    <3> QED BY <2>1, <2>2, SetInduction
  <2>4. QED BY <1>1, <2>3
<1>10. g \in [0 .. n -> V]
  <2>1. g = [i \in 0 .. n |-> g[i]]
    BY <1>8
  <2>2. QED BY <1>9, <2>1
<1>11. ASSUME NEW i \in 1 .. n
       PROVE  g[i] = IF i \in places THEN Fold(g[i - 1], buffer[i][2]) ELSE g[i - 1]
  <2>1. i \in 0 .. n /\ i # 0
    BY <1>1
  <2>2. QED BY <1>8, <2>1
<1>12. g[0] = c
  BY <1>1, <1>8
<1>13. QED BY <1>8, <1>10, <1>11, <1>12 DEF Counted

(* Trade t has none of the places after i and up to k. *)
NotBetween(t, places, i, k) ==
  \A j \in 1 .. Len(buffer) : i < j /\ j <= k /\ j \in places => buffer[j][2] # t

(* A trade is only counted at the places it has, and never uncounted. *)
LEMMA CountsGrow ==
  ASSUME buffer \in Seq(Nat \X Trades), NEW c, NEW places, NEW f, Counted(c, places, f),
         NEW t \in Trades, NEW i \in 0 .. Len(buffer), NEW k \in i .. Len(buffer)
  PROVE  /\ f[i][t] <= f[k][t] /\ f[i][t] \in Nat /\ f[k][t] \in Nat
         /\ NotBetween(t, places, i, k) => f[k][t] = f[i][t]
<1> DEFINE n == Len(buffer)
           Grown(m) == /\ f[i][t] <= f[m][t]
                       /\ NotBetween(t, places, i, m) => f[m][t] = f[i][t]
           S == {m \in Nat : i <= m /\ m <= n => Grown(m)}
<1>1. n \in Nat /\ \A j \in 1 .. n : buffer[j][2] \in Trades
  BY LenProperties, ElementOfSeq
<1>2. \A m \in 0 .. n : f[m] \in [Trades -> Nat]
  BY DEF Counted
<1>3. ASSUME NEW m \in 1 .. n
      PROVE  /\ f[m - 1][t] <= f[m][t]
             /\ f[m][t] = f[m - 1][t] \/ (m \in places /\ buffer[m][2] = t)
  <2>1. m - 1 \in 0 .. n /\ m \in 0 .. n
    BY <1>1
  <2>2. f[m - 1] \in [Trades -> Nat] /\ f[m - 1][t] \in Nat
    BY <1>2, <2>1
  <2>3. f[m] = IF m \in places THEN Fold(f[m - 1], buffer[m][2]) ELSE f[m - 1]
    BY DEF Counted
  <2>4. CASE f[m] = f[m - 1]
    BY <2>2, <2>4
  <2>5. CASE f[m] # f[m - 1]
    <3>1. m \in places /\ f[m] = [f[m - 1] EXCEPT ![buffer[m][2]] = @ + 1]
      BY <2>3, <2>5 DEF Fold
    <3>2. PICK u \in Trades : u = buffer[m][2]
      BY <1>1
    <3>3. f[m] = [f[m - 1] EXCEPT ![u] = @ + 1]
      BY <3>1, <3>2
    <3>4. IF u = t THEN f[m][t] = f[m - 1][t] + 1 ELSE f[m][t] = f[m - 1][t]
      BY <2>2, <3>3
    <3>5. QED BY <2>2, <3>1, <3>2, <3>4
  <2>6. QED BY <2>4, <2>5
<1>4. 0 \in S
  <2>1. i = 0 => Grown(0)
    BY <1>1, <1>2
  <2>2. QED BY <2>1
<1>5. ASSUME NEW m \in Nat, m \in S PROVE m + 1 \in S
  <2> SUFFICES ASSUME i <= m + 1, m + 1 <= n PROVE Grown(m + 1)
    OBVIOUS
  <2>1. CASE i = m + 1
    <3>1. f[i][t] \in Nat
      BY <1>2
    <3>2. QED BY <2>1, <3>1
  <2>2. CASE i <= m
    <3>1. Grown(m) /\ m + 1 \in 1 .. n /\ (m + 1) - 1 = m
      BY <1>1, <1>5, <2>2
    <3>2. f[m][t] <= f[m + 1][t]
          /\ (f[m + 1][t] = f[m][t] \/ (m + 1 \in places /\ buffer[m + 1][2] = t))
      BY <1>3, <3>1
    <3>3. f[i][t] \in Nat /\ f[m][t] \in Nat /\ f[m + 1][t] \in Nat
      <4>1. i \in 0 .. n /\ m \in 0 .. n /\ m + 1 \in 0 .. n
        BY <1>1, <3>1
      <4>2. QED BY <1>2, <4>1
    <3>4. f[i][t] <= f[m + 1][t]
      <4>1. f[i][t] <= f[m][t] /\ f[m][t] <= f[m + 1][t]
        BY <3>1, <3>2
      <4>2. QED BY ONLY <3>3, <4>1
    <3>5. NotBetween(t, places, i, m + 1) =>
            NotBetween(t, places, i, m) /\ ~(m + 1 \in places /\ buffer[m + 1][2] = t)
      BY <1>1, <2>2, <3>1 DEF NotBetween
    <3>6. QED BY <3>1, <3>2, <3>4, <3>5
  <2>3. QED BY <2>1, <2>2
<1>6. k \in S
  <2>1. k \in Nat
    BY <1>1
  <2> HIDE DEF S
  <2>2. QED BY <1>4, <1>5, <2>1, SetInduction
<1>7. QED BY <1>1, <1>2, <1>6

(* What a replay leaves of the counts it starts from.                      *)
LEMMA ReplayKeeps ==
  ASSUME buffer \in Seq(Nat \X Trades), NEW c \in [Trades -> Nat], NEW places
  PROVE  /\ ReplayedOnto(c, places) \in [Trades -> Nat]
         /\ \A t \in Trades :
              /\ c[t] <= ReplayedOnto(c, places)[t]
              /\ (\A i \in 1 .. Len(buffer) : i \in places => buffer[i][2] # t)
                   => ReplayedOnto(c, places)[t] = c[t]
<1>1. Len(buffer) \in Nat
  BY LenProperties
<1>2. PICK f : Counted(c, places, f) /\ ReplayedOnto(c, places) = f[Len(buffer)]
  BY ReplayUnfolds
<1>3. f[0] = c /\ f[Len(buffer)] \in [Trades -> Nat]
  BY <1>1, <1>2 DEF Counted
<1>4. ASSUME NEW t \in Trades
      PROVE  /\ c[t] <= f[Len(buffer)][t]
             /\ (\A i \in 1 .. Len(buffer) : i \in places => buffer[i][2] # t)
                  => f[Len(buffer)][t] = c[t]
  <2>1. 0 \in 0 .. Len(buffer) /\ Len(buffer) \in 0 .. Len(buffer)
    BY <1>1
  <2>2. /\ f[0][t] <= f[Len(buffer)][t]
        /\ NotBetween(t, places, 0, Len(buffer)) => f[Len(buffer)][t] = f[0][t]
    BY <1>2, <2>1, CountsGrow
  <2>3. QED BY <1>3, <2>2 DEF NotBetween
<1>5. QED BY <1>2, <1>3, <1>4

(* A trade of the buffer is counted, unless candles that are newer than it *)
(* were there before the replay: no trade of a later minute is before it.  *)
LEMMA ReplayCounts ==
  ASSUME buffer \in Seq(Nat \X Trades), NEW c \in [Trades -> Nat], NEW places,
         NEW i \in 1 .. Len(buffer), i \in places, NEW t \in Trades, buffer[i][2] = t,
         \A j \in 1 .. Len(buffer) : j <= i => MinuteOf[buffer[j][2]] <= MinuteOf[t],
         \A u \in Trades : c[u] > 0 /\ t < u => c[t] > 0
  PROVE  ReplayedOnto(c, places)[t] > 0
<1>1. Len(buffer) \in Nat
  BY LenProperties
<1>2. PICK f : Counted(c, places, f) /\ ReplayedOnto(c, places) = f[Len(buffer)]
  BY ReplayUnfolds
<1>3. /\ i - 1 \in 0 .. Len(buffer) /\ i \in 0 .. Len(buffer)
      /\ Len(buffer) \in i .. Len(buffer) /\ 0 \in 0 .. Len(buffer) /\ i - 1 < i
  BY <1>1
<1>4. f[0] = c /\ f[i] = Fold(f[i - 1], t) /\ f[i - 1] \in [Trades -> Nat]
  BY <1>2, <1>3 DEF Counted
<1>5. /\ f[i][t] <= f[Len(buffer)][t] /\ f[i][t] \in Nat /\ f[Len(buffer)][t] \in Nat
      /\ f[0][t] <= f[i][t] /\ c[t] \in Nat
  BY <1>2, <1>3, CountsGrow
<1>6. CASE Late(f[i - 1], t)
  <2>1. PICK u \in Trades : f[i - 1][u] > 0 /\ MinuteOf[u] > MinuteOf[t]
    BY <1>6 DEF Late
  <2>2. t < u
    BY <2>1, MarketFeedAssumption DEF MarketFeedAssumption, Trades
  <2>3. NotBetween(u, places, 0, i - 1)
    <3> SUFFICES ASSUME NEW j \in 1 .. Len(buffer), j <= i - 1, buffer[j][2] = u PROVE FALSE
      BY DEF NotBetween
    <3>1. j <= i
      BY <1>1
    <3>2. MinuteOf[u] <= MinuteOf[t]
      BY <3>1
    <3>3. QED BY <2>1, <3>2, MarketFeedAssumption DEF MarketFeedAssumption
  <2>4. f[i - 1][u] = f[0][u]
    BY <1>2, <1>3, <2>3, CountsGrow
  <2>5. c[t] > 0
    BY <1>4, <2>1, <2>2, <2>4
  <2>6. f[0][t] = c[t]
    BY <1>4
  <2>7. f[Len(buffer)][t] > 0
    BY ONLY <1>5, <2>5, <2>6
  <2>8. QED BY <1>2, <2>7
<1>7. CASE ~Late(f[i - 1], t)
  <2>1. f[i][t] > 0
    BY <1>4, <1>7 DEF Fold
  <2>2. QED BY <1>2, <1>5, <2>1
<1>8. QED BY <1>6, <1>7

-----------------------------------------------------------------------------
(* The values of the variables that hold data, and of the tasks.           *)
Request == [symbol : Symbols \cup {None}, start : Nat, live : BOOLEAN,
            quote : {0, None} \cup Trades, candles : {None} \cup (0 .. NumTrades)]

Plain ==
  /\ symbol \in Symbols
  /\ feedSymbol \in Symbols \cup {None}
  /\ pc \in [Workers -> {"idle", "cancelling", "want", "rest"}]
  /\ target \in Symbols \cup {None}
  /\ req \in [Workers -> Request]
  /\ streamLive \in BOOLEAN
  /\ snap \in Symbols \cup {None}
  /\ count \in [Trades -> Nat]
  /\ price \in {0} \cup Trades /\ tick \in {0, None} \cup Trades
  /\ executed \in 0 .. NumTrades /\ clock \in 0 .. NumTrades /\ clock <= executed
  /\ revision \in Nat /\ syncStart \in Nat
  /\ buffer \in Seq(Nat \X Trades)
  /\ lastRev \in [Trades -> Nat]

(* refresh_lock has one owner; a symbol switch during its request leaves   *)
(* the switch waiting for the lock, so there is at most one.               *)
OneGeneration ==
  /\ \A v, w \in Workers : pc[v] = "rest" /\ pc[w] = "rest" => v = w
  /\ pc["switch"] # "idle" => target \in Symbols
  /\ pc["switch"] = "cancelling" => target # symbol
  /\ \A w \in Workers :
       pc[w] = "rest" /\ req[w].symbol # symbol => pc["switch"] = "want"

(* The buffer holds the last revisions, one after the other.               *)
BufferIsTheTail ==
  /\ Len(buffer) <= MaxBuffer /\ Len(buffer) <= revision
  /\ Len(buffer) < MaxBuffer => Len(buffer) = revision
  /\ \A i \in 1 .. Len(buffer) : buffer[i][1] = revision - Len(buffer) + i

(* The trades of the buffer are in the order of their candles. *)
BufferIsInOrder ==
  \A i, j \in 1 .. Len(buffer) : i <= j => MinuteOf[buffer[i][2]] <= MinuteOf[buffer[j][2]]

(* lastRev is where a trade is last in the buffer. *)
LastRevIsInBuffer ==
  /\ \A i \in 1 .. Len(buffer) : buffer[i][1] <= lastRev[buffer[i][2]]
  /\ \A t \in Trades :
       /\ lastRev[t] <= revision
       /\ revision - Len(buffer) < lastRev[t] =>
            \E i \in 1 .. Len(buffer) : buffer[i] = <<lastRev[t], t>>

(* What is recorded and shown has been executed, for the active symbol.    *)
Executed ==
  /\ \A t \in Trades : lastRev[t] # 0 => SymbolOf[t] = symbol /\ t <= executed
  /\ price # 0 => SymbolOf[price] = symbol /\ price <= executed

(* What is recorded before a refresh begins is in its reply.               *)
Known(w, answer) == \A t \in Trades : lastRev[t] # 0 /\ lastRev[t] <= req[w].start => t <= answer

(* The reply of a refresh of the active symbol knows what was recorded when *)
(* it began, and quotes a trade of the symbol.                             *)
ReplyCoversTheStart ==
  \A w \in Workers : pc[w] = "rest" /\ req[w].symbol = symbol =>
    /\ req[w].start <= revision
    /\ req[w].candles # None =>
         Known(w, req[w].candles) /\ (w # "resync" => req[w].quote # None)
    /\ req[w].quote # None =>
         /\ Known(w, req[w].quote)
         /\ req[w].quote # 0 => SymbolOf[req[w].quote] = symbol /\ req[w].quote <= executed

(* Either nothing was recorded since and the reply has the shown price or  *)
(* a newer one, or the shown price is the last of the buffer.              *)
PriceIsKnown ==
  snap # None /\ ~candleDegraded =>
    \A w \in Workers : pc[w] = "rest" /\ req[w].symbol = symbol =>
      /\ revision = req[w].start /\ req[w].quote # None => price <= req[w].quote
      /\ revision # req[w].start => buffer[Len(buffer)][2] = price

(* The inductive invariant of the feed and its refreshes. *)
FeedInv ==
  /\ Plain /\ OneGeneration /\ BufferIsTheTail /\ BufferIsInOrder /\ LastRevIsInBuffer
  /\ Executed /\ ReplyCoversTheStart /\ PriceIsKnown
  /\ syncStart <= revision /\ CandlesAreExact

(* A trade, or 0 for no trade, is a number and so is not None. *)
LEMMA NumbersAreNotNone ==
  ASSUME NEW q \in {0} \cup Trades
  PROVE  q \in Nat /\ q # None
<1>1. q \in Nat
  BY MarketFeedAssumption DEF MarketFeedAssumption, Trades
<1>2. None \notin Nat
  BY MarketFeedAssumption DEF MarketFeedAssumption
<1>3. QED BY <1>1, <1>2

(* The time of a trade is never taken for a later one. *)
LEMMA TickIsNoLater ==
  ASSUME Plain, NEW t \in {0} \cup Trades
  PROVE  /\ TickOf(t) \in {0, None} \cup Trades
         /\ TickOf(t) # None => TickOf(t) \in Nat /\ TickOf(t) <= t
<1>1. t \in 0 .. NumTrades /\ clock \in 0 .. NumTrades /\ NumTrades \in Nat /\ Skew \in Nat
  BY MarketFeedAssumption DEF MarketFeedAssumption, Plain, Trades
<1>2. CASE t <= clock
  BY <1>1, <1>2 DEF TickOf
<1>3. CASE ~(t <= clock) /\ t <= clock + Skew
  <2>1. TickOf(t) = clock + 1 /\ clock + 1 \in Trades /\ clock + 1 <= t
    BY <1>1, <1>3 DEF TickOf, Trades
  <2>2. QED BY <1>1, <2>1
<1>4. CASE ~(t <= clock) /\ ~(t <= clock + Skew)
  BY <1>4 DEF TickOf
<1>5. QED BY <1>2, <1>3, <1>4

-----------------------------------------------------------------------------
(* r is b with one more entry at its end, and without its oldest one if it *)
(* was full.                                                               *)
Shifted(b, r) ==
  \E d \in {0, 1} :
    /\ Len(r) = Len(b) + 1 - d
    /\ d = 1 <=> Len(b) = MaxBuffer
    /\ \A i \in 1 .. Len(r) - 1 : r[i] = b[i + d]

(* A new entry shifts the buffer. *)
LEMMA BufferShifts ==
  ASSUME NEW b \in Seq(Nat \X Trades), Len(b) <= MaxBuffer, NEW e \in Nat \X Trades,
         NEW r, r = Buffered(b, e)
  PROVE  /\ r \in Seq(Nat \X Trades) /\ Len(r) \in Nat /\ Len(b) \in Nat
         /\ r[Len(r)] = e
         /\ Shifted(b, r)
<1>1. Len(b) \in Nat /\ MaxBuffer \in Nat \ {0}
  BY LenProperties, MarketFeedAssumption DEF MarketFeedAssumption
<1>2. CASE Len(b) < MaxBuffer
  <2>1. r = Append(b, e)
    BY <1>2 DEF Buffered
  <2>2. /\ r \in Seq(Nat \X Trades) /\ Len(r) = Len(b) + 1
        /\ \A i \in 1 .. Len(b) : r[i] = b[i]
        /\ r[Len(b) + 1] = e
    BY <2>1, AppendProperties
  <2>3. Len(r) = Len(b) + 1 - 0 /\ \A i \in 1 .. Len(r) - 1 : r[i] = b[i + 0]
    BY <1>1, <2>2
  <2>4. QED BY <1>1, <1>2, <2>2, <2>3 DEF Shifted
<1>3. CASE ~(Len(b) < MaxBuffer)
  <2>1. r = Append(Tail(b), e) /\ Len(b) = MaxBuffer /\ b # << >>
    BY <1>1, <1>3, EmptySeq DEF Buffered
  <2>2. /\ Tail(b) \in Seq(Nat \X Trades) /\ Len(Tail(b)) = Len(b) - 1
        /\ \A i \in 1 .. Len(Tail(b)) : Tail(b)[i] = b[i + 1]
    BY <1>1, <2>1, HeadTailProperties
  <2>3. /\ r \in Seq(Nat \X Trades) /\ Len(r) = Len(Tail(b)) + 1
        /\ \A i \in 1 .. Len(Tail(b)) : r[i] = Tail(b)[i]
        /\ r[Len(Tail(b)) + 1] = e
    BY <2>1, <2>2, AppendProperties
  <2>4. Len(r) = Len(b) + 1 - 1 /\ \A i \in 1 .. Len(r) - 1 : r[i] = b[i + 1]
    BY <1>1, <2>1, <2>2, <2>3
  <2>5. QED BY <1>1, <2>1, <2>2, <2>3, <2>4 DEF Shifted
<1>4. QED BY <1>2, <1>3

(* A trade that is recorded, and everything it leaves alone. *)
Recorded(t) == TradeArrives(t) /\ snap # None

(* Everything a recorded trade changes, and what it leaves alone. *)
LEMMA RecordedTrade ==
  ASSUME Plain, BufferIsTheTail, NEW t \in Trades, Recorded(t)
  PROVE  /\ Fresh(t) /\ ~Late(count, t) /\ t <= executed /\ SymbolOf[t] = symbol
         /\ revision' = revision + 1 /\ tick' = TickOf(t) /\ price' = t
         /\ lastRev' = [lastRev EXCEPT ![t] = revision + 1]
         /\ count' = [count EXCEPT ![t] = @ + 1]
         /\ UNCHANGED <<taskVars, symbol, snap, streamLive, candleDegraded, executed, clock,
                        syncStart>>
         /\ buffer' \in Seq(Nat \X Trades)
         /\ Len(buffer') \in Nat /\ Len(buffer) \in Nat
         /\ buffer'[Len(buffer')] = <<revision + 1, t>>
         /\ Shifted(buffer, buffer')
<1>1. /\ Fresh(t) /\ ~Late(count, t) /\ t <= executed /\ SymbolOf[t] = symbol
      /\ revision' = revision + 1 /\ tick' = TickOf(t) /\ price' = t
      /\ lastRev' = [lastRev EXCEPT ![t] = revision + 1]
      /\ count' = [count EXCEPT ![t] = @ + 1]
      /\ UNCHANGED <<taskVars, symbol, snap, streamLive, candleDegraded, executed, clock,
                     syncStart>>
      /\ buffer' = Buffered(buffer, <<revision + 1, t>>)
  BY DEF Recorded, TradeArrives, Record, Fold, FeedListens, marketVars
<1>2. <<revision + 1, t>> \in Nat \X Trades /\ buffer \in Seq(Nat \X Trades)
      /\ Len(buffer) <= MaxBuffer
  BY DEF Plain, BufferIsTheTail
<1>3. /\ buffer' \in Seq(Nat \X Trades) /\ Len(buffer') \in Nat /\ Len(buffer) \in Nat
      /\ buffer'[Len(buffer')] = <<revision + 1, t>>
      /\ Shifted(buffer, buffer')
  <2> DEFINE e == <<revision + 1, t>>
             r == buffer'
  <2>1. r = Buffered(buffer, e) /\ e \in Nat \X Trades
    BY <1>1, <1>2
  <2> HIDE DEF e, r
  <2>2. /\ r \in Seq(Nat \X Trades) /\ Len(r) \in Nat /\ Len(buffer) \in Nat
        /\ r[Len(r)] = e /\ Shifted(buffer, r)
    BY <1>2, <2>1, BufferShifts
  <2>3. QED BY <2>2 DEF e, r
<1>4. QED BY <1>1, <1>3

(* The steps by what they do to the data: most leave it alone, a trade     *)
(* that is not recorded moves the clock and the price at most.             *)
DataKept ==
  /\ UNCHANGED <<symbol, snap, count, revision, buffer, lastRev, syncStart>>
  /\ candleDegraded => candleDegraded'
  /\ \/ UNCHANGED marketVars
     \/ executed' = executed + 1 /\ executed' \in Trades /\ clock' = clock
     \/ clock < executed /\ clock' = clock + 1 /\ executed' = executed
  /\ \/ UNCHANGED <<price, tick>>
     \/ \E t \in Trades :
          /\ Fresh(t) /\ t <= executed /\ SymbolOf[t] = symbol
          /\ UNCHANGED <<pc, req>>
          /\ tick' = TickOf(t)
          /\ price' = price \/ (price' = t /\ (snap = None \/ candleDegraded'))

(* There are five kinds of them. *)
LEMMA StepsOnData ==
  ASSUME [Next]_vars
  PROVE  \/ DataKept
         \/ \E t \in Trades : Recorded(t)
         \/ \E w \in Workers : SnapshotApplied(w)
         \/ CandlesApplied
         \/ SwitchSymbol
<1>1. CASE FeedEvent
  <2>1. ASSUME NEW t \in Trades, TradeArrives(t) PROVE Recorded(t) \/ DataKept
    BY <2>1 DEF Recorded, TradeArrives, DataKept, FeedListens, taskVars
  <2>2. ASSUME NEW t \in Trades, OldTradeArrives(t) PROVE DataKept
    BY <2>2 DEF OldTradeArrives, DataKept, FeedListens, taskVars, historyVars
  <2>3. ASSUME NEW t \in Trades, TradeNotFolded(t) PROVE DataKept
    BY <2>3 DEF TradeNotFolded, DataKept, FeedListens, taskVars, historyVars
  <2>4. CASE StreamConnects \/ Subscribed \/ StreamError \/ ProtocolError \/ BookArrives
    BY <2>4 DEF StreamConnects, Subscribed, StreamError, ProtocolError, BookArrives, DataKept,
       dataVars, historyVars, Recover
  <2>5. QED BY <1>1, <2>1, <2>2, <2>3, <2>4 DEF FeedEvent
<1>2. CASE \E w \in Workers : Begin(w)
  BY <1>2 DEF Begin, DataKept, dataVars, stateVars, historyVars
<1>3. ASSUME NEW w \in Workers, Refresh(w)
      PROVE  DataKept \/ SnapshotApplied(w) \/ CandlesApplied
  BY <1>3 DEF Refresh, ReadQuote, ReadCandles, ReplyDiscarded, RefreshFails, SetCandleDegraded,
     DataKept, dataVars, stateVars, historyVars
<1>4. CASE ChartModeChosen \/ Execute \/ TimePasses \/ \E s \in Symbols : SwitchRequested(s)
  BY <1>4 DEF ChartModeChosen, Execute, TimePasses, SwitchRequested, DataKept, marketVars,
     dataVars, stateVars, historyVars
<1>5. CASE UNCHANGED vars
  BY <1>5 DEF DataKept, vars, dataVars, stateVars, historyVars
<1>6. QED BY <1>1, <1>2, <1>3, <1>4, <1>5 DEF Next

-----------------------------------------------------------------------------
(* What a refresh has noted stays with it while it is at its request.      *)
LEMMA RestSteps ==
  ASSUME Plain, OneGeneration, [Next]_vars, NEW w \in Workers, pc'[w] = "rest"
  PROVE  \/ Begin(w) \/ ReadQuote(w) \/ ReadCandles(w)
         \/ /\ pc[w] = "rest" /\ req'[w] = req[w]
            /\ \A v \in Workers : ~SnapshotApplied(v)
            /\ ~CandlesApplied
<1> DEFINE Goal == \/ Begin(w) \/ ReadQuote(w) \/ ReadCandles(w)
                   \/ pc[w] = "rest" /\ req'[w] = req[w]
<1>0. /\ pc \in [Workers -> {"idle", "cancelling", "want", "rest"}]
      /\ req \in [Workers -> Request]
      /\ \A v \in Workers : pc[v] = "rest" /\ pc[w] = "rest" => v = w
  BY DEF Plain, OneGeneration
<1>1. ASSUME NEW v \in Workers, SnapshotApplied(v) \/ CandlesApplied PROVE FALSE
  <2>1. PICK u \in Workers : pc[u] = "rest" /\ pc' = [pc EXCEPT ![u] = "idle"]
    BY <1>1 DEF SnapshotApplied, CandlesApplied, LeaveRefresh, Workers
  <2>2. QED BY <1>0, <2>1
<1>2. Goal
  <2>1. ASSUME NEW v \in Workers, Begin(v) PROVE Goal
    BY <1>0, <2>1 DEF Begin, LockFree
  <2>2. ASSUME NEW v \in Workers, ReadQuote(v) \/ ReadCandles(v) PROVE Goal
    BY <1>0, <2>2 DEF ReadQuote, ReadCandles
  <2>3. ASSUME NEW v \in Workers, ReplyDiscarded(v) \/ RefreshFails(v) PROVE Goal
    BY <1>0, <2>3 DEF ReplyDiscarded, RefreshFails, LeaveRefresh
  <2>4. CASE SwitchSymbol
    BY <1>0, <2>4 DEF SwitchSymbol
  <2>5. ASSUME NEW s \in Symbols, SwitchRequested(s) PROVE Goal
    <3>1. w # "feed" /\ w # "switch"
      BY <1>0, <2>5 DEF SwitchRequested, FeedAfterCancel
    <3>2. QED BY <1>0, <2>5, <3>1 DEF SwitchRequested
  <2>6. CASE FeedEvent
    BY <1>0, <2>6 DEF FeedEvent, StreamConnects, Subscribed, StreamError, ProtocolError,
       BookArrives, TradeArrives, OldTradeArrives, TradeNotFolded, taskVars
  <2>7. CASE ChartModeChosen \/ Execute \/ TimePasses \/ UNCHANGED vars
    BY <2>7 DEF ChartModeChosen, Execute, TimePasses, taskVars, vars
  <2>8. QED BY <1>1, <2>1, <2>2, <2>3, <2>4, <2>5, <2>6, <2>7 DEF Next, Refresh
<1>3. QED BY <1>1, <1>2

(* A replay is empty when nothing was recorded since the refresh began;    *)
(* otherwise it ends with the last entry of the buffer.                    *)
LEMMA ReplayEnds ==
  ASSUME Plain, BufferIsTheTail, NEW w \in Workers, req[w].start <= revision
  PROVE  /\ Len(buffer) \in Nat
         /\ revision = req[w].start => Replay(w) = {}
         /\ revision # req[w].start =>
              /\ Replay(w) # {} /\ Len(buffer) \in 1 .. Len(buffer)
              /\ Max(Replay(w)) = Len(buffer)
<1>1. /\ Len(buffer) \in Nat /\ revision \in Nat /\ MaxBuffer \in Nat \ {0}
      /\ req[w].start \in Nat
  BY LenProperties, MarketFeedAssumption DEF MarketFeedAssumption, Plain, Request
<1>2. CASE revision = req[w].start
  BY <1>1, <1>2 DEF Replay, BufferIsTheTail
<1>3. CASE revision # req[w].start
  <2>1. Len(buffer) \in 1 .. Len(buffer) /\ buffer[Len(buffer)][1] = revision
    BY <1>1, <1>3 DEF BufferIsTheTail
  <2>2. Len(buffer) \in Replay(w) /\ \A i \in Replay(w) : i \in 1 .. Len(buffer)
    BY <1>1, <1>3, <2>1 DEF Replay
  <2>3. \A i \in Replay(w) : (\A j \in Replay(w) : i >= j) <=> i = Len(buffer)
    BY <1>1, <2>2
  <2>4. Max(Replay(w)) = Len(buffer)
    BY <2>2, <2>3 DEF Max
  <2>5. QED BY <1>1, <1>3, <2>1, <2>2, <2>4
<1>4. QED BY <1>2, <1>3

(* The reply of a refresh when it is applied: of the active symbol, with   *)
(* what had been recorded when the refresh began.                          *)
LEMMA AppliedReply ==
  ASSUME Plain, BufferIsTheTail, ReplyCoversTheStart, NEW w \in Workers, SnapshotApplied(w)
  PROVE  /\ pc[w] = "rest" /\ req[w].symbol = symbol
         /\ req[w].start \in Nat /\ req[w].start <= revision
         /\ req[w].candles \in 0 .. NumTrades /\ req[w].quote \in {0} \cup Trades
         /\ Known(w, req[w].candles) /\ Known(w, req[w].quote)
         /\ req[w].quote # 0 => SymbolOf[req[w].quote] = symbol /\ req[w].quote <= executed
         /\ tick' \in {TickOf(price'), None}
         /\ revision = req[w].start => price' = req[w].quote
         /\ revision # req[w].start =>
              Len(buffer) \in 1 .. Len(buffer) /\ price' = buffer[Len(buffer)][2]
<1>1. /\ pc[w] = "rest" /\ req[w].symbol = symbol /\ req[w].candles # None /\ w # "resync"
      /\ price' = IF Replay(w) = {} THEN req[w].quote ELSE buffer[Max(Replay(w))][2]
      /\ tick' \in {TickOf(price'), None}
  BY DEF SnapshotApplied, StillWanted
<1>2. /\ req[w].start \in Nat /\ req[w].candles \in {None} \cup (0 .. NumTrades)
      /\ req[w].quote \in {0, None} \cup Trades
  BY DEF Plain, Request
<1>3. /\ req[w].start <= revision /\ req[w].quote # None
      /\ Known(w, req[w].candles) /\ Known(w, req[w].quote)
      /\ req[w].quote # 0 => SymbolOf[req[w].quote] = symbol /\ req[w].quote <= executed
  BY <1>1 DEF ReplyCoversTheStart
<1>4. QED BY <1>1, <1>2, <1>3, ReplayEnds

(* refresh_lock has one owner, and a switch waits for it. *)
LEMMA GenerationStep ==
  ASSUME Plain, OneGeneration, [Next]_vars
  PROVE  OneGeneration'
<1> USE DEF OneGeneration
<1>0. /\ pc \in [Workers -> {"idle", "cancelling", "want", "rest"}]
      /\ req \in [Workers -> Request] /\ "switch" \in Workers /\ "feed" \in Workers
  BY DEF Plain, Workers
<1>1. ASSUME NEW v \in Workers, Begin(v) PROVE OneGeneration'
  BY <1>0, <1>1 DEF Begin, Asks, LockFree, NoRequest, dataVars
<1>2. ASSUME NEW v \in Workers, ReadQuote(v) \/ ReadCandles(v) PROVE OneGeneration'
  <2>1. /\ UNCHANGED <<pc, symbol, target>>
        /\ \A w \in Workers : req'[w].symbol = req[w].symbol
    BY <1>0, <1>2 DEF ReadQuote, ReadCandles, dataVars, Request
  <2>2. QED BY <2>1
<1>3. ASSUME NEW v \in Workers, LeaveRefresh(v), symbol' = symbol, pc[v] = "rest"
      PROVE  OneGeneration'
  BY <1>0, <1>3 DEF LeaveRefresh
<1>4. CASE SwitchSymbol
  BY <1>0, <1>4 DEF SwitchSymbol
<1>5. ASSUME NEW s \in Symbols, SwitchRequested(s) PROVE OneGeneration'
  BY <1>0, <1>5 DEF SwitchRequested, FeedAfterCancel, dataVars
<1>6. CASE Subscribed
  BY <1>0, <1>6 DEF Subscribed, dataVars, FeedListens
<1>7. CASE UNCHANGED <<pc, target, symbol>> /\ UNCHANGED req
  BY <1>7
<1>8. \/ \E v \in Workers : Begin(v) \/ ReadQuote(v) \/ ReadCandles(v)
      \/ \E v \in Workers : LeaveRefresh(v) /\ symbol' = symbol /\ pc[v] = "rest"
      \/ SwitchSymbol \/ Subscribed
      \/ \E s \in Symbols : SwitchRequested(s)
      \/ UNCHANGED <<pc, target, symbol>> /\ UNCHANGED req
  BY DEF Next, Refresh, SnapshotApplied, CandlesApplied, ReplyDiscarded, RefreshFails, Workers,
     FeedEvent, StreamConnects, StreamError, ProtocolError, BookArrives, TradeArrives,
     OldTradeArrives, TradeNotFolded, ChartModeChosen, Execute, TimePasses, taskVars, dataVars,
     vars
<1>9. QED BY <1>1, <1>2, <1>3, <1>4, <1>5, <1>6, <1>7, <1>8

(* Every step leaves the variables in their sets. *)
LEMMA PlainStep ==
  ASSUME Plain, OneGeneration, BufferIsTheTail, ReplyCoversTheStart, [Next]_vars
  PROVE  Plain'
<1> DEFINE Tasks1 == /\ pc \in [Workers -> {"idle", "cancelling", "want", "rest"}]
                     /\ target \in Symbols \cup {None} /\ feedSymbol \in Symbols \cup {None}
           Asked == req \in [Workers -> Request]
           Shows == /\ symbol \in Symbols /\ snap \in Symbols \cup {None}
                    /\ streamLive \in BOOLEAN
           Data == /\ count \in [Trades -> Nat]
                   /\ price \in {0} \cup Trades /\ tick \in {0, None} \cup Trades
                   /\ executed \in 0 .. NumTrades /\ clock \in 0 .. NumTrades
                   /\ clock <= executed
                   /\ revision \in Nat /\ syncStart \in Nat
                   /\ buffer \in Seq(Nat \X Trades)
                   /\ lastRev \in [Trades -> Nat]
<1>0. MarketFeedAssumption
  BY MarketFeedAssumption
<1>1. Tasks1 /\ Asked /\ Shows /\ Data
  BY DEF Plain
<1>2. Tasks1'
  BY <1>1 DEF Next, Begin, Refresh, ReadQuote, ReadCandles,
     SnapshotApplied, CandlesApplied, ReplyDiscarded, RefreshFails, LeaveRefresh, FeedEvent,
     StreamConnects, Subscribed, StreamError, ProtocolError, BookArrives, TradeArrives,
     OldTradeArrives, TradeNotFolded, ChartModeChosen, SwitchRequested, FeedAfterCancel,
     SwitchSymbol, Execute, TimePasses, Workers, vars, taskVars
<1>3. Asked'
  <2>1. NoRequest \in Request
    BY DEF NoRequest, Request
  <2>2. ASSUME NEW w \in Workers, Begin(w) PROVE Asked'
    <3>1. /\ symbol \in Symbols /\ revision \in Nat
          /\ (streamLive /\ w # "resync") \in BOOLEAN
      BY <1>1
    <3>2. [NoRequest EXCEPT !.symbol = symbol, !.start = revision,
                           !.live = streamLive /\ w # "resync"] \in Request
      BY <3>1 DEF NoRequest, Request
    <3>3. QED BY <1>1, <2>2, <3>2 DEF Begin
  <2>3. ASSUME NEW w \in Workers, ReadQuote(w) PROVE Asked'
    <3>1. RestPrice(req[w].symbol, executed) \in {0} \cup Trades
      BY <1>1, RestPriceIsNewest
    <3>2. [req[w] EXCEPT !.quote = RestPrice(req[w].symbol, executed)] \in Request
      BY <1>1, <3>1 DEF Request
    <3>3. QED BY <1>1, <2>3, <3>2 DEF ReadQuote
  <2>4. ASSUME NEW w \in Workers, ReadCandles(w) PROVE Asked'
    <3>1. [req[w] EXCEPT !.candles = executed] \in Request
      BY <1>1 DEF Request
    <3>2. QED BY <1>1, <2>4, <3>1 DEF ReadCandles
  <2>5. ASSUME NEW w \in Workers, req' = [req EXCEPT ![w] = NoRequest] PROVE Asked'
    BY <1>1, <2>1, <2>5
  <2>6. CASE req' = req
    BY <1>1, <2>6
  <2>7. \/ \E w \in Workers : Begin(w) \/ ReadQuote(w) \/ ReadCandles(w)
                              \/ req' = [req EXCEPT ![w] = NoRequest]
        \/ req' = req
    BY DEF Next, Refresh,
       SnapshotApplied, CandlesApplied, ReplyDiscarded, RefreshFails, LeaveRefresh, FeedEvent,
       StreamConnects, Subscribed, StreamError, ProtocolError, BookArrives, TradeArrives,
       OldTradeArrives, TradeNotFolded, ChartModeChosen, SwitchRequested,
       SwitchSymbol, Execute, TimePasses, Workers, vars, taskVars
  <2>8. QED BY <2>2, <2>3, <2>4, <2>5, <2>6, <2>7
<1>4. Shows'
  <2>1. CASE SwitchSymbol
    <3>1. target \in Symbols
      BY <2>1 DEF SwitchSymbol, OneGeneration
    <3>2. QED BY <2>1, <3>1 DEF SwitchSymbol, ClearScreen
  <2>2. ASSUME NEW w \in Workers, SnapshotApplied(w) PROVE Shows'
    BY <1>1, <2>2 DEF SnapshotApplied, StillWanted
  <2>3. CASE UNCHANGED <<symbol, snap>> /\ streamLive' \in {TRUE, FALSE, streamLive}
    BY <1>1, <2>3
  <2>4. \/ SwitchSymbol \/ \E w \in Workers : SnapshotApplied(w)
        \/ UNCHANGED <<symbol, snap>> /\ streamLive' \in {TRUE, FALSE, streamLive}
    BY DEF Next, Begin, Refresh, ReadQuote, ReadCandles,
     CandlesApplied, ReplyDiscarded, RefreshFails, FeedEvent,
     StreamConnects, Subscribed, StreamError, ProtocolError, BookArrives, TradeArrives,
     OldTradeArrives, TradeNotFolded, ChartModeChosen, SwitchRequested,
     Execute, TimePasses, vars, dataVars, stateVars
  <2>5. QED BY <2>1, <2>2, <2>3, <2>4
<1>5. Data'
  <2>1. CASE DataKept
    <3>1. executed' \in 0 .. NumTrades /\ clock' \in 0 .. NumTrades /\ clock' <= executed'
      <4>1. \/ executed' = executed /\ clock' = clock
            \/ executed' = executed + 1 /\ executed' \in Trades /\ clock' = clock
            \/ clock < executed /\ clock' = clock + 1 /\ executed' = executed
        BY <2>1 DEF DataKept, marketVars
      <4>2. NumTrades \in Nat /\ executed \in 0 .. NumTrades /\ clock \in 0 .. NumTrades
            /\ clock <= executed /\ Trades = 1 .. NumTrades
        BY <1>0, <1>1 DEF MarketFeedAssumption, Trades
      <4>3. QED BY ONLY <4>1, <4>2
    <3>2. price' \in {0} \cup Trades /\ tick' \in {0, None} \cup Trades
      <4>1. \A t \in Trades : TickOf(t) \in {0, None} \cup Trades
        BY TickIsNoLater
      <4>2. QED BY <1>1, <2>1, <4>1 DEF DataKept
    <3>3. UNCHANGED <<count, revision, syncStart, buffer, lastRev>>
      BY <2>1 DEF DataKept
    <3>4. QED BY <1>1, <3>1, <3>2, <3>3
  <2>2. ASSUME NEW t \in Trades, Recorded(t) PROVE Data'
    <3>1. /\ revision' = revision + 1 /\ tick' = TickOf(t) /\ price' = t
          /\ lastRev' = [lastRev EXCEPT ![t] = revision + 1]
          /\ count' = [count EXCEPT ![t] = @ + 1]
          /\ executed' = executed /\ clock' = clock /\ syncStart' = syncStart
          /\ buffer' \in Seq(Nat \X Trades)
      BY <2>2, RecordedTrade
    <3>5. tick' \in {0, None} \cup Trades
      BY <3>1, TickIsNoLater
    <3>2. count[t] + 1 \in Nat /\ revision + 1 \in Nat
      BY <1>1
    <3>3. lastRev' \in [Trades -> Nat] /\ count' \in [Trades -> Nat]
      BY <1>1, <3>1, <3>2
    <3>4. QED BY <1>1, <3>1, <3>2, <3>3, <3>5
  <2>3. ASSUME NEW w \in Workers, TakeCandles(w),
               UNCHANGED <<executed, clock, revision, buffer, lastRev>>,
               price' \in {0} \cup Trades, tick' \in {0, None} \cup Trades
        PROVE  Data'
    <3>1. RestCandles(req[w].symbol, req[w].candles) \in [Trades -> Nat]
      BY DEF RestCandles
    <3>2. count' \in [Trades -> Nat] /\ syncStart' \in Nat
      BY <1>1, <2>3, <3>1, ReplayKeeps DEF TakeCandles, Request
    <3>3. QED BY <1>1, <2>3, <3>2
  <2>4. ASSUME NEW w \in Workers, SnapshotApplied(w) PROVE Data'
    <3>1. price' \in {0} \cup Trades
      <4>1. \A i \in 1 .. Len(buffer) : buffer[i][2] \in Trades
        BY <1>1, ElementOfSeq
      <4>2. QED BY <2>4, <4>1, AppliedReply
    <3>2. tick' \in {0, None} \cup Trades
      BY <2>4, <3>1, AppliedReply, TickIsNoLater
    <3>3. QED BY <2>3, <2>4, <3>1, <3>2 DEF SnapshotApplied, marketVars
  <2>5. CASE CandlesApplied
    BY <1>1, <2>3, <2>5 DEF CandlesApplied, Workers, marketVars
  <2>6. CASE SwitchSymbol
    <3>1. << >> \in Seq(Nat \X Trades)
      BY EmptySeq
    <3>2. QED BY <1>1, <2>6, <3>1 DEF SwitchSymbol, ClearScreen, NoTrades, marketVars
  <2>7. QED BY <2>1, <2>2, <2>4, <2>5, <2>6, StepsOnData
<1>6. QED BY <1>2, <1>3, <1>4, <1>5 DEF Plain

(* Every step leaves the buffer the tail of what was recorded.             *)
LEMMA TailStep ==
  ASSUME Plain, BufferIsTheTail, [Next]_vars
  PROVE  BufferIsTheTail'
<1> USE DEF BufferIsTheTail
<1>0. Len(buffer) \in Nat /\ revision \in Nat /\ MaxBuffer \in Nat \ {0}
  BY LenProperties, MarketFeedAssumption DEF MarketFeedAssumption, Plain
<1>1. ASSUME NEW t \in Trades, Recorded(t) PROVE BufferIsTheTail'
  <2>1. /\ revision' = revision + 1
        /\ Len(buffer') \in Nat
        /\ buffer'[Len(buffer')] = <<revision + 1, t>>
    BY <1>1, RecordedTrade
  <2>2. PICK d \in {0, 1} :
              /\ Len(buffer') = Len(buffer) + 1 - d
              /\ d = 1 <=> Len(buffer) = MaxBuffer
              /\ \A i \in 1 .. Len(buffer') - 1 : buffer'[i] = buffer[i + d]
    BY <1>1, RecordedTrade DEF Shifted
  <2>3. /\ Len(buffer') <= MaxBuffer /\ Len(buffer') <= revision'
        /\ Len(buffer') < MaxBuffer => Len(buffer') = revision'
    BY <1>0, <2>1, <2>2
  <2>4. ASSUME NEW i \in 1 .. Len(buffer') PROVE buffer'[i][1] = revision' - Len(buffer') + i
    <3>1. CASE i = Len(buffer')
      BY <1>0, <2>1, <3>1
    <3>2. CASE i # Len(buffer')
      <4>1. i \in 1 .. Len(buffer') - 1 /\ i + d \in 1 .. Len(buffer)
        BY <1>0, <2>1, <2>2, <3>2
      <4>2. buffer'[i][1] = revision - Len(buffer) + (i + d)
        BY <2>2, <4>1
      <4>3. QED BY <1>0, <2>1, <2>2, <4>2
    <3>3. QED BY <3>1, <3>2
  <2>5. QED BY <2>3, <2>4
<1>2. CASE SwitchSymbol
  BY <1>0, <1>2 DEF SwitchSymbol, ClearScreen
<1>3. CASE UNCHANGED <<revision, buffer>>
  BY <1>3
<1>4. QED BY <1>1, <1>2, <1>3, StepsOnData DEF DataKept, SnapshotApplied, CandlesApplied

(* A trade of the buffer is in the candles. *)
LEMMA BufferedIsCounted ==
  ASSUME Plain, BufferIsTheTail, LastRevIsInBuffer, CandlesAreExact, NEW i \in 1 .. Len(buffer)
  PROVE  buffer[i][2] \in Trades /\ count[buffer[i][2]] > 0
<1>1. /\ Len(buffer) \in Nat /\ MaxBuffer \in Nat /\ revision \in Nat
      /\ buffer[i] \in Nat \X Trades
  BY LenProperties, ElementOfSeq, MarketFeedAssumption DEF MarketFeedAssumption, Plain
<1>2. PICK u \in Trades : u = buffer[i][2]
  BY <1>1
<1>3. /\ buffer[i][1] = revision - Len(buffer) + i /\ Len(buffer) <= MaxBuffer
      /\ Len(buffer) <= revision /\ buffer[i][1] <= lastRev[u]
      /\ lastRev[u] \in Nat /\ count[u] \in Nat
  BY <1>2 DEF Plain, BufferIsTheTail, LastRevIsInBuffer
<1>4. lastRev[u] # 0 /\ revision - lastRev[u] < MaxBuffer
  BY <1>1, <1>3
<1>5. count[u] >= 1
  BY <1>4 DEF CandlesAreExact
<1>6. QED BY <1>2, <1>3, <1>5

(* Every step keeps the trades of the buffer in the order of their candles:*)
(* one that is too late for the candles is not recorded.                   *)
LEMMA OrderStep ==
  ASSUME Plain, BufferIsTheTail, BufferIsInOrder, LastRevIsInBuffer, CandlesAreExact,
         [Next]_vars
  PROVE  BufferIsInOrder'
<1> USE DEF BufferIsInOrder
<1>0. Len(buffer) \in Nat /\ MinuteOf \in [Trades -> Nat]
  BY LenProperties, MarketFeedAssumption DEF MarketFeedAssumption, Plain
<1>1. ASSUME NEW t \in Trades, Recorded(t) PROVE BufferIsInOrder'
  <2>1. ~Late(count, t) /\ Len(buffer') \in Nat /\ buffer'[Len(buffer')] = <<revision + 1, t>>
    BY <1>1, RecordedTrade
  <2>2. PICK d \in {0, 1} :
              /\ Len(buffer') = Len(buffer) + 1 - d
              /\ d = 1 <=> Len(buffer) = MaxBuffer
              /\ \A i \in 1 .. Len(buffer') - 1 : buffer'[i] = buffer[i + d]
    BY <1>1, RecordedTrade DEF Shifted
  <2>3. ASSUME NEW i \in 1 .. Len(buffer') - 1
        PROVE  i + d \in 1 .. Len(buffer) /\ buffer'[i] = buffer[i + d]
    BY <1>0, <2>1, <2>2
  <2>4. ASSUME NEW i \in 1 .. Len(buffer') PROVE MinuteOf[buffer'[i][2]] <= MinuteOf[t]
    <3>1. CASE i = Len(buffer')
      <4>1. buffer'[i][2] = t /\ MinuteOf[t] \in Nat
        BY <1>0, <2>1, <3>1
      <4>2. QED BY <4>1
    <3>2. CASE i # Len(buffer')
      <4>1. i \in 1 .. Len(buffer') - 1
        BY <2>1, <3>2
      <4>2. i + d \in 1 .. Len(buffer) /\ buffer'[i] = buffer[i + d]
        BY <2>3, <4>1
      <4>3. PICK u \in Trades : u = buffer'[i][2] /\ count[u] > 0
        BY <4>2, BufferedIsCounted
      <4>4. ~(MinuteOf[u] > MinuteOf[t]) /\ MinuteOf[u] \in Nat /\ MinuteOf[t] \in Nat
        BY <1>0, <2>1, <4>3 DEF Late
      <4>5. QED BY <4>3, <4>4
    <3>3. QED BY <3>1, <3>2
  <2>5. ASSUME NEW i \in 1 .. Len(buffer'), NEW j \in 1 .. Len(buffer'), i <= j
        PROVE  MinuteOf[buffer'[i][2]] <= MinuteOf[buffer'[j][2]]
    <3>1. CASE j = Len(buffer')
      <4>1. buffer'[j][2] = t
        BY <2>1, <3>1
      <4>2. QED BY <2>4, <4>1
    <3>2. CASE j # Len(buffer')
      <4>1. i \in 1 .. Len(buffer') - 1 /\ j \in 1 .. Len(buffer') - 1
        BY <2>1, <2>5, <3>2
      <4> HIDE <2>2
      <4>2. i + d <= j + d
        BY <2>5
      <4>3. QED BY <2>3, <4>1, <4>2
    <3>3. QED BY <3>1, <3>2
  <2>6. QED BY <2>5
<1>2. CASE SwitchSymbol
  BY <1>2 DEF SwitchSymbol, ClearScreen
<1>3. CASE buffer' = buffer
  BY <1>3
<1>4. QED BY <1>1, <1>2, <1>3, StepsOnData DEF DataKept, SnapshotApplied, CandlesApplied

(* Every step keeps lastRev what the buffer says. *)
LEMMA LastRevStep ==
  ASSUME Plain, BufferIsTheTail, LastRevIsInBuffer, [Next]_vars
  PROVE  LastRevIsInBuffer'
<1> USE DEF LastRevIsInBuffer
<1>0. /\ Len(buffer) \in Nat /\ revision \in Nat /\ lastRev \in [Trades -> Nat]
      /\ \A i \in 1 .. Len(buffer) : buffer[i][2] \in Trades /\ buffer[i][1] \in Nat
  <2>1. buffer \in Seq(Nat \X Trades)
    BY DEF Plain
  <2>2. Len(buffer) \in Nat /\ \A i \in 1 .. Len(buffer) : buffer[i] \in Nat \X Trades
    BY <2>1, LenProperties, ElementOfSeq
  <2>3. \A i \in 1 .. Len(buffer) : buffer[i][2] \in Trades /\ buffer[i][1] \in Nat
    BY <2>2
  <2>4. QED BY <2>2, <2>3 DEF Plain
<1>1. ASSUME NEW t \in Trades, Recorded(t) PROVE LastRevIsInBuffer'
  <2>1. /\ revision' = revision + 1
        /\ Len(buffer') \in Nat
        /\ buffer'[Len(buffer')] = <<revision + 1, t>>
        /\ lastRev' = [lastRev EXCEPT ![t] = revision + 1]
    BY <1>1, RecordedTrade
  <2>2. PICK d \in {0, 1} :
              /\ Len(buffer') = Len(buffer) + 1 - d
              /\ d = 1 <=> Len(buffer) = MaxBuffer
              /\ \A i \in 1 .. Len(buffer') - 1 : buffer'[i] = buffer[i + d]
    BY <1>1, RecordedTrade DEF Shifted
  <2>3. /\ lastRev'[t] = revision + 1
        /\ \A u \in Trades : u # t => lastRev'[u] = lastRev[u]
    BY <1>0, <2>1
  <2>4. ASSUME NEW i \in 1 .. Len(buffer') PROVE buffer'[i][1] <= lastRev'[buffer'[i][2]]
    <3>1. CASE i = Len(buffer')
      BY <1>0, <2>1, <2>3, <3>1
    <3>2. CASE i # Len(buffer')
      <4>1. i \in 1 .. Len(buffer') - 1
        BY <2>1, <3>2
      <4>2. i + d \in 1 .. Len(buffer)
        BY <1>0, <2>2, <4>1
      <4>3. buffer'[i] = buffer[i + d]
        BY <2>2, <4>1
      <4>4. /\ buffer[i + d][1] <= lastRev[buffer[i + d][2]] /\ buffer[i + d][1] \in Nat
            /\ buffer[i + d][2] \in Trades
            /\ lastRev[buffer[i + d][2]] <= revision /\ lastRev[buffer[i + d][2]] \in Nat
        BY <1>0, <4>2
      <4>5. CASE buffer[i + d][2] = t
        BY <1>0, <2>3, <4>3, <4>4, <4>5
      <4>6. CASE buffer[i + d][2] # t
        BY <2>3, <4>3, <4>4, <4>6
      <4>7. QED BY <4>5, <4>6
    <3>3. QED BY <3>1, <3>2
  <2>5. ASSUME NEW u \in Trades
        PROVE  /\ lastRev'[u] <= revision'
               /\ revision' - Len(buffer') < lastRev'[u] =>
                    \E i \in 1 .. Len(buffer') : buffer'[i] = <<lastRev'[u], u>>
    <3>1. CASE u = t
      <4>1. Len(buffer') \in 1 .. Len(buffer')
        BY <1>0, <2>1, <2>2, MarketFeedAssumption DEF MarketFeedAssumption
      <4>2. QED BY <1>0, <2>1, <2>3, <3>1, <4>1
    <3>2. CASE u # t
      <4>1. lastRev'[u] = lastRev[u] /\ lastRev[u] \in Nat /\ lastRev[u] <= revision
        BY <1>0, <2>3, <3>2
      <4>2. ASSUME revision' - Len(buffer') < lastRev[u]
            PROVE  \E i \in 1 .. Len(buffer') : buffer'[i] = <<lastRev[u], u>>
        <5>1. revision - Len(buffer) + d < lastRev[u]
          BY <1>0, <2>1, <2>2, <4>2
        <5>2. PICK j \in 1 .. Len(buffer) : buffer[j] = <<lastRev[u], u>>
          <6>1. revision - Len(buffer) < lastRev[u]
            BY <1>0, <4>1, <5>1
          <6>2. QED BY <6>1
        <5>3. lastRev[u] = revision - Len(buffer) + j
          BY <5>2 DEF BufferIsTheTail
        <5>4. j - d \in 1 .. Len(buffer') - 1 /\ (j - d) + d = j
              /\ j - d \in 1 .. Len(buffer')
          BY <1>0, <2>1, <2>2, <4>1, <5>1, <5>3
        <5>5. buffer'[j - d] = buffer[j]
          BY <2>2, <5>4
        <5>6. QED BY <5>2, <5>4, <5>5
      <4>3. QED BY <1>0, <2>1, <4>1, <4>2
    <3>3. QED BY <3>1, <3>2
  <2>6. QED BY <2>4, <2>5
<1>2. CASE SwitchSymbol
  BY <1>2 DEF SwitchSymbol, ClearScreen, NoTrades
<1>3. CASE UNCHANGED <<revision, buffer, lastRev>>
  BY <1>3
<1>4. QED BY <1>1, <1>2, <1>3, StepsOnData DEF DataKept, SnapshotApplied, CandlesApplied

(* Every step only shows and records what has been executed.               *)
LEMMA ExecutedStep ==
  ASSUME Plain, BufferIsTheTail, LastRevIsInBuffer, ReplyCoversTheStart, Executed, [Next]_vars
  PROVE  Executed'
<1> USE DEF Executed
<1>0. /\ executed \in Nat /\ price \in Nat /\ lastRev \in [Trades -> Nat]
      /\ Trades \subseteq Nat
  BY MarketFeedAssumption DEF MarketFeedAssumption, Plain, Trades
<1>1. CASE DataKept
  <2>1. executed' \in Nat /\ executed <= executed' /\ symbol' = symbol /\ lastRev' = lastRev
    BY <1>0, <1>1 DEF DataKept, marketVars
  <2>2. CASE price' = price
    BY <1>0, <2>1, <2>2
  <2>3. ASSUME NEW t \in Trades, t <= executed, SymbolOf[t] = symbol, price' = t
        PROVE  Executed'
    BY <1>0, <2>1, <2>3
  <2>4. QED BY <1>1, <2>2, <2>3 DEF DataKept
<1>2. ASSUME NEW t \in Trades, Recorded(t) PROVE Executed'
  <2>1. /\ t <= executed /\ SymbolOf[t] = symbol /\ price' = t
        /\ lastRev' = [lastRev EXCEPT ![t] = revision + 1]
        /\ UNCHANGED <<symbol, executed>>
    BY <1>2, RecordedTrade
  <2>2. QED BY <1>0, <2>1
<1>3. ASSUME NEW w \in Workers, SnapshotApplied(w) PROVE Executed'
  <2>1. UNCHANGED <<symbol, executed, lastRev>>
    BY <1>3 DEF SnapshotApplied, marketVars
  <2>2. price' \in Nat /\ (price' # 0 => SymbolOf[price'] = symbol /\ price' <= executed)
    <3>1. CASE revision = req[w].start
      <4>1. /\ price' = req[w].quote /\ req[w].quote \in {0} \cup Trades
            /\ req[w].quote # 0 => SymbolOf[req[w].quote] = symbol /\ req[w].quote <= executed
        BY <1>3, <3>1, AppliedReply
      <4>2. price' \in Nat
        BY <4>1, NumbersAreNotNone
      <4>3. QED BY ONLY <4>1, <4>2
    <3>2. CASE revision # req[w].start
      <4>1. Len(buffer) \in 1 .. Len(buffer) /\ price' = buffer[Len(buffer)][2]
            /\ req[w].start \in Nat /\ req[w].start <= revision
        BY <1>3, <3>2, AppliedReply
      <4>2. buffer[Len(buffer)] \in Nat \X Trades
        BY <4>1, ElementOfSeq DEF Plain
      <4>3. price' \in Trades /\ buffer[Len(buffer)][1] = revision - Len(buffer) + Len(buffer)
            /\ buffer[Len(buffer)][1] <= lastRev[price']
        BY <4>1, <4>2 DEF BufferIsTheTail, LastRevIsInBuffer
      <4>4. revision \in Nat /\ Len(buffer) \in Nat
        BY LenProperties DEF Plain
      <4>5. lastRev[price'] # 0
        BY <1>0, <3>2, <4>1, <4>3, <4>4
      <4>6. QED BY <1>0, <4>3, <4>5
    <3>3. QED BY <3>1, <3>2
  <2>3. QED BY <2>1, <2>2
<1>4. CASE CandlesApplied
  BY <1>4 DEF CandlesApplied, marketVars
<1>5. CASE SwitchSymbol
  BY <1>5 DEF SwitchSymbol, ClearScreen, NoTrades, marketVars
<1>6. QED BY <1>1, <1>2, <1>3, <1>4, <1>5, StepsOnData

(* A switch does not take place under a refresh whose reply is wanted.     *)
LEMMA NotSwitched ==
  ASSUME Plain, OneGeneration, NEW w \in Workers, pc[w] = "rest", req'[w] = req[w],
         req'[w].symbol = symbol', SwitchSymbol
  PROVE  FALSE
<1>1. req[w].symbol = symbol
  BY DEF SwitchSymbol, OneGeneration
<1>2. symbol' # symbol
  BY DEF SwitchSymbol, OneGeneration
<1>3. QED BY <1>1, <1>2

(* Every step keeps in each reply what was recorded when it was asked for. *)
LEMMA ReplyStep ==
  ASSUME Plain, OneGeneration, BufferIsTheTail, Executed, ReplyCoversTheStart, [Next]_vars
  PROVE  ReplyCoversTheStart'
<1> SUFFICES ASSUME NEW w \in Workers, pc'[w] = "rest", req'[w].symbol = symbol'
             PROVE  /\ req'[w].start <= revision'
                    /\ req'[w].candles # None =>
                         Known(w, req[w].candles)' /\ (w # "resync" => req'[w].quote # None)
                    /\ req'[w].quote # None =>
                         /\ Known(w, req[w].quote)'
                         /\ req'[w].quote # 0 =>
                              SymbolOf[req'[w].quote] = symbol' /\ req'[w].quote <= executed'
  BY DEF ReplyCoversTheStart
<1>0. /\ req \in [Workers -> Request] /\ revision \in Nat /\ executed \in 0 .. NumTrades
      /\ executed \in Nat /\ Trades \subseteq Nat /\ lastRev \in [Trades -> Nat]
  BY MarketFeedAssumption DEF MarketFeedAssumption, Plain, Trades
<1>1. CASE Begin(w)
  <2>1. /\ req'[w] = [NoRequest EXCEPT !.symbol = symbol, !.start = revision,
                                      !.live = streamLive /\ w # "resync"]
        /\ revision' = revision
    BY <1>0, <1>1 DEF Begin, dataVars
  <2>2. req'[w].start = revision /\ req'[w].quote = None /\ req'[w].candles = None
    BY <2>1 DEF NoRequest
  <2>3. QED BY <1>0, <2>1, <2>2
<1>2. CASE ReadQuote(w)
  <2>1. /\ pc[w] = "rest" /\ UNCHANGED <<symbol, revision, lastRev, executed>>
        /\ req' = [req EXCEPT ![w].quote = RestPrice(req[w].symbol, executed)]
    BY <1>2 DEF ReadQuote, dataVars, marketVars, historyVars
  <2>2. /\ req'[w].start = req[w].start /\ req'[w].candles = req[w].candles
        /\ req'[w].symbol = req[w].symbol
        /\ req'[w].quote = RestPrice(req[w].symbol, executed)
    BY <1>0, <2>1 DEF Request
  <2>3. req[w].symbol = symbol
    BY <2>1, <2>2
  <2>4. /\ req'[w].quote \in {0} \cup Trades
        /\ req'[w].quote # 0 => SymbolOf[req'[w].quote] = symbol /\ req'[w].quote <= executed
        /\ \A t \in Trades : t <= executed /\ SymbolOf[t] = symbol => t <= req'[w].quote
    BY <1>0, <2>2, <2>3, RestPriceIsNewest
  <2>5. Known(w, req[w].quote)'
    BY <2>1, <2>4 DEF Known, Executed
  <2>6. req'[w].quote # None
    BY <2>4, NumbersAreNotNone
  <2>7. /\ req'[w].start <= revision'
        /\ req'[w].candles # None => Known(w, req[w].candles)'
    BY <2>1, <2>2, <2>3 DEF ReplyCoversTheStart, Known
  <2>8. QED BY <2>1, <2>4, <2>5, <2>6, <2>7
<1>3. CASE ReadCandles(w)
  <2>1. /\ pc[w] = "rest" /\ UNCHANGED <<symbol, revision, lastRev, executed>>
        /\ w # "resync" => req[w].quote # None
        /\ req' = [req EXCEPT ![w].candles = executed]
    BY <1>3 DEF ReadCandles, dataVars, marketVars, historyVars
  <2>2. /\ req'[w].start = req[w].start /\ req'[w].candles = executed
        /\ req'[w].symbol = req[w].symbol /\ req'[w].quote = req[w].quote
    BY <1>0, <2>1 DEF Request
  <2>3. req[w].symbol = symbol
    BY <2>1, <2>2
  <2>4. Known(w, req[w].candles)'
    BY <2>1, <2>2 DEF Known, Executed
  <2>5. /\ req'[w].start <= revision'
        /\ req'[w].quote # None =>
             /\ Known(w, req[w].quote)'
             /\ req'[w].quote # 0 => SymbolOf[req'[w].quote] = symbol' /\ req'[w].quote <= executed'
    BY <2>1, <2>2, <2>3 DEF ReplyCoversTheStart, Known
  <2>6. QED BY <2>1, <2>2, <2>4, <2>5
<1>4. CASE /\ pc[w] = "rest" /\ req'[w] = req[w]
           /\ \A v \in Workers : ~SnapshotApplied(v)
           /\ ~CandlesApplied
  <2>1. CASE SwitchSymbol
    BY <1>4, <2>1, NotSwitched
  <2>2. CASE DataKept
    <3>1. UNCHANGED <<symbol, revision, lastRev>> /\ executed <= executed' /\ executed' \in Nat
      BY <1>0, <2>2 DEF DataKept, marketVars
    <3>2. req[w].quote \in {0, None} \cup Trades
      BY <1>0 DEF Request
    <3>3. req[w].quote # None /\ req[w].quote # 0 =>
            SymbolOf[req[w].quote] = symbol /\ req[w].quote <= executed'
      BY <1>0, <1>4, <3>1, <3>2 DEF ReplyCoversTheStart
    <3>4. QED BY <1>4, <3>1, <3>3 DEF ReplyCoversTheStart, Known
  <2>3. ASSUME NEW t \in Trades, Recorded(t)
        PROVE  /\ UNCHANGED <<symbol, executed>>
               /\ revision' = revision + 1
               /\ req[w].start \in Nat /\ req[w].start <= revision
               /\ \A answer : Known(w, answer) => Known(w, answer)'
    <3>1. /\ UNCHANGED <<symbol, executed>> /\ revision' = revision + 1
          /\ lastRev' = [lastRev EXCEPT ![t] = revision + 1]
      BY <2>3, RecordedTrade
    <3>2. req[w].start \in Nat /\ req[w].start <= revision
      BY <1>0, <1>4, <3>1 DEF ReplyCoversTheStart, Request
    <3>3. \A u \in Trades : lastRev'[u] <= req[w].start => lastRev'[u] = lastRev[u]
      BY <1>0, <3>1, <3>2
    <3>4. QED BY <1>4, <3>1, <3>2, <3>3 DEF Known
  <2>4. ASSUME NEW t \in Trades, Recorded(t)
        PROVE  /\ req[w].start <= revision'
               /\ Known(w, req[w].candles) => Known(w, req[w].candles)'
               /\ Known(w, req[w].quote) => Known(w, req[w].quote)'
    BY <1>0, <1>4, <2>3, <2>4 DEF Known
  <2>5. CASE \E t \in Trades : Recorded(t)
    BY <1>4, <2>3, <2>4, <2>5 DEF ReplyCoversTheStart
  <2>6. QED BY <1>4, <2>1, <2>2, <2>5, StepsOnData
<1>5. QED BY <1>1, <1>2, <1>3, <1>4, RestSteps

(* Every step keeps the shown price in reach of the replies under way.     *)
LEMMA PriceStep ==
  ASSUME Plain, OneGeneration, BufferIsTheTail, Executed, ReplyCoversTheStart, PriceIsKnown,
         [Next]_vars
  PROVE  PriceIsKnown'
<1> SUFFICES ASSUME snap' # None, ~candleDegraded',
                    NEW w \in Workers, pc'[w] = "rest", req'[w].symbol = symbol'
             PROVE  /\ revision' = req'[w].start /\ req'[w].quote # None => price' <= req'[w].quote
                    /\ revision' # req'[w].start => buffer'[Len(buffer')][2] = price'
  BY DEF PriceIsKnown
<1>0. /\ req \in [Workers -> Request] /\ revision \in Nat /\ executed \in 0 .. NumTrades
      /\ price \in {0} \cup Trades
  BY DEF Plain
<1>1. CASE Begin(w)
  <2>1. /\ req'[w] = [NoRequest EXCEPT !.symbol = symbol, !.start = revision,
                                      !.live = streamLive /\ w # "resync"]
        /\ revision' = revision
    BY <1>0, <1>1 DEF Begin, dataVars
  <2>2. req'[w].start = revision /\ req'[w].quote = None
    BY <2>1 DEF NoRequest
  <2>3. QED BY <2>1, <2>2
<1>2. CASE ReadQuote(w)
  <2>1. /\ pc[w] = "rest"
        /\ UNCHANGED <<symbol, revision, buffer, price, snap, candleDegraded>>
        /\ req' = [req EXCEPT ![w].quote = RestPrice(req[w].symbol, executed)]
    BY <1>2 DEF ReadQuote, dataVars, stateVars
  <2>2. /\ req'[w].start = req[w].start /\ req'[w].symbol = req[w].symbol
        /\ req'[w].quote = RestPrice(req[w].symbol, executed)
    BY <1>0, <2>1 DEF Request
  <2>3. price <= req'[w].quote
    <3>1. /\ req'[w].quote \in {0} \cup Trades
          /\ \A t \in Trades : t <= executed /\ SymbolOf[t] = symbol => t <= req'[w].quote
      BY <1>0, <2>1, <2>2, RestPriceIsNewest
    <3>2. CASE price = 0
      BY <3>1, <3>2, MarketFeedAssumption DEF MarketFeedAssumption, Trades
    <3>3. CASE price # 0
      BY <1>0, <3>1, <3>3 DEF Executed
    <3>4. QED BY <3>2, <3>3
  <2>4. revision # req[w].start => buffer[Len(buffer)][2] = price
    BY <2>1, <2>2 DEF PriceIsKnown
  <2>5. QED BY <2>1, <2>2, <2>3, <2>4
<1>3. CASE ReadCandles(w)
  <2>1. /\ pc[w] = "rest"
        /\ UNCHANGED <<symbol, revision, buffer, price, snap, candleDegraded>>
        /\ req' = [req EXCEPT ![w].candles = executed]
    BY <1>3 DEF ReadCandles, dataVars, stateVars
  <2>2. /\ req'[w].start = req[w].start /\ req'[w].symbol = req[w].symbol
        /\ req'[w].quote = req[w].quote
    BY <1>0, <2>1 DEF Request
  <2>3. QED BY <2>1, <2>2 DEF PriceIsKnown
<1>4. CASE /\ pc[w] = "rest" /\ req'[w] = req[w]
           /\ \A v \in Workers : ~SnapshotApplied(v)
           /\ ~CandlesApplied
  <2>1. CASE SwitchSymbol
    BY <1>4, <2>1, NotSwitched
  <2>2. CASE DataKept
    <3>1. UNCHANGED <<symbol, snap, revision, buffer>> /\ ~candleDegraded
      BY <2>2 DEF DataKept
    <3>2. price' = price
      BY <2>2, <3>1 DEF DataKept
    <3>3. QED BY <1>4, <3>1, <3>2 DEF PriceIsKnown
  <2>3. ASSUME NEW t \in Trades, Recorded(t)
        PROVE  revision' # req[w].start /\ buffer'[Len(buffer')][2] = price'
    <3>1. /\ revision' = revision + 1 /\ price' = t /\ symbol' = symbol
          /\ buffer'[Len(buffer')] = <<revision + 1, t>>
      BY <2>3, RecordedTrade
    <3>2. req[w].start \in Nat /\ req[w].start <= revision
      BY <1>0, <1>4, <3>1 DEF ReplyCoversTheStart, Request
    <3>3. QED BY <1>0, <3>1, <3>2
  <2>4. QED BY <1>4, <2>1, <2>2, <2>3, StepsOnData
<1>5. QED BY <1>1, <1>2, <1>3, <1>4, RestSteps

(* The counts after a sync, by where a trade was recorded.                 *)
LEMMA SyncCounts ==
  ASSUME Plain, BufferIsTheTail, BufferIsInOrder, LastRevIsInBuffer, Executed,
         NEW w \in Workers, req[w].symbol = symbol, req[w].start \in Nat,
         req[w].candles \in 0 .. NumTrades, Known(w, req[w].candles),
         NEW t \in Trades, lastRev[t] # 0
  PROVE  /\ revision - lastRev[t] < MaxBuffer =>
              ReplayedOnto(RestCandles(req[w].symbol, req[w].candles), Replay(w))[t] >= 1
         /\ lastRev[t] <= req[w].start =>
              ReplayedOnto(RestCandles(req[w].symbol, req[w].candles), Replay(w))[t] = 1
<1> DEFINE c == RestCandles(req[w].symbol, req[w].candles)
           r == ReplayedOnto(c, Replay(w))
<1>0. /\ revision \in Nat /\ MaxBuffer \in Nat /\ Len(buffer) \in Nat /\ Trades \subseteq Nat
      /\ buffer \in Seq(Nat \X Trades) /\ lastRev[t] \in Nat /\ lastRev[t] <= revision
      /\ Len(buffer) = MaxBuffer \/ Len(buffer) = revision
  <2>1. buffer \in Seq(Nat \X Trades) /\ Len(buffer) \in Nat
    BY LenProperties DEF Plain
  <2>2. revision \in Nat /\ MaxBuffer \in Nat /\ Trades \subseteq Nat
    BY MarketFeedAssumption DEF MarketFeedAssumption, Plain, Trades
  <2>3. lastRev[t] \in Nat /\ lastRev[t] <= revision
    BY DEF Plain, LastRevIsInBuffer
  <2>4. Len(buffer) = MaxBuffer \/ Len(buffer) = revision
    BY <2>1, <2>2 DEF BufferIsTheTail
  <2>5. QED BY <2>1, <2>2, <2>3, <2>4
<1>1. /\ c \in [Trades -> Nat]
      /\ \A u \in Trades : c[u] > 0 <=> u <= req[w].candles /\ SymbolOf[u] = symbol
      /\ \A u \in Trades : c[u] > 0 => c[u] = 1
  BY DEF RestCandles
<1>2. SymbolOf[t] = symbol
  BY DEF Executed
<1>3. \A u \in Trades : c[u] > 0 /\ t < u => c[t] > 0
  <2>1. t \in Nat /\ req[w].candles \in Nat /\ \A u \in Trades : u \in Nat
    BY <1>0, MarketFeedAssumption DEF MarketFeedAssumption
  <2> HIDE DEF c
  <2>2. ASSUME NEW u \in Trades, c[u] > 0, t < u PROVE c[t] > 0
    <3>1. u \in Nat /\ u <= req[w].candles
      BY <1>1, <2>1, <2>2
    <3>2. t <= req[w].candles
      BY <2>1, <2>2, <3>1
    <3>3. QED BY <1>1, <1>2, <3>2
  <2>3. QED BY <2>2
<1> HIDE DEF c
<1>4. /\ r \in [Trades -> Nat] /\ c[t] \in Nat /\ c[t] <= r[t] /\ r[t] \in Nat
      /\ (\A i \in 1 .. Len(buffer) : i \in Replay(w) => buffer[i][2] # t) => r[t] = c[t]
  <2>1. /\ r \in [Trades -> Nat]
        /\ c[t] <= r[t]
        /\ (\A i \in 1 .. Len(buffer) : i \in Replay(w) => buffer[i][2] # t) => r[t] = c[t]
    BY <1>0, <1>1, ReplayKeeps
  <2> HIDE DEF r
  <2>2. c[t] \in Nat /\ r[t] \in Nat
    BY <1>1, <2>1
  <2>3. QED BY <2>1, <2>2
<1> HIDE DEF r
<1>5. CASE lastRev[t] <= req[w].start
  <2>1. c[t] > 0 /\ c[t] = 1
    BY <1>1, <1>2, <1>5 DEF Known
  <2>2. ASSUME NEW i \in 1 .. Len(buffer), i \in Replay(w) PROVE buffer[i][2] # t
    <3>1. buffer[i][1] > req[w].start /\ buffer[i][1] <= lastRev[buffer[i][2]]
      BY <2>2 DEF Replay, LastRevIsInBuffer
    <3>2. buffer[i] \in Nat \X Trades
      BY <1>0, ElementOfSeq
    <3>3. buffer[i][1] \in Nat
      BY <3>2
    <3>4. QED BY <1>0, <1>5, <3>1, <3>3
  <2>3. r[t] = 1
    BY <1>4, <2>1, <2>2
  <2>4. QED BY <2>3 DEF r, c
<1>6. CASE ~(lastRev[t] <= req[w].start)
  <2>1. SUFFICES ASSUME revision - lastRev[t] < MaxBuffer PROVE r[t] >= 1
    BY <1>6 DEF r, c
  <2>2. revision - Len(buffer) < lastRev[t]
    BY <1>0, <2>1
  <2>3. PICK i \in 1 .. Len(buffer) : buffer[i] = <<lastRev[t], t>>
    BY <2>2 DEF LastRevIsInBuffer
  <2>4. buffer[i][1] = lastRev[t] /\ buffer[i][2] = t
    BY <2>3
  <2>5. i \in Replay(w)
    BY <1>0, <1>6, <2>4 DEF Replay
  <2>6. \A j \in 1 .. Len(buffer) : j <= i => MinuteOf[buffer[j][2]] <= MinuteOf[t]
    BY <2>4 DEF BufferIsInOrder
  <2>7. ReplayedOnto(c, Replay(w))[t] > 0
    BY <1>0, <1>1, <1>3, <2>4, <2>5, <2>6, ReplayCounts
  <2>8. r[t] > 0
    BY <2>7 DEF r
  <2>9. QED BY <1>4, <2>8
<1>7. QED BY <1>5, <1>6

(* A sync of either kind leaves the candles exact.                         *)
LEMMA SyncIsExact ==
  ASSUME Plain, BufferIsTheTail, BufferIsInOrder, LastRevIsInBuffer, Executed,
         NEW w \in Workers, req[w].symbol = symbol, req[w].start \in Nat,
         req[w].start <= revision,
         req[w].candles \in 0 .. NumTrades, Known(w, req[w].candles),
         TakeCandles(w), UNCHANGED <<revision, lastRev>>
  PROVE  (syncStart <= revision)' /\ CandlesAreExact'
<1>1. /\ count' = ReplayedOnto(RestCandles(req[w].symbol, req[w].candles), Replay(w))
      /\ syncStart' = req[w].start
  BY DEF TakeCandles
<1>2. ASSUME NEW t \in Trades, lastRev[t] # 0
      PROVE  /\ revision - lastRev[t] < MaxBuffer => count'[t] >= 1
             /\ lastRev[t] <= req[w].start => count'[t] = 1
  BY <1>1, <1>2, SyncCounts
<1>3. QED BY <1>1, <1>2 DEF CandlesAreExact

(* Every step leaves the candles exact.                                    *)
LEMMA ExactStep ==
  ASSUME FeedInv, [Next]_vars
  PROVE  (syncStart <= revision)' /\ CandlesAreExact'
<1> USE DEF FeedInv
<1>0. /\ lastRev \in [Trades -> Nat] /\ count \in [Trades -> Nat]
      /\ revision \in Nat /\ syncStart \in Nat /\ MaxBuffer \in Nat
  BY MarketFeedAssumption DEF MarketFeedAssumption, Plain
<1>1. CASE DataKept
  BY <1>1 DEF DataKept, CandlesAreExact
<1>2. ASSUME NEW t \in Trades, Recorded(t)
      PROVE  (syncStart <= revision)' /\ CandlesAreExact'
  <2>1. /\ revision' = revision + 1 /\ syncStart' = syncStart
        /\ lastRev' = [lastRev EXCEPT ![t] = revision + 1]
        /\ count' = [count EXCEPT ![t] = @ + 1]
    BY <1>2, RecordedTrade
  <2>2. ASSUME NEW u \in Trades, lastRev'[u] # 0
        PROVE  /\ revision' - lastRev'[u] < MaxBuffer => count'[u] >= 1
               /\ lastRev'[u] <= syncStart' => count'[u] = 1
    <3>1. CASE u = t
      <4>1. lastRev'[u] = revision + 1 /\ count'[u] = count[t] + 1 /\ count[t] \in Nat
        BY <1>0, <2>1, <3>1
      <4>2. QED BY <1>0, <2>1, <4>1
    <3>2. CASE u # t
      <4>1. lastRev'[u] = lastRev[u] /\ count'[u] = count[u] /\ lastRev[u] \in Nat
        BY <1>0, <2>1, <3>2
      <4>2. /\ revision - lastRev[u] < MaxBuffer => count[u] >= 1
            /\ lastRev[u] <= syncStart => count[u] = 1
        BY <2>2, <4>1 DEF CandlesAreExact
      <4>3. QED BY <1>0, <2>1, <4>1, <4>2
    <3>3. QED BY <3>1, <3>2
  <2>3. (syncStart <= revision)'
    BY <1>0, <2>1
  <2>4. QED BY <2>2, <2>3 DEF CandlesAreExact
<1>3. ASSUME NEW w \in Workers, SnapshotApplied(w)
      PROVE  (syncStart <= revision)' /\ CandlesAreExact'
  <2>1. /\ req[w].symbol = symbol /\ req[w].start \in Nat /\ req[w].start <= revision
        /\ req[w].candles \in 0 .. NumTrades /\ Known(w, req[w].candles)
    BY <1>3, AppliedReply
  <2>2. TakeCandles(w) /\ UNCHANGED <<revision, lastRev>>
    BY <1>3 DEF SnapshotApplied
  <2>3. QED BY <2>1, <2>2, SyncIsExact
<1>4. CASE CandlesApplied
  <2> DEFINE w == "resync"
  <2>1. /\ w \in Workers /\ pc[w] = "rest" /\ req[w].symbol = symbol /\ req[w].candles # None
        /\ TakeCandles(w) /\ UNCHANGED <<revision, lastRev>>
    BY <1>4 DEF CandlesApplied, StillWanted, Workers
  <2> HIDE DEF w
  <2>2. req[w].start \in Nat /\ req[w].candles \in 0 .. NumTrades
    BY <2>1 DEF Plain, Request
  <2>3. req[w].start <= revision /\ Known(w, req[w].candles)
    BY <2>1 DEF ReplyCoversTheStart
  <2>4. QED BY <2>1, <2>2, <2>3, SyncIsExact
<1>5. CASE SwitchSymbol
  BY <1>5 DEF SwitchSymbol, ClearScreen, NoTrades, CandlesAreExact
<1>6. QED BY <1>1, <1>2, <1>3, <1>4, <1>5, StepsOnData

-----------------------------------------------------------------------------
(* FeedInv is an invariant of the feed.                                    *)
LEMMA FeedInvHolds == Spec => []FeedInv
<1>1. Init => FeedInv
  <2> SUFFICES ASSUME Init PROVE FeedInv
    OBVIOUS
  <2>1. buffer = << >> /\ Len(buffer) = 0 /\ 1 .. Len(buffer) = {} /\ buffer \in Seq(Nat \X Trades)
    BY EmptySeq DEF Init
  <2>2. Plain
    <3>1. First \in Symbols /\ NumTrades \in Nat
      BY MarketFeedAssumption DEF MarketFeedAssumption
    <3>2. /\ symbol \in Symbols /\ target \in Symbols /\ feedSymbol = None /\ snap = None
          /\ pc \in [Workers -> {"idle", "cancelling", "want", "rest"}]
          /\ streamLive = FALSE /\ price = 0 /\ tick = None
          /\ executed = 0 /\ clock = 0 /\ 0 \in 0 .. NumTrades
          /\ revision = 0 /\ syncStart = 0
      BY <3>1 DEF Init
    <3>3. req \in [Workers -> Request]
      BY DEF Init, NoRequest, Request
    <3>4. count \in [Trades -> Nat] /\ lastRev \in [Trades -> Nat]
      BY DEF Init, NoTrades
    <3>5. clock <= executed /\ clock \in 0 .. NumTrades /\ executed \in 0 .. NumTrades
      BY <3>1, <3>2
    <3>6. QED BY <2>1, <3>1, <3>2, <3>3, <3>4, <3>5 DEF Plain
  <2>3. OneGeneration
    <3>1. /\ pc = [w \in Workers |-> IF w = "switch" THEN "want" ELSE "idle"]
          /\ target = First /\ First \in Symbols /\ "switch" \in Workers
      BY MarketFeedAssumption DEF MarketFeedAssumption, Init, Workers
    <3>2. QED BY <3>1 DEF OneGeneration
  <2>4. BufferIsTheTail /\ BufferIsInOrder
    <3>1. revision = 0 /\ MaxBuffer \in Nat
      BY MarketFeedAssumption DEF MarketFeedAssumption, Init
    <3>2. QED BY <2>1, <3>1 DEF BufferIsTheTail, BufferIsInOrder
  <2>5. LastRevIsInBuffer
    BY <2>1 DEF Init, LastRevIsInBuffer, NoTrades
  <2>6. Executed /\ CandlesAreExact /\ syncStart <= revision
    BY DEF Init, Executed, CandlesAreExact, NoTrades
  <2>7. ReplyCoversTheStart /\ PriceIsKnown
    BY DEF Init, ReplyCoversTheStart, PriceIsKnown
  <2>8. QED BY <2>2, <2>3, <2>4, <2>5, <2>6, <2>7 DEF FeedInv
<1>2. FeedInv /\ [Next]_vars => FeedInv'
  <2> SUFFICES ASSUME FeedInv, [Next]_vars PROVE FeedInv'
    OBVIOUS
  <2>1. /\ Plain /\ OneGeneration /\ BufferIsTheTail /\ BufferIsInOrder /\ LastRevIsInBuffer
        /\ Executed /\ ReplyCoversTheStart /\ PriceIsKnown /\ CandlesAreExact
    BY DEF FeedInv
  <2>2. Plain'
    BY <2>1, PlainStep
  <2>3. OneGeneration'
    BY <2>1, GenerationStep
  <2>4. BufferIsTheTail'
    BY <2>1, TailStep
  <2>5. BufferIsInOrder'
    BY <2>1, OrderStep
  <2>6. LastRevIsInBuffer'
    BY <2>1, LastRevStep
  <2>7. Executed'
    BY <2>1, ExecutedStep
  <2>8. ReplyCoversTheStart'
    BY <2>1, ReplyStep
  <2>9. PriceIsKnown'
    BY <2>1, PriceStep
  <2>10. (syncStart <= revision)' /\ CandlesAreExact'
    BY ExactStep
  <2>11. QED BY <2>2, <2>3, <2>4, <2>5, <2>6, <2>7, <2>8, <2>9, <2>10 DEF FeedInv
<1>3. QED BY <1>1, <1>2, PTL DEF Spec

(* No trade folded into the candles is lost by a refresh under way, and    *)
(* none is counted twice once a sync that began after it has ended.        *)
THEOREM CandlesCountOnce == Spec => []CandlesAreExact
<1>1. FeedInv => CandlesAreExact
  BY DEF FeedInv
<1>2. QED BY <1>1, FeedInvHolds, PTL

(* The quote of a symbol does not go back in time while its candles are in *)
(* sync and its own time is known and past, whatever events and replies    *)
(* come in whatever order.                                                 *)
THEOREM QuoteAdvances == Spec => QuoteNeverGoesBack
<1>1. ASSUME FeedInv, [Next]_vars, symbol' = symbol, snap # None, ~candleDegraded, QuoteIsTimed
      PROVE  price' >= price
  <2> USE <1>1
  <2>0. price \in Nat /\ Trades \subseteq Nat /\ revision \in Nat /\ Plain
    <3>1. Trades \subseteq Nat
      BY MarketFeedAssumption DEF MarketFeedAssumption, Trades
    <3>2. QED BY <3>1 DEF FeedInv, Plain
  <2>1. ASSUME NEW t \in Trades, Fresh(t) PROVE t >= price
    <3>1. tick # None /\ TickOf(t) # None /\ TickOf(t) >= tick /\ tick >= price
      BY <2>1 DEF Fresh, QuoteIsTimed
    <3>2. TickOf(t) \in Nat /\ TickOf(t) <= t /\ t \in Nat
      BY <2>0, <3>1, TickIsNoLater
    <3>3. tick \in Nat
      BY <2>0, <3>1 DEF Plain
    <3>4. QED BY <2>0, <3>1, <3>2, <3>3
  <2>2. CASE DataKept
    <3>1. price' = price \/ \E t \in Trades : Fresh(t) /\ price' = t
      BY <2>2 DEF DataKept
    <3>2. QED BY <2>0, <2>1, <3>1
  <2>3. ASSUME NEW t \in Trades, Recorded(t) PROVE price' >= price
    <3>1. Fresh(t) /\ price' = t
      BY <2>3, RecordedTrade DEF FeedInv
    <3>2. QED BY <2>1, <3>1
  <2>4. ASSUME NEW w \in Workers, SnapshotApplied(w) PROVE price' >= price
    <3>1. /\ pc[w] = "rest" /\ req[w].symbol = symbol
          /\ req[w].quote \in {0} \cup Trades
          /\ revision = req[w].start => price' = req[w].quote
          /\ revision # req[w].start => price' = buffer[Len(buffer)][2]
      BY <2>4, AppliedReply DEF FeedInv
    <3>2. req[w].quote \in Nat /\ req[w].quote # None
      BY <3>1, NumbersAreNotNone
    <3>3. /\ revision = req[w].start => price <= req[w].quote
          /\ revision # req[w].start => buffer[Len(buffer)][2] = price
      BY <3>1, <3>2 DEF FeedInv, PriceIsKnown
    <3>4. QED BY <2>0, <3>1, <3>2, <3>3
  <2>5. CASE CandlesApplied
    <3>1. price' = price
      BY <2>5 DEF CandlesApplied
    <3>2. QED BY <2>0, <3>1
  <2>6. CASE SwitchSymbol
    BY <2>6 DEF SwitchSymbol, FeedInv, OneGeneration
  <2>7. QED BY <2>2, <2>3, <2>4, <2>5, <2>6, StepsOnData
<1>2. FeedInv /\ [Next]_vars =>
        [symbol' = symbol /\ snap # None /\ ~candleDegraded /\ QuoteIsTimed
           => price' >= price]_vars
  BY <1>1
<1>3. QED BY <1>2, FeedInvHolds, PTL DEF Spec, QuoteNeverGoesBack

-----------------------------------------------------------------------------
(* The flags and the state of the connection, what is shown, and the bound *)
(* of the revisions.                                                       *)
Flags ==
  /\ socket \in BOOLEAN /\ protocolDegraded \in BOOLEAN
  /\ candleDegraded \in BOOLEAN /\ indicatorDegraded \in BOOLEAN
  /\ connState \in ConnStates

RevisionsAreBounded ==
  /\ revision <= MaxRevisions
  /\ \A w \in Workers : req[w].start <= MaxRevisions

(* A rendering leaves the state it was asked for, or DEGRADED. *)
LEMMA RenderedState ==
  ASSUME indicatorDegraded \in BOOLEAN, NEW s \in ConnStates, RenderStats(s)
  PROVE  indicatorDegraded' \in BOOLEAN /\ connState' \in ConnStates
BY DEF RenderStats, ConnStates

(* Every step leaves the flags and the state of the connection so. *)
LEMMA FlagsStep ==
  ASSUME Plain, Flags, [Next]_vars
  PROVE  Flags'
<1> USE DEF Flags
<1>1. streamLive \in BOOLEAN /\ {"LIVE", "SHUT"} \subseteq ConnStates
      /\ \A w \in Workers : req[w].live \in BOOLEAN
  BY DEF Plain, Request, ConnStates
<1>2. socket' \in BOOLEAN
  BY DEF Next, Begin, Refresh, ReadQuote, ReadCandles,
     SnapshotApplied, CandlesApplied, ReplyDiscarded, RefreshFails, LeaveRefresh, FeedEvent,
     StreamConnects, Subscribed, StreamError, ProtocolError, BookArrives, TradeArrives,
     OldTradeArrives, TradeNotFolded, ChartModeChosen, SwitchRequested, SwitchSymbol, Execute,
     TimePasses, vars, taskVars
<1> DEFINE Rest == /\ protocolDegraded' \in BOOLEAN /\ candleDegraded' \in BOOLEAN
                   /\ indicatorDegraded' \in BOOLEAN /\ connState' \in ConnStates
<1>3. ASSUME NEW w \in Workers, SnapshotApplied(w) PROVE Rest
  <2>1. /\ candleDegraded' = FALSE /\ indicatorDegraded' \in BOOLEAN
        /\ protocolDegraded' = (protocolDegraded /\ ~req[w].live)
    BY <1>3 DEF SnapshotApplied, TakeCandles
  <2>2. connState' \in {"LIVE", "SHUT", connState}
    <3>1. CASE w = "feed"
      BY <1>3, <3>1 DEF SnapshotApplied
    <3>2. CASE w # "feed" /\ indicatorDegraded'
      BY <1>3, <3>2 DEF SnapshotApplied
    <3>3. CASE w # "feed" /\ ~indicatorDegraded' /\ req[w].live
      BY <1>3, <3>3 DEF SnapshotApplied
    <3>4. CASE w # "feed" /\ ~indicatorDegraded' /\ ~req[w].live
      BY <1>3, <3>4 DEF SnapshotApplied
    <3>5. QED BY <3>1, <3>2, <3>3, <3>4
  <2>3. QED BY <1>1, <2>1, <2>2
<1>4. ASSUME CandlesApplied PROVE Rest
  <2>1. candleDegraded' \in BOOLEAN /\ protocolDegraded' \in BOOLEAN
    BY <1>4 DEF CandlesApplied, TakeCandles
  <2>2. \E s \in ConnStates : RenderStats(s)
    BY <1>1, <1>4 DEF CandlesApplied
  <2>3. indicatorDegraded' \in BOOLEAN /\ connState' \in ConnStates
    BY <2>2, RenderedState
  <2>4. QED BY <2>1, <2>3
<1>5. ASSUME NEW w \in Workers, RefreshFails(w) PROVE Rest
  <2>1. indicatorDegraded' = indicatorDegraded
    BY <1>5 DEF RefreshFails
  <2>2. connState' \in {"SHUT", connState}
    BY <1>5 DEF RefreshFails, SetCandleDegraded
  <2>3. candleDegraded' \in BOOLEAN /\ protocolDegraded' \in BOOLEAN
    BY <1>5 DEF RefreshFails, SetCandleDegraded
  <2>4. QED BY <1>1, <2>1, <2>2, <2>3
<1>6. ASSUME NEW w \in Workers, Begin(w) PROVE Rest
  BY <1>1, <1>6 DEF Begin
<1>7. ASSUME StreamConnects \/ Subscribed \/ StreamError \/ ProtocolError \/ SwitchSymbol
      PROVE  Rest
  <2>1. connState' \in ConnStates
    BY <1>1, <1>7 DEF StreamConnects, Subscribed, StreamError, ProtocolError, SwitchSymbol
  <2>2. candleDegraded' \in BOOLEAN /\ indicatorDegraded' \in BOOLEAN
    BY <1>7 DEF StreamConnects, Subscribed, StreamError, ProtocolError, SwitchSymbol
  <2>3. protocolDegraded' \in BOOLEAN
    BY <1>7 DEF StreamConnects, Subscribed, StreamError, ProtocolError, SwitchSymbol
  <2>4. QED BY <2>1, <2>2, <2>3
<1>8. ASSUME Recover, candleDegraded' = candleDegraded PROVE Rest
  <2>1. protocolDegraded' \in BOOLEAN /\ \E s \in ConnStates : RenderStats(s)
    BY <1>1, <1>8 DEF Recover
  <2>2. QED BY <1>8, <2>1, RenderedState
<1>9. ASSUME NEW t \in Trades, TradeNotFolded(t) PROVE Rest
  <2>1. /\ candleDegraded' = TRUE /\ protocolDegraded' \in BOOLEAN
        /\ \E s \in ConnStates : RenderStats(s)
    BY <1>1, <1>9 DEF TradeNotFolded
  <2>2. QED BY <2>1, RenderedState
<1>10. ASSUME ChartModeChosen PROVE Rest
  <2>1. candleDegraded' \in BOOLEAN /\ protocolDegraded' \in BOOLEAN /\ RenderStats(connState)
    BY <1>10 DEF ChartModeChosen
  <2>2. indicatorDegraded' \in BOOLEAN /\ connState' \in ConnStates
    BY <2>1, RenderedState
  <2>3. QED BY <2>1, <2>2
<1>11. ASSUME UNCHANGED stateVars PROVE Rest
  BY <1>11, Zenon DEF stateVars
<1>12. ASSUME NEW w \in Workers, ReplyDiscarded(w) PROVE Rest
  <2>1. connState' \in {"SHUT", connState}
    BY <1>12 DEF ReplyDiscarded
  <2>2. /\ candleDegraded' \in BOOLEAN /\ protocolDegraded' \in BOOLEAN
        /\ indicatorDegraded' \in BOOLEAN
    BY <1>12 DEF ReplyDiscarded
  <2>3. QED BY <1>1, <2>1, <2>2
<1>13. \/ \E w \in Workers : ReplyDiscarded(w)
       \/ \E w \in Workers : SnapshotApplied(w) \/ CandlesApplied \/ RefreshFails(w) \/ Begin(w)
       \/ StreamConnects \/ Subscribed \/ StreamError \/ ProtocolError \/ SwitchSymbol
       \/ Recover /\ candleDegraded' = candleDegraded
       \/ \E t \in Trades : TradeNotFolded(t)
       \/ ChartModeChosen \/ UNCHANGED stateVars
  BY DEF Next, Refresh, ReadQuote, ReadCandles,
     SwitchRequested, Execute, TimePasses, FeedEvent, BookArrives, TradeArrives,
     OldTradeArrives, vars
<1>14. Rest
  BY <1>3, <1>4, <1>5, <1>6, <1>7, <1>8, <1>9, <1>10, <1>11, <1>12, <1>13
<1>15. QED BY <1>2, <1>14

(* Revisions are counted up to their bound, and what a worker notes of     *)
(* them is no more.                                                        *)
LEMMA RevisionsStep ==
  ASSUME Plain, RevisionsAreBounded, [Next]_vars
  PROVE  RevisionsAreBounded'
<1> USE DEF RevisionsAreBounded
<1>1. /\ revision \in Nat /\ MaxRevisions \in Nat /\ req \in [Workers -> Request]
      /\ \A w \in Workers : req[w].start \in Nat
  BY MarketFeedAssumption DEF MarketFeedAssumption, Plain, Request
<1>2. revision' <= MaxRevisions
  <2>1. revision' \in {0, revision} \/ (revision' = revision + 1 /\ revision < MaxRevisions)
    BY DEF Next, Begin, Refresh, ReadQuote, ReadCandles,
       SnapshotApplied, CandlesApplied, ReplyDiscarded, RefreshFails, FeedEvent,
       StreamConnects, Subscribed, StreamError, ProtocolError, BookArrives, TradeArrives,
       Record, OldTradeArrives, TradeNotFolded, ChartModeChosen, SwitchRequested, SwitchSymbol,
       ClearScreen, Execute, TimePasses, vars, dataVars
  <2>2. QED BY <1>1, <2>1
<1>3. \A w \in Workers : req'[w].start <= MaxRevisions
  <2> DEFINE Fits == \A w \in Workers : req'[w].start <= MaxRevisions
  <2>1. ASSUME NEW v \in Workers, Begin(v) PROVE Fits
    BY <1>1, <2>1 DEF Begin, NoRequest
  <2>2. ASSUME NEW v \in Workers, ReadQuote(v) \/ ReadCandles(v) PROVE Fits
    <3>1. \A w \in Workers : req'[w].start = req[w].start
      BY <1>1, <2>2 DEF ReadQuote, ReadCandles, Request
    <3>2. QED BY <3>1
  <2>3. ASSUME NEW v \in Workers, req' = [req EXCEPT ![v] = NoRequest] PROVE Fits
    BY <1>1, <2>3 DEF NoRequest
  <2>4. CASE req' = req
    BY <2>4
  <2>5. \/ \E v \in Workers : Begin(v) \/ ReadQuote(v) \/ ReadCandles(v)
                              \/ req' = [req EXCEPT ![v] = NoRequest]
        \/ req' = req
    BY DEF Next, Refresh,
       SnapshotApplied, CandlesApplied, ReplyDiscarded, RefreshFails, LeaveRefresh, FeedEvent,
       StreamConnects, Subscribed, StreamError, ProtocolError, BookArrives, TradeArrives,
       OldTradeArrives, TradeNotFolded, ChartModeChosen, SwitchRequested,
       SwitchSymbol, Execute, TimePasses, Workers, vars, taskVars
  <2>6. QED BY <2>1, <2>2, <2>3, <2>4, <2>5
<1>4. QED BY <1>2, <1>3

(* What is shown is of symbols. *)
LEMMA ShownStep ==
  ASSUME Plain, shown \subseteq Symbols, [Next]_vars
  PROVE  shown' \subseteq Symbols
<1>1. symbol \in Symbols /\ feedSymbol \in Symbols \cup {None}
  BY DEF Plain
<1>2. CASE FeedEvent
  <2>1. shown' \in {shown, shown \cup {feedSymbol}} /\ feedSymbol # None
    BY <1>2 DEF FeedEvent, FeedListens, StreamConnects, Subscribed, StreamError, ProtocolError,
       BookArrives, TradeArrives, OldTradeArrives, TradeNotFolded, dataVars
  <2>2. QED BY <1>1, <2>1
<1>3. ASSUME NEW w \in Workers, SnapshotApplied(w) \/ CandlesApplied PROVE shown' \subseteq Symbols
  BY <1>1, <1>3 DEF SnapshotApplied, CandlesApplied, StillWanted
<1>4. CASE SwitchSymbol
  BY <1>4 DEF SwitchSymbol, ClearScreen
<1>5. CASE shown' = shown
  BY <1>5
<1>6. \/ FeedEvent \/ SwitchSymbol \/ shown' = shown
      \/ \E w \in Workers : SnapshotApplied(w) \/ CandlesApplied
  BY DEF Next, Begin, Refresh, ReadQuote, ReadCandles, ReplyDiscarded,
     RefreshFails, ChartModeChosen, SwitchRequested, Execute, TimePasses, Workers, vars, dataVars
<1>7. QED BY <1>2, <1>3, <1>4, <1>5, <1>6

(* Tasks, requests, data and flags stay in their sets: the buffer is never *)
(* longer than it may be, and nothing is numbered above the last revision. *)
THEOREM FeedTypeCorrect == Spec => []TypeOK
<1> DEFINE Bounded == Flags /\ RevisionsAreBounded /\ shown \subseteq Symbols
<1>1. Init => Bounded
  <2> SUFFICES ASSUME Init PROVE Bounded
    OBVIOUS
  <2>1. Flags /\ shown \subseteq Symbols
    BY DEF Init, Flags, ConnStates
  <2>2. RevisionsAreBounded
    BY MarketFeedAssumption DEF Init, MarketFeedAssumption, RevisionsAreBounded, NoRequest
  <2>3. QED BY <2>1, <2>2
<1>2. FeedInv /\ Bounded /\ [Next]_vars => Bounded'
  BY FlagsStep, RevisionsStep, ShownStep DEF FeedInv
<1>3. FeedInv /\ Bounded => TypeOK
  <2> SUFFICES ASSUME FeedInv, Bounded PROVE TypeOK
    OBVIOUS
  <2>1. Plain /\ BufferIsTheTail /\ LastRevIsInBuffer /\ syncStart <= revision
    BY DEF FeedInv
  <2>2. /\ revision \in Nat /\ MaxRevisions \in Nat /\ revision <= MaxRevisions
        /\ syncStart \in Nat /\ NumTrades \in Nat
    BY <2>1, MarketFeedAssumption DEF MarketFeedAssumption, Plain, RevisionsAreBounded
  <2>3. revision \in 0 .. MaxRevisions /\ syncStart \in 0 .. MaxRevisions
    BY <2>1, <2>2
  <2>4. 0 .. NumTrades = {0} \cup Trades
    BY <2>2 DEF Trades
  <2>5. ASSUME NEW w \in Workers
        PROVE  /\ req[w].symbol \in Symbols \cup {None}
               /\ req[w].start \in 0 .. MaxRevisions
               /\ req[w].live \in BOOLEAN
               /\ {req[w].quote, req[w].candles} \subseteq {0, None} \cup Trades
    <3>1. req[w] \in Request /\ req[w].start <= MaxRevisions
      BY <2>1 DEF Plain, RevisionsAreBounded
    <3>2. QED BY <2>2, <2>4, <3>1 DEF Request
  <2>6. lastRev \in [Trades -> 0 .. MaxRevisions]
    <3>1. \A t \in Trades : lastRev[t] \in Nat /\ lastRev[t] <= revision
      BY <2>1 DEF Plain, LastRevIsInBuffer
    <3>2. \A t \in Trades : lastRev[t] \in 0 .. MaxRevisions
      BY <2>2, <3>1
    <3>3. QED BY <2>1, <3>2 DEF Plain
  <2>7. buffer \in Seq((1 .. MaxRevisions) \X Trades)
    <3>1. buffer \in Seq(Nat \X Trades) /\ Len(buffer) \in Nat /\ Len(buffer) <= revision
      BY <2>1, LenProperties DEF Plain, BufferIsTheTail
    <3>2. ASSUME NEW i \in 1 .. Len(buffer) PROVE buffer[i] \in (1 .. MaxRevisions) \X Trades
      <4>1. buffer[i] \in Nat \X Trades
        BY <3>1, ElementOfSeq
      <4>2. buffer[i][1] = revision - Len(buffer) + i
        BY <2>1 DEF BufferIsTheTail
      <4>3. buffer[i][1] \in 1 .. MaxRevisions
        BY <2>2, <3>1, <4>2
      <4>4. QED BY <4>1, <4>3
    <3>3. buffer \in [1 .. Len(buffer) -> (1 .. MaxRevisions) \X Trades]
      <4>1. buffer = [i \in 1 .. Len(buffer) |-> buffer[i]]
        BY <3>1
      <4>2. QED BY <3>2, <4>1
    <3>4. QED BY <3>1, <3>3, SeqDef
  <2>8. {price, executed, clock} \subseteq {0} \cup Trades /\ tick \in {0, None} \cup Trades
    BY <2>1, <2>4 DEF Plain
  <2>9. {streamLive, protocolDegraded, candleDegraded, indicatorDegraded} \subseteq BOOLEAN
    BY <2>1 DEF Plain, Flags
  <2>10. Len(buffer) <= MaxBuffer
    BY <2>1 DEF BufferIsTheTail
  <2>11. QED BY <2>1, <2>3, <2>5, <2>6, <2>7, <2>8, <2>9, <2>10 DEF TypeOK, Plain, Flags
<1>4. QED BY <1>1, <1>2, <1>3, FeedInvHolds, PTL DEF Spec
=============================================================================
