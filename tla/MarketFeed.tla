----------------------------- MODULE MarketFeed -----------------------------
(***************************************************************************)
(* The market data of the active symbol in the TUI: the WebSocket feed     *)
(* task, the REST refreshes and candle resyncs that run beside it, and the *)
(* symbol switch, all coroutines of one event loop.  A trade is a number:  *)
(* the order of execution, so also its provider timestamp; 0 is no trade.  *)
(* The app's UTC clock is measured alike: it has reached the times of some *)
(* trades, may be behind the exchange's, and is not set while the app runs;*)
(* it and the monotonic clock are read as at one instant.                  *)
(* The 1m and the daily candles are treated alike and stand for how often  *)
(* each trade is counted in them (its share of H/L/C and volume).          *)
(*                                                                         *)
(* The switch worker also stands for on_mount, which refreshes once and    *)
(* then starts the feed in the same way.                                   *)
(*                                                                         *)
(* Bounds: MaxRevisions, trades folded per symbol generation; the trades.  *)
(***************************************************************************)
EXTENDS Naturals, Sequences, SequencesExt

CONSTANTS
  Symbols, First,  \* First: the symbol the app is started with
  NumTrades,       \* trades are numbered in the order of execution
  SymbolOf,
  MinuteOf,        \* the candle a trade belongs to
  None,
  Skew,            \* MAX_FUTURE_PRICE_SKEW_SECONDS (30), in trades
  MaxBuffer,       \* maxlen of _live_trade_buffer (2000)
  MaxRevisions

Trades == 1 .. NumTrades

ASSUME MarketFeedAssumption ==
  /\ First \in Symbols /\ None \notin Symbols \cup Nat
  /\ NumTrades \in Nat
  /\ SymbolOf \in [Trades -> Symbols]
  /\ MinuteOf \in [Trades -> Nat]
  /\ \A t, u \in Trades : t <= u => MinuteOf[t] <= MinuteOf[u]
  /\ Skew \in Nat /\ MaxBuffer \in Nat \ {0} /\ MaxRevisions \in Nat

Workers == {"feed", "manual", "resync", "switch"}

VARIABLES
  symbol,      \* App.symbol
  feedSymbol,  \* the symbol feed_task was started for, None without one
  socket,      \* its WebSocket is open
  pc,          \* pc[w]: where worker w is; "rest" holds refresh_lock
  target,      \* the symbol being switched to, or mounted
  req,         \* req[w]: what w noted before its REST await, and its reply
  snap,        \* the symbol of self.snapshot
  shown,       \* symbols whose data is in snapshot, book, tape, quote, candles
  count,       \* count[t]: how often trade t is counted in _live_candles
  price,       \* the trade current_price comes from
  tick,        \* last_tick_monotonic, as the first trade not before it, or None
  revision,    \* _live_candle_revision
  buffer,      \* _live_trade_buffer
  streamLive, connState,
  protocolDegraded, candleDegraded, indicatorDegraded,
  executed,    \* the market: trades executed so far
  clock,       \* the last trade whose time the app's clock has reached
  lastRev,     \* history: the revision trade t was last recorded with, or 0
  syncStart    \* history: the revision the last applied sync started from

taskVars == <<feedSymbol, socket, pc, target, req>>
dataVars == <<symbol, snap, shown, count, price, tick, revision, buffer>>
stateVars == <<streamLive, connState, protocolDegraded, candleDegraded, indicatorDegraded>>
historyVars == <<lastRev, syncStart>>
marketVars == <<executed, clock>>
vars == <<taskVars, dataVars, stateVars, marketVars, historyVars>>

NoRequest == [symbol |-> None, start |-> 0, live |-> FALSE, quote |-> None, candles |-> None]

(* connection_state: LIVE, or one of the states in which nothing can be    *)
(* ordered (STARTING, SYNCING, DEGRADED, ERROR and the like).              *)
ConnStates == {"LIVE", "SHUT"}

TypeOK ==
  /\ symbol \in Symbols
  /\ feedSymbol \in Symbols \cup {None}
  /\ socket \in BOOLEAN
  /\ pc \in [Workers -> {"idle", "cancelling", "want", "rest"}]
  /\ target \in Symbols \cup {None}
  /\ \A w \in Workers :
       /\ req[w].symbol \in Symbols \cup {None}
       /\ req[w].start \in 0 .. MaxRevisions
       /\ req[w].live \in BOOLEAN
       /\ {req[w].quote, req[w].candles} \subseteq {0, None} \cup Trades
  /\ snap \in Symbols \cup {None}
  /\ shown \subseteq Symbols
  /\ count \in [Trades -> Nat]
  /\ {price, executed, clock} \subseteq {0} \cup Trades /\ tick \in {0, None} \cup Trades
  /\ revision \in 0 .. MaxRevisions
  /\ buffer \in Seq((1 .. MaxRevisions) \X Trades) /\ Len(buffer) <= MaxBuffer
  /\ connState \in ConnStates
  /\ {streamLive, protocolDegraded, candleDegraded, indicatorDegraded} \subseteq BOOLEAN
  /\ lastRev \in [Trades -> 0 .. MaxRevisions]
  /\ syncStart \in 0 .. MaxRevisions

NoTrades == [t \in Trades |-> 0]

Init ==
  /\ symbol = First
  /\ feedSymbol = None /\ socket = FALSE
  /\ pc = [w \in Workers |-> IF w = "switch" THEN "want" ELSE "idle"]
  /\ target = First
  /\ req = [w \in Workers |-> NoRequest]
  /\ snap = None /\ shown = {} /\ count = NoTrades
  /\ price = 0 /\ tick = None
  /\ revision = 0 /\ buffer = << >>
  /\ streamLive = FALSE /\ connState = "SHUT"
  /\ protocolDegraded = FALSE /\ candleDegraded = FALSE /\ indicatorDegraded = FALSE
  /\ executed = 0 /\ clock = 0
  /\ lastRev = NoTrades /\ syncStart = 0

-----------------------------------------------------------------------------
(* The exchange (external): what its REST answers say at moment e. *)
RestCandles(s, e) == [t \in Trades |-> IF t <= e /\ SymbolOf[t] = s THEN 1 ELSE 0]

RestPrice(s, e) ==
  LET known == {t \in Trades : t <= e /\ SymbolOf[t] = s}
  IN  IF known = {} THEN 0 ELSE CHOOSE t \in known : \A u \in known : u <= t

(* apply_trade_to_candles: a trade older than the newest candle is ignored. *)
Late(c, t) == \E u \in Trades : c[u] > 0 /\ MinuteOf[u] > MinuteOf[t]

Fold(c, t) == IF Late(c, t) THEN c ELSE [c EXCEPT ![t] = @ + 1]

ReplayEverything(w) == 1 .. Len(buffer)  \* mutant: the revision is not compared

(* What arrived while w waited for its reply: its places in the buffer.    *)
Replay(w) == {i \in 1 .. Len(buffer) : buffer[i][1] > req[w].start}

ReplayedOnto(c, places) ==
  LET counted[i \in 0 .. Len(buffer)] ==
        IF i = 0 THEN c
        ELSE IF i \in places THEN Fold(counted[i - 1], buffer[i][2])
        ELSE counted[i - 1]
  IN  counted[Len(buffer)]

(* _render_stats, the end of most handlers, which leave state s: it cannot *)
(* always compute the indicators.                                          *)
RenderStats(s) ==
  \/ connState' = s /\ UNCHANGED indicatorDegraded
  \/ /\ snap # None
     /\ connState' = "SHUT"
     /\ indicatorDegraded' = TRUE

SetCandleDegraded ==
  /\ candleDegraded' = TRUE
  /\ connState' = IF streamLive THEN "SHUT" ELSE connState

(* _tick_monotonic_for_timestamp, for the time of trade t: never ahead of  *)
(* the app's clock (which is past the trade clock and short of the next),  *)
(* and None when the trade is ahead of it by more than the tolerance.      *)
TickOf(t) ==
  IF t <= clock THEN t ELSE IF t <= clock + Skew THEN clock + 1 ELSE None

-----------------------------------------------------------------------------
(* Refreshes.  A worker gets refresh_lock, and then notes symbol, revision *)
(* and stream state.  That the operator and the resync wait for the lock is*)
(* no state of its own: they note nothing before, except that the resync   *)
(* has seen a snapshot.  A switch that took the snapshot away comes after  *)
(* it in the queue.                                                        *)
Asks(w) ==
  \/ w \in {"feed", "switch"} /\ pc[w] = "want"
  \/ w = "manual" /\ pc[w] = "idle"
  \/ w = "resync" /\ pc[w] = "idle" /\ (snap # None \/ pc["switch"] = "want")

LockFree == \A w \in Workers : pc[w] # "rest"

Begin(w) ==
  /\ Asks(w)
  /\ LockFree
  /\ pc' = [pc EXCEPT ![w] = "rest"]
  /\ req' = [req EXCEPT ![w] = [NoRequest EXCEPT !.symbol = symbol, !.start = revision,
                                                 !.live = streamLive /\ w # "resync"]]
  /\ connState' = IF w = "resync" THEN connState ELSE "SHUT"
  /\ UNCHANGED <<feedSymbol, socket, target, dataVars, streamLive, protocolDegraded,
                 candleDegraded, indicatorDegraded, marketVars, historyVars>>

(* The exchange reads the quote first, the candles later (external). *)
ReadQuote(w) ==
  /\ pc[w] = "rest" /\ w # "resync"
  /\ req[w].quote = None
  /\ req' = [req EXCEPT ![w].quote = RestPrice(req[w].symbol, executed)]
  /\ UNCHANGED <<feedSymbol, socket, pc, target, dataVars, stateVars, marketVars, historyVars>>

ReadCandles(w) ==
  /\ pc[w] = "rest"
  /\ w # "resync" => req[w].quote # None
  /\ req[w].candles = None
  /\ req' = [req EXCEPT ![w].candles = executed]
  /\ UNCHANGED <<feedSymbol, socket, pc, target, dataVars, stateVars, marketVars, historyVars>>

TakeCandles(w) ==
  /\ count' = ReplayedOnto(RestCandles(req[w].symbol, req[w].candles), Replay(w))
  /\ candleDegraded' = FALSE
  /\ syncStart' = req[w].start

(* The worker leaves the lock; the switch then starts the feed. *)
LeaveRefresh(w) ==
  /\ pc' = [pc EXCEPT ![w] = "idle"]
  /\ req' = [req EXCEPT ![w] = NoRequest]
  /\ IF w = "switch"
     THEN feedSymbol' = target /\ socket' = FALSE /\ target' = None
     ELSE UNCHANGED <<feedSymbol, socket, target>>

TakeAnyReply(w) == TRUE                \* mutant: the symbol is not compared

StillWanted(w) == symbol = req[w].symbol

(* A snapshot reply arrives, for the symbol that is still active.  Its     *)
(* price may come without a timestamp.  It is rendered before the feed's   *)
(* own refresh sets its state.                                             *)
SnapshotApplied(w) ==
  /\ w # "resync"
  /\ pc[w] = "rest" /\ req[w].candles # None
  /\ StillWanted(w)
  /\ TakeCandles(w)
  /\ snap' = req[w].symbol
  /\ shown' = {req[w].symbol}
  /\ price' = IF Replay(w) = {} THEN req[w].quote ELSE buffer[Max(Replay(w))][2]
  /\ tick' \in {TickOf(price')} \cup (IF Replay(w) = {} THEN {None} ELSE {})
  /\ indicatorDegraded' \in BOOLEAN
  /\ connState' = CASE w = "feed" -> "LIVE"
                    [] w # "feed" /\ indicatorDegraded' -> "SHUT"
                    [] w # "feed" /\ ~indicatorDegraded' /\ req[w].live -> "LIVE"
                    [] OTHER -> connState
  /\ protocolDegraded' = (protocolDegraded /\ ~req[w].live)
  /\ LeaveRefresh(w)
  /\ UNCHANGED <<symbol, revision, buffer, streamLive, marketVars, lastRev>>

CandlesApplied ==
  LET w == "resync" IN
  /\ pc[w] = "rest" /\ req[w].candles # None
  /\ StillWanted(w) /\ snap # None
  /\ TakeCandles(w)
  /\ shown' = shown \cup {req[w].symbol}
  /\ RenderStats(IF streamLive /\ ~protocolDegraded /\ ~indicatorDegraded
                 THEN "LIVE" ELSE connState)
  /\ LeaveRefresh(w)
  /\ UNCHANGED <<symbol, snap, price, tick, revision, buffer, streamLive,
                 protocolDegraded, marketVars, lastRev>>

(* The reply is for a symbol that is no longer active, or the stock of the *)
(* snapshot is not spelled as the symbol that was asked for.               *)
ReplyDiscarded(w) ==
  /\ pc[w] = "rest" /\ req[w].candles # None
  /\ ~StillWanted(w) \/ w # "resync" \/ snap = None
  /\ connState' = IF w = "feed" THEN "SHUT" ELSE connState
  /\ LeaveRefresh(w)
  /\ UNCHANGED <<dataVars, streamLive, protocolDegraded, candleDegraded, indicatorDegraded,
                 marketVars, historyVars>>

RefreshFails(w) ==
  /\ pc[w] = "rest"
  /\ IF w = "resync" THEN SetCandleDegraded /\ UNCHANGED protocolDegraded
     ELSE /\ connState' = "SHUT"
          /\ protocolDegraded' = (protocolDegraded /\ ~req[w].live)
          /\ UNCHANGED candleDegraded
  /\ LeaveRefresh(w)
  /\ UNCHANGED <<dataVars, streamLive, indicatorDegraded, marketVars, historyVars>>

-----------------------------------------------------------------------------
(* The feed task at its `async for`: one action per event of the stream.   *)
(* It returns when App.symbol is no longer the symbol it was started for.  *)
FeedListens == feedSymbol # None /\ symbol = feedSymbol /\ pc["feed"] = "idle"

(* connecting, reconnecting: no socket; connected: not yet subscribed. *)
StreamConnects ==
  /\ FeedListens
  /\ socket' \in BOOLEAN
  /\ streamLive' = FALSE /\ protocolDegraded' = FALSE
  /\ connState' = "SHUT"
  /\ UNCHANGED <<feedSymbol, pc, target, req, dataVars, candleDegraded,
                 indicatorDegraded, marketVars, historyVars>>

Subscribed ==
  /\ FeedListens /\ socket
  /\ streamLive' = TRUE /\ protocolDegraded' = FALSE
  /\ connState' = "SHUT"
  /\ pc' = [pc EXCEPT !["feed"] = "want"]
  /\ UNCHANGED <<feedSymbol, socket, target, req, dataVars, candleDegraded,
                 indicatorDegraded, marketVars, historyVars>>

(* error reconnects; auth_error and rejected end the feed. *)
StreamError ==
  /\ FeedListens
  /\ socket' = FALSE
  /\ streamLive' = FALSE /\ protocolDegraded' = FALSE
  /\ connState' = "SHUT"
  /\ feedSymbol' \in {feedSymbol, None}
  /\ UNCHANGED <<pc, target, req, dataVars, candleDegraded,
                 indicatorDegraded, marketVars, historyVars>>

ProtocolError ==
  /\ FeedListens /\ socket
  /\ protocolDegraded' = (protocolDegraded \/ streamLive)
  /\ connState' = "SHUT"
  /\ UNCHANGED <<taskVars, dataVars, streamLive, candleDegraded,
                 indicatorDegraded, marketVars, historyVars>>

RecoverBlindly ==                      \* mutant: the candles are not asked
  protocolDegraded /\ streamLive /\ ~indicatorDegraded

ProtocolRecovers ==
  protocolDegraded /\ streamLive /\ ~indicatorDegraded /\ ~candleDegraded

Recover ==
  /\ protocolDegraded' = (protocolDegraded /\ ~ProtocolRecovers)
  /\ RenderStats(IF ProtocolRecovers THEN "LIVE" ELSE connState)

Buffered(b, entry) == IF Len(b) < MaxBuffer THEN Append(b, entry) ELSE Append(Tail(b), entry)

Record(t) ==
  /\ count' = Fold(count, t)
  /\ revision' = revision + 1
  /\ buffer' = Buffered(buffer, <<revision', t>>)
  /\ lastRev' = [lastRev EXCEPT ![t] = revision']

AnyTrade(t) == TickOf(t) # None        \* mutant: the two times are not compared

Fresh(t) ==
  /\ TickOf(t) # None
  /\ tick # None => TickOf(t) >= tick

(* A trade that is folded, or has no snapshot to be folded into. *)
TradeArrives(t) ==
  /\ FeedListens /\ socket /\ SymbolOf[t] = feedSymbol /\ t <= executed
  /\ Fresh(t) /\ ~Late(count, t)
  /\ revision < MaxRevisions
  /\ Recover
  /\ IF snap = None THEN UNCHANGED <<count, revision, buffer, lastRev>> ELSE Record(t)
  /\ shown' = shown \cup {feedSymbol}
  /\ tick' = TickOf(t) /\ price' = t
  /\ UNCHANGED <<taskVars, symbol, snap, streamLive, candleDegraded, marketVars, syncStart>>

(* A trade older than the clock only goes to the tape; one older than the  *)
(* newest candle also renews the clock.                                    *)
OldTradeArrives(t) ==
  /\ FeedListens /\ socket /\ SymbolOf[t] = feedSymbol /\ t <= executed
  /\ ~Fresh(t) \/ Late(count, t)
  /\ Recover
  /\ tick' = IF Fresh(t) THEN TickOf(t) ELSE tick
  /\ shown' = shown \cup {feedSymbol}
  /\ UNCHANGED <<taskVars, symbol, snap, count, price, revision, buffer, streamLive,
                 candleDegraded, marketVars, historyVars>>

(* The candles refuse the trade (ValueError: another currency). *)
TradeNotFolded(t) ==
  /\ FeedListens /\ socket /\ SymbolOf[t] = feedSymbol /\ t <= executed
  /\ Fresh(t) /\ snap # None
  /\ candleDegraded' = TRUE
  /\ protocolDegraded' = (protocolDegraded /\ ~ProtocolRecovers)
  /\ RenderStats(IF streamLive THEN "SHUT" ELSE connState)
  /\ shown' = shown \cup {feedSymbol}
  /\ tick' = TickOf(t) /\ price' = t
  /\ UNCHANGED <<taskVars, symbol, snap, count, revision, buffer, streamLive,
                 marketVars, historyVars>>

(* An order book.  A trade whose time is missing or cannot be read is kept *)
(* on the tape only, so it changes the same here.                          *)
BookArrives ==
  /\ FeedListens /\ socket
  /\ Recover
  /\ shown' = shown \cup {feedSymbol}
  /\ UNCHANGED <<taskVars, symbol, snap, count, price, tick, revision, buffer, streamLive,
                 candleDegraded, marketVars, historyVars>>

(* The operator chooses another chart interval. *)
ChartModeChosen ==
  /\ RenderStats(connState)
  /\ UNCHANGED <<taskVars, dataVars, streamLive, protocolDegraded, candleDegraded,
                 marketVars, historyVars>>

-----------------------------------------------------------------------------
(* The symbol switch, one at a time (switch_lock). *)
FeedKeepsLock == pc["feed"]            \* mutant: a cancelled refresh keeps it

FeedAfterCancel == "idle"

(* The old feed is cancelled at its await and waited for; meanwhile the    *)
(* old symbol is still active.                                             *)
SwitchRequested(s) ==
  /\ pc["switch"] = "idle"
  /\ s # symbol
  /\ target' = s
  /\ feedSymbol' = None /\ socket' = FALSE
  /\ pc' = [pc EXCEPT !["switch"] = "cancelling", !["feed"] = FeedAfterCancel]
  /\ req' = [req EXCEPT !["feed"] = NoRequest]
  /\ UNCHANGED <<dataVars, stateVars, marketVars, historyVars>>

ClearScreen ==
  /\ snap' = None /\ shown' = {} /\ count' = NoTrades
  /\ price' = 0 /\ tick' = None
  /\ revision' = 0 /\ buffer' = << >>
  /\ lastRev' = NoTrades /\ syncStart' = 0

SwitchSymbol ==
  /\ pc["switch"] = "cancelling"
  /\ symbol' = target
  /\ ClearScreen
  /\ streamLive' = FALSE /\ protocolDegraded' = FALSE
  /\ candleDegraded' = FALSE /\ indicatorDegraded' = FALSE
  /\ connState' = "SHUT"
  /\ pc' = [pc EXCEPT !["switch"] = "want"]
  /\ UNCHANGED <<feedSymbol, socket, target, req, marketVars>>

-----------------------------------------------------------------------------
Execute ==                             \* a trade on the exchange (external)
  /\ executed + 1 \in Trades
  /\ executed' = executed + 1
  /\ UNCHANGED <<taskVars, dataVars, stateVars, clock, historyVars>>

(* The app's clock goes on (external); further than the last trade makes no *)
(* difference to any trade there is.                                       *)
TimePasses ==
  /\ clock < executed
  /\ clock' = clock + 1
  /\ UNCHANGED <<taskVars, dataVars, stateVars, executed, historyVars>>

(* A cancelled feed does nothing more. *)
Refresh(w) ==
  /\ w = "feed" => feedSymbol # None
  /\ \/ ReadQuote(w) \/ ReadCandles(w) \/ SnapshotApplied(w) \/ ReplyDiscarded(w)
     \/ RefreshFails(w) \/ (w = "resync" /\ CandlesApplied)

FeedEvent ==
  \/ StreamConnects \/ Subscribed \/ StreamError \/ ProtocolError \/ BookArrives
  \/ \E t \in Trades : TradeArrives(t) \/ OldTradeArrives(t) \/ TradeNotFolded(t)

Next ==
  \/ \E w \in Workers : Begin(w) \/ Refresh(w)
  \/ FeedEvent \/ ChartModeChosen
  \/ \E s \in Symbols : SwitchRequested(s)
  \/ SwitchSymbol
  \/ Execute \/ TimePasses

Spec == Init /\ [][Next]_vars

(* Requests have timeouts, a cancelled feed ends, and refresh_lock is      *)
(* first come, first served; nothing is asked of those who do not hold it. *)
FairSpec ==
  /\ Spec
  /\ SF_vars(Begin("switch")) /\ WF_vars(SwitchSymbol)
  /\ \A w \in Workers : WF_vars(Refresh(w))

-----------------------------------------------------------------------------
(* Nothing of another symbol is ever on the screen of the active one: not  *)
(* from a reply that was under way during a switch, nor from its feed.     *)
NoForeignData == shown \cup {snap} \subseteq {symbol, None}

(* No trade that was folded into the candles is lost by a refresh that was *)
(* under way (unless more than MaxBuffer came meanwhile), and every trade  *)
(* folded before the last sync began is counted exactly once after it,     *)
(* however often the WebSocket delivered it (README, data behaviour 5).    *)
CandlesAreExact ==
  \A t \in Trades : lastRev[t] # 0 =>
    /\ revision - lastRev[t] < MaxBuffer => count[t] >= 1
    /\ lastRev[t] <= syncStart => count[t] = 1

(* No trade older than the quote is as new as last_tick_monotonic: the     *)
(* quote came with a time, and the app's clock was not behind it.          *)
QuoteIsTimed == tick # None /\ tick >= price

(* While there is a snapshot, the candles are in sync and the quote is     *)
(* timed, no event and no refresh, in whatever order they come and finish, *)
(* moves the quote of a symbol back in time.  (A quote without a time, or  *)
(* of a time ahead of the app's clock, is replaced by an older trade.)     *)
QuoteNeverGoesBack ==
  [][symbol' = symbol /\ snap # None /\ ~candleDegraded /\ QuoteIsTimed => price' >= price]_vars

(* On a live stream the state LIVE is not shown over a pending protocol    *)
(* error or candles that failed to sync: those open the order gate again.  *)
LiveIsUndegraded ==
  connState = "LIVE" /\ streamLive => ~protocolDegraded /\ ~candleDegraded

(* A symbol switch always comes to an end, whatever refresh it waits for.  *)
SwitchEnds == pc["switch"] # "idle" ~> pc["switch"] = "idle"
=============================================================================
