# toss-market-terminal: specifications and proofs

TLA+ specifications of the terminal's concurrent and stateful core, the TLC configurations
that check them on small instances, and the theorems that TLAPS proves of them for every
value of the constants. Source paths below are relative to `src/toss_market_terminal/`;
`README:n` is line n of the repository's own README. `PROJECT.json` maps every definition
that models code to its lines, and lists the runs, the mutants, the hazards and the
theorems.

    tlc -workers 2 -config MCLiveOrder.cfg MCLiveOrder      # one run
    tlapm LiveOrderProofs.tla                               # one proof module

## 1. Inventory

One operator runs one Textual process (the TUI) on one asyncio event loop. Its coroutines
interleave at every `await`; two kinds of work leave the loop: the live POST and the audit
file operations run in threads. Other CLI commands are processes of their own, kept apart
by a file lock. The brokerage API and its WebSocket are the outside world.

| Part | State it keeps | Operations | What makes it correct |
|---|---|---|---|
| Live order path (`tui.py` 1391-1716, `live_order.py`, `order_transport.py`, `live_audit.py`) | submit lock, ledger of attempted fingerprints, plan, outcome, cancellation flag; the audit file | confirm, approve, four preflight awaits, reserve, POST once, append, reconcile, quit | at most one POST per fingerprint; never a POST without evidence; audit lines are true; a timeout is never a rejection; the lock is given back |
| Token cache (`client.py` 118-207) | token, expiry, lock | `access_token`, drop-if-stale, one retry after a 401 | issuing invalidates the former token, so no needless issuance; one retry suffices; nobody is stuck behind a cancelled coroutine |
| API session lock (`api_session_lock.py`, `cli.py` 369-391) | a file, its flock, a pid marker | acquire, release, death of the process | one session at a time, over create races and stale files |
| Market feed (`tui.py` 1889-2491, `stream.py`, `live_chart.py`) | symbol, snapshot, live candles, trade buffer and revision, quote clock, connection and degradation flags | stream events, manual refresh, candle resync, chart mode, symbol switch | only data of the active symbol, each trade counted once, a timed quote that never goes back, LIVE only when nothing is degraded |
| Account state (`tui.py` 1058-1227, 1669-1716) | portfolio and closed orders, stale flags, locks, wakeup event | polls, operator refresh, reconciliation merge | no history of another account, no lost wakeup, "full" only when it is |
| Settings and alerts (`settings.py`, `alerts.py`) | rules with ids in a file; last condition per id in memory | add, remove, evaluate on an edge | no id given twice, one firing per crossing of the prices it sees |
| Watchlist poll (`tui.py` 1889-1922) | prices of the other symbols | poll, evaluate | fresh prices only |
| Stream (`stream.py`) | attempt, connection, keepalive task, watchdog | connect, subscribe, read, ping, reconnect | events in the order the feed relies on; a quiet connection is kept, a dead one replaced; back off until a subscription is acknowledged |
| Audit file (`live_audit.py`) | a file, its flock | prepare, append, fsync | a reported record is whole and survives; only a torn line is shared |
| Ticket, confirmation, approval (`order_ticket.py`, `live_ticket.py`, `tui.py` 1229-1434) | a stack of modal screens with timers, callbacks under way, the ticket lock | open, build, expire, confirm, arm, approve | one order at a time, on the symbol shown, while the facts are valid, after a pause |
| Order preview, risk gate, pre-trade facts (`order_preview.py`, `pretrade.py`, part of `live_order.py`) | none | notional, limits, sellable quantity, six facts | the facts announce what the gates enforce; fail closed |
| Candles, indicators, readings, direction (`live_chart.py`, `indicators.py`, `interpretation.py`, `ai_direction.py`) | none | pure functions of candles, trades and the book | agree with their definitions, even-handed, no look into the future |
| Figures and portfolio view (`render.py`, `portfolio.py`) | none | day figures, pressure, columns, weights, totals | add up, per currency |
| Models, layout, CLI, onboarding, config, demo | none or files of their own | parse, format, prompt | data validation and layout |

How they interact: the CLI takes the session lock for the life of a command and builds one
client; every REST call of the client goes through the token cache; the feed, the polls
and the workers of the TUI share that client and the app's fields. The ticket reads the
account, builds its preview through the risk gate and hands an approved plan to the live
worker, which runs the same gate again and appends to the audit file. The stream is a
generator that the feed task iterates over: it is suspended inside a `yield` while the
feed works. A symbol switch cancels the feed task; quitting cancels every worker; the
portfolio refresh wakes the history poller; the live worker ends in the reconciliation,
which merges into the portfolio and then calls its refresh. Serialisation comes only from
the `asyncio.Lock`s in the code: nothing is assumed of the order in which Textual runs
handlers and workers.

What is hard here: state read before an `await` and used after it; replies applied in
another order than they were requested; cancellation at every `await`; a POST whose answer
is lost; a process that dies between two durable steps; siblings that share a credential.
`PROJECT.json` lists each such hazard at its line with the property that watches it, or
says why none does yet.

## 2. Modules

| Module | Models | Runs | Proofs |
|---|---|---|---|
| `OneShotOrder` | what the live path promises: reserve, then send at most once, forget only with the process | through `LiveOrder` | refinement |
| `LiveOrder` | the live worker, executor, transport, audit append, broker, quit, crash | `live_order`, `live_order_stale` | `LiveOrderProofs` |
| `AuditLog` | what an append promises: stored and kept before it is reported | through `AuditFile` | refinement |
| `AuditFile` | `LiveAuditLog.prepare` and `append`, several processes, a power loss | `audit_file` | `AuditFileProofs` |
| `OrderTicket` | ticket, confirmation and approval on the way to the live worker | `order_ticket` | `OrderTicketProofs` |
| `TokenCache` | `access_token`, `_invalidate_token_if_stale`, the retry of `_request_json` | `token_cache` | `TokenCacheProofs` |
| `SessionLock` | `ApiSessionLock.acquire` and `release`, the commands around it | `session_lock` | `SharedFileProofs` |
| `MarketFeed` | feed task, refreshes, resync, switch, buffer and replay | `market_feed` | `MarketFeedProofs` |
| `StreamProtocol` | which event of the stream may follow which | through `Stream` | refinement |
| `Stream` | the generator `events()`, its keepalive task and watchdog, against a server and a clock | `stream` | `StreamProofs` |
| `Portfolio` | portfolio and history refreshes, poller, reconciliation | `portfolio`, `portfolio_trust` | `FiguresProofs` |
| `Alerts` | alert rules in the settings file and their writers, the evaluator, the watchlist poll beside the feed | `alerts` | `SharedFileProofs` |
| `Pretrade` | risk gate, preview, the six facts, the gates of plan and submission | `calculations` | `FiguresProofs` |
| `PortfolioView` | weights, totals and sellable quantities of the portfolio screen | `calculations` | `FiguresProofs` |
| `Candles` | folding live trades into candles, limits, clocks, aggregation | `calculations` | `FiguresProofs` |
| `Indicators` | averages, VWAP, RSI, relative volume, swings and levels | `calculations` | `FiguresProofs` |
| `MarketMetrics` | figures of the day, book and tape, columns of a narrow chart | `calculations` | `FiguresProofs` |
| `Interpretation` | the reading of one timeframe and of several | `calculations` | `FiguresProofs` |
| `DirectionSignal` | splits, horizons and gates of the direction signal | `calculations` | `FiguresProofs` |
| `Calculations` | which calculation the code asks for, and on which inputs | `calculations` | `FiguresProofs` |

`MC*` modules only give the constants their small values. `Absent` declares the `None` that
the account of the TUI and the calculations share.

### LiveOrder

`pc[p]` is the await or thread step of the worker of plan `p`: `context`, `orders`,
`prepare`, `token` are the four awaits of the preflight; `thread`, `posting`, `append` are
covered by `_to_thread_uninterruptibly`; `reconcile` is the last await. Everything the
code does between two awaits is one action: `Enter` is the whole entry of
`_submit_live_plan` with its five early returns, `TokenReady` reserves the fingerprint
(tui.py:1580) and starts the thread. A plan is an object, an intent stands for its SHA-256
fingerprint, and two plans may have one intent: the user can preview the same order twice.
The broker is external and may open or refuse the order, or never see it, at any time
after the POST, also after the client gave up or the process died. `ResultsFor` is the
transport's classification: only a strict answer counts as accepted and only a status of
the reject set as rejected; everything else is ambiguous. `Quit` cancels every worker at
its await, except a shielded one, which notes the request and honours it after the append.
`Crash` and `Relaunch` forget the memory; the broker and the audit file remain.

Abstracted: the gates that are constant within a process started by `live` (flags,
phrase); the arithmetic of the repeated risk gate (its verdict is the branch between
`PreflightStep` and `PreflightFails`; the arithmetic is in `Pretrade`); the text of
records. An append is one step here, and `AuditFile` shows why it may be. The dialogs
before the approval are `OrderTicket`.

### AuditFile

The file is a sequence of pieces, a record is `Size` of them, of which the last holds the
newline, and `os.write` may write fewer than asked. `durable` is the length that survives
a power loss; `fsync` moves it to the end. The create race, the flock, each failing call,
the death of one process and a power loss are actions. A record counts for `AuditLog` once
all its pieces are contiguous and durable. Assumed of the file system: `fsync` of a new
file makes its directory entry durable too. The ownership and mode checks are one failing
branch.

### OrderTicket

The screens are a stack; a dismissal puts a result into `callbacks`, and the app's
callback runs later, after ticks, timers or a symbol switch. Time passes in ticks and a
timer may fire late, which is why the code compares deadlines as well. `opening[p]` is the
worker of one key press: it tests `_ticket_open_lock`, awaits the account under it, and
opens the ticket unless the answer is of another symbol than the captured one. A preview
is known by its symbol; whether its input is well formed and passes the gate is a branch.
Keys typed ahead of a callback that has not run are left out.

### TokenCache

The holder and the FIFO queue of `asyncio.Lock` are explicit. A reader retries once after
a 401 (`attempt`); a `Callers \ Readers` coroutine uses a token once, as the live path and
the stream do. The provider's `valid` token changes when one is issued, so an issuance too
many is visible as damage. `losses` counts the ways in which the token in use is lost:
margin reached, revoked, or issued but never cached because the caller failed or was
cancelled.

### SessionLock

An inode model of the lock file: `path` is the inode the path names, `fd[c]` the one the
process of a command opened, `owner[i]` the flock. Release leaves the file in place, which is what
keeps all flocks on one inode; the mutant that unlinks it breaks the token.

### MarketFeed

A trade is its number in the order of execution. `count[t]` says how often trade `t` is
counted in the live candles, which is all that the exactness of OHLCV needs. The feed and
the switch wait for `refresh_lock` at `want`; whoever is at `rest` holds it and awaits
REST. That the operator's refresh and the resync wait for it is no state of its own: they
note nothing before they have it (`Asks`). The quote and the candles of a snapshot are read
at two moments, in the order in which `snapshot()` requests them. A reply is applied with
the replay of the trades recorded since the revision noted at the start; the buffer drops
its oldest entry when it is full. The feed is cancelled at its await by a switch, also in
the middle of its own refresh. Rendering at the end of a handler may fail and degrade the
indicators (`RenderStats`). Of the states of the connection `connState` tells LIVE apart from
those in which the order gate is shut.

A trade's number is also its provider timestamp. The app's UTC clock is measured alike:
`clock` is the last trade whose time it has reached, it may lag behind the exchange, it
goes on and is not set while the app runs, and the code's two readings of it and of the
monotonic clock are taken as one instant. `TickOf` is the conversion of a timestamp to the
monotonic clock (tui.py:2202-2225): a time ahead of the app's clock becomes now, one that
is ahead by more than the tolerance (`Skew`, 30 s in the code) has none. `tick` is the time
of the price, or of a later trade too old for the candles, and None after a switch and
after a snapshot whose price came without a time that can be trusted; then any trade with a
time is `Fresh`. So `QuoteNeverGoesBack` is about a step that begins with a snapshot, with
candles in sync and with a timed quote (`QuoteIsTimed`: its tick is the time of its own
trade). A trade without a readable time goes to the tape and nowhere else (`BookArrives`).

The events of the stream arrive here in every order that needs no more than a socket where
the event comes from one; `StreamProtocol` says which orders the generator really produces,
which are fewer. The two modules are not composed.

### Stream

The generator runs until a `yield` and stays there until the feed asks for the next event,
so `pc` is an await (`token`, `dial`, `recv`, `sleep`) or `yield`. The keepalive task
counts `ping` beside it. The server and the network are external: frames of every kind, a
connection that closes, and one that stays open but delivers nothing (`dead`). Time passes
only while nobody in the program can go on, and a server that is alive answers a PING
within `PongWithin`: the silence limit is about such servers. Left out: the jitter of the
delay, and the contents of frames (a frame that cannot be read is `bad`).

### Portfolio

The broker is a clock: `moment` counts the events of the account's orders and a reply
carries the moment it was read at, so "older" is a comparison of numbers. Every refresh
gives up at once when its lock is taken, as the code does. The account may change under
the app (the only brokerage account is selected at each load).

### Alerts

A price is the number of times its symbol has crossed the threshold, so it is above after
an odd number of crossings, and "an older price" is a smaller number. Every writer of the
settings file (`alerts add`, `alerts remove`, `watchlist add` and `remove`, the TUI's own
watchlist command) loads it and later replaces it with what it made of what it had loaded:
updates can be lost, an id can come back for another rule (`reused`), and the TUI takes
the file's rules over only when it adds a symbol. `conditions` is the evaluator's memory
per id; the active symbol feeds it from snapshots and trades, the other symbols from the
poll. Neither source is in order. The active symbol is evaluated at any price of now or of
before: its first price after a switch, a snapshot after trades that came while there was
none (they are not buffered, so it does not replay them), and trades while the quote has no
time or the candles refuse them may be older than what was evaluated last. The poll's
answer may be older for a symbol that was active at some time during it (`visited`).
`last` is the moment a symbol was evaluated at last, `rewound` how many crossings those
moments went back over, at most `MaxBack`; `fires` and `base` say what was shown and from
when on. `OneAlertPerCrossing` allows an alert per crossing of the market and one more per
crossing gone back over. The code promises nothing about lost updates, so no property does.

### The calculations

These modules are operators without state. Each translates functions of the source and
ends with statements that say what makes a result true by other means. `Calculations` has
one action per place in the code that asks for a calculation, on an input that the code
can ask it for, with the inputs as constants of which only the type is assumed: one step
chooses a calculation and its input, and the invariants say that its statements hold. Numbers are exact: a ratio is a fraction
or an inequality of products, so the rounding of decimals for display is left out, and a
market stands for its currency. Wording, colours and most thresholds are left out.

* `Pretrade` has one operator per fact and per gate. The facts beside a confirmation and
  the gates of the submission are separate code with the same limits: `FactsMatchTheGates`
  says that one announces exactly what the other enforces, `NoUnfoundedPass` that PASS is
  said only of what is known, fresh and sufficient beside the open orders.
* `Candles` folds trades one at a time, as the feed does; `CandlesMatchTheTrades` compares
  with candles made from the whole set of trades that were not late, over bucket and day
  boundaries and two clocks. Equal candles are told apart by their places (`Members`), so
  that the volume of a longer candle counts each of them.
* `Indicators` and `MarketMetrics`: averages stay inside the candles they are of, VWAP
  inside its session, RSI turns round with the prices, levels enclose the price, few columns keep volume and extremes, and the
  previous close stays where it is when the candle of a new day appears. Of the swings only
  the one at the edge, whose newer side ends with the newest candle, repaints: a candle
  more can confirm it, and takes no other swing away; while the newest candle grows it
  goes when the growing candle reaches it, and comes back for nothing.
* `Interpretation`: a reading turns round with its signals and is unsure without a
  majority; timeframes do not meddle with each other.
* `DirectionSignal`: no validation step learns from labels of its future, a full history
  is enough for the longest horizon, BUY and SELL pass every gate. The features and the
  distances between neighbours are left out.
* `PortfolioView`: each holding counts once, in its own currency, and "sellable" is what a
  ticket may sell.

## 3. Runs

| Run | Bounds | Distinct states | Shows |
|---|---|---|---|
| `live_order` | 3 plans, two with one fingerprint, all on one symbol and side, and another symbol to switch to; 2 lives | 4.3 million | `LockIsTheWorkers`, `NoSilentPost`, `AuditTellsTruth`, `OneOpenOrderPerSide`, refinement of `OneShotOrder` |
| `live_order_stale` | 2 plans, 1 life | | violation of `NoPostOnStaleQuote` |
| `audit_file` | 2 processes, 3 records of 2 pieces | 107 000 | `OnlyTornLinesAreShared`, refinement of `AuditLog`, `EveryAppendEnds` |
| `order_ticket` | 2 symbols, 2 key presses at a time, quote valid for 3 ticks, armed after 2, 2 orders | 27 000 | `OneOrderAtATime`, `ConfirmedWhileFactsValid`, `PreviewIsOfActiveSymbol`, `ApprovedAfterAPause`, `TicketLockIsReleased` |
| `token_cache` | 2 readers, 1 single-use caller, 2 losses | 72 500 | `NoNeedlessIssuance`, `RetryRecovers`, `EveryRequestEnds` |
| `session_lock` | 3 commands, 2 inodes, 3 tokens | 1 300 | `SessionTokenIsValid`, `RefusedOnlyByASession` |
| `market_feed` | 2 symbols, 2 trades in 2 minutes, buffer of 1, 2 revisions, a clock up to 2 trades behind | 237 000 | `NoForeignData`, `CandlesAreExact`, `QuoteNeverGoesBack`, `LiveIsUndegraded`, `SwitchEnds` |
| `stream` | PING every 3 ticks, silence after 5, answer within 1, delays up to 30, 7 attempts, 2 frames unread | 104 000 | `QuietConnectionSurvives`, `KeepaliveHasItsConnection`, `DialsAreSpaced`, refinement of `StreamProtocol`, `DeadConnectionIsReplaced` |
| `portfolio` | 2 accounts, 2 order events, 2 account changes | 1.2 million | `HistoryOfShownAccount`, `NoLostWakeup`, `FullMeansAfterTheOrder` |
| `portfolio_trust` | 1 account, 2 order events | | violation of `TrustedOrdersAreCurrent` |
| `alerts` | 2 ids, 2 kinds of rule of one symbol, 3 crossings, prices that go back over 2 of them, one CLI process with 2 commands, the TUI | 2.4 million | `IdsAreUnique`, `OneAlertPerCrossing` |
| `calculations` | all inputs of the kinds below | 260 000 | `FactsAnnounceTheGates`, `PassIsFounded`, `LiveCandlesAreExact`, `ChartIsTrue`, `PortfolioAddsUp`, `ReadingsAreEvenHanded`, `DirectionIsHonest` |

Deadlock is checked in every run but two: `events()` may end for good (a refused
authorisation, a cancelled feed), and `calculations` takes one step per input.

Why these bounds: the hazards of the live path are about two workers, one fingerprint and
what a former life left behind; a third plan of another fingerprint on the same side adds
the duplicate check, and two lives a restart with an order in flight. Two readers share a
dead token, the third caller takes the lock between them, and a second loss hits the retry.
Three commands are one in a session, one refused and one in the create race. Two trades in
two minutes give a late trade, a trade both in the reply and in the buffer, and a repeated
one; two revisions overflow a buffer of one; and with a tolerance of two a clock that is
right, behind one trade or behind both. Two account changes bring an account back while an
answer for the former one is under way. Three crossings are the fewest after which a rule
may rightly have fired twice; going back over two of them lets it see the first rise again;
one symbol has rules and the other one is there to be switched to; two commands beside the
TUI's own overlap in every order. Two pieces are the fewest that can be torn; with three
records a torn line is followed by a whole one while a third is begun. The ratio of the
stream's timers is that of the code (60, 80 and a prompt answer, as 3, 5 and 1: the two
shares of a ping interval that matter are before and after a late frame), and seven
attempts pass the cap of the delay. Two keys meet in one ticket; a validity of three ticks
lets the facts expire before, at and after a key, and a second order meets the screen of
the first.

The inputs of `calculations` are: orders of quantity 1 to 4 with limits, notional, holding
and buying power below, at and above each other, a quote fresh, stale or without a book,
and all sets of open orders of five kinds; up to three trades (`MaxTrades`) beside a
minute, a longer bucket and a day boundary, from two clocks, with two candles kept; charts
of two to five candles of four shapes over two sessions; daily candles of up to three
days, with and without a gap; books of up to three levels and tapes of up to three trades;
three holdings in two markets with zero and negative values; every vote of a reading; and
histories just below, at and above what each horizon of the direction signal needs.

### The two violations

* `live_order_stale`: the freshness of the quote is tested once (tui.py:1536), before four
  awaits; the quote can go stale during them and the POST is still sent, while README:40
  and README:343 say that live orders are blocked then.
* `portfolio_trust`: a portfolio load that began before the order completes after the
  reconciliation's merge, replaces the newer open orders and clears `portfolio_stale`
  (tui.py:1079, 1091), against tui.py:1336 and README:43.

Five more behaviours are in the models and have no run of their own. A refresh remembers
that the stream was live (tui.py:2169) and shows LIVE when its reply arrives (tui.py:2196),
also when the stream was lost meanwhile. The watchlist poll evaluates a price it read
before the feed evaluated a newer one of the same symbol (tui.py:1913-1918), so a rule can
fire again without a crossing. Without any poll, a trade that came while there was no
snapshot fires a rule and is not buffered (tui.py:2274); the snapshot then sets the older
price of its reply and evaluates it (tui.py:2253, 2269), and the next trade fires the rule
again. `rewound` counts both. While the app's clock is behind the exchange's, within the
tolerance, every time ahead of it becomes now (tui.py:2225), so of two trades in the wrong
order both pass the comparison (tui.py:2407-2409) and the older one becomes the quote; a
snapshot without a time (tui.py:2264) lets any trade pass. The test of it,
src/tests/test_tui.py:396, has a clock ahead of both trades. And with today's daily candle
as the only one, the previous-close level of the indicators is today's own close
(indicators.py:398-405), while the header shows none.

## 4. Fairness

* `LiveOrder`, in `live_order_stale` only: weak fairness of the steps of a started worker.
  Every GET and the POST have HTTP timeouts and a thread's file operations return. The
  operator and the broker owe nothing.
* `TokenCache`: weak fairness of a client's next step; HTTP requests have timeouts and the
  event loop runs what is ready. A lock waiter is granted by the FIFO queue itself.
* `MarketFeed`: weak fairness of each refresh in progress (timeouts again) and of the
  steps of the switch; strong fairness of its taking `refresh_lock`, because
  `asyncio.Lock` serves first come, first served.
* `Stream`: weak fairness of the generator, of the feed that resumes it (what the feed
  awaits has timeouts), of the keepalive and of time. The server owes nothing.
* `AuditFile`: weak fairness of a running process, strong fairness of its `flock`: the
  kernel gives the lock to each process that waits. A killed process owes nothing.
* `OrderTicket`: weak fairness of callbacks and of the account requests, which end with an
  answer or an error. The operator owes nothing.

The other runs check safety and need none; that the submit lock of the live path cannot be
left behind is the invariant `LockIsTheWorkers`.

## 5. Proofs

Assumptions: the named `ASSUME`s of the modules. They say that the functions have their
types, that `None`, `Nobody` and `NoCaller` are none of the things they are told apart
from, that later trades are not of an earlier minute, and that the stream's ping interval
and one round trip are shorter than its silence limit, as 60 and 80 seconds are. Of the
inputs of the calculations `InputsAreTyped` assumes what their constructors check: amounts
are positive, a limit price goes with LIMIT, the close and the open of a candle lie between
its low and its high (models.py:216-246). Beyond the constructors it assumes three things of
the broker, which the code takes as they are: what was paid for a holding is not negative,
daily candles come with the newest first, one for a day, and the clocks of trades are whole
minutes off, as indicators.py:61-64 counts them; longer candles are whole minutes long. The
app's own clock may be wrong but, in `MarketFeed`, is not set while the app runs. `RoomAssumption` says that
the history a request brings leaves room for the longest horizon, with the numbers of
ai_direction.py. Sets of plans, callers, writers, symbols and processes may be infinite,
charts, books, tapes and portfolios of any length, and the bounds are any numbers. Every
theorem below is checked to its last step.

* `LiveOrderProofs`, in three parts. `TypeCorrect`. `LockFollowsTheWorker`: the submit
  lock is held exactly while its worker is between entry and end, in whichever way it
  ends. `OneShotInv` is inductive: whoever works past the entry holds the lock
  (`LockDiscipline`); the fingerprint of a worker in the preflight is not reserved,
  because nobody else can reserve while the lock is held (`CheckStillHolds`); a worker at
  `thread` sends the first POST of its fingerprint (`SendIsFirst`); what was sent is
  reserved (`SentIsReserved`). `AtMostOncePerLife` alone is not inductive: it says nothing
  about the worker that is about to send. `OnePostPerLife` and `RefinesOneShot` follow,
  the latter step by step: `TokenReady` is `Reserve`, `SendPost` is `Send`, a restart is
  `Forget`.
  The evidence: by `EvidenceInv` a posted plan is past `thread`, its answer is kept until
  the append, and its line or warning afterwards; by `TruthInv` what travels was posted, a
  reply is what the broker did, an outcome is what the reply allows, a line is an outcome.
  They give `PostLeavesEvidence` and `AuditIsTrue`.
  The sides: by `SideInv` a POST that travels without a worker waiting for it is
  uncertain, a worker past its duplicate check is alone on its symbol and side except for
  uncertain orders, and so is every open pair. It gives `NoUnexplainedSecondOrder`.
* `AuditFileProofs`. `FileInv`: whoever is between `flock` and `LOCK_UN` is the owner, the
  file ends with what the owner has written of its line, that line is synced once
  `fsync` returned, and a line that is cut is of an append that failed or goes on. It gives
  `LinesAreWhole`, `ReportedIsStored` (what was reported is stored) and
  `AuditFileImplementsAuditLog`: a begun append is asked for, a step that moves the synced
  end of the file stores what is whole before it, a return after a success reports, and
  everything else is nothing to the reader.
* `OrderTicketProofs`. `TicketInv`: at most one key press is at its account request, or
  one screen is up, or one result is on its way (`OneAtATime`); what the operator sees of
  the facts is as old as their validity says (`FactsAgree`), whichever timer is late; an
  approval is armed a full pause after the last Enter (`PauseAhead`). It gives `OneOrder`,
  `ConfirmedInTime` and `ApprovalAfterPause`; `PreviewOfActiveSymbol` needs only the
  comparison in the callback.
* `TokenCacheProofs`. `LockOK` (the queue has no repetition, holds those who want the
  lock, and is empty when nobody holds it; who issues is the holder) gives
  `TokenTypeCorrect`; `TokensOK` accounts each issued token to a loss, the cache or an
  answer under way, and gives `IssuanceIsShared`; `RetryInv` says of a request that no
  loss disturbed that every token on its way is the valid one, except the one it was first
  sent with, and gives `OneRetryIsEnough`.
* `SharedFileProofs`, on the two files that processes share. The session lock: by
  `OneInode` every open descriptor and every flock is of the inode that the path names; by
  `TokenOfSession` a token belongs to a process in a session and is the valid one. They
  give `SessionTypeCorrect`, `TokensAreNotCrossed` and `RefusalHasACause`.
  The alerts: `CopiesAreDistinct` says of every copy of the rules, in the file, in memory
  and in the hands of a writer, that ids are unique; that of the file alone is not
  inductive, as a writer saves what it loaded long ago. It gives `IdsStayUnique`.
  `AlertsInv` adds what the evaluator knows: a rule it has seen was last seen at some
  moment `k` with the remembered condition, not after the last price of its symbol
  (`LastSeen`). It has fired at most as often as its condition came true up to `k`, and
  for what it may fire again from there on, going back to an older price paid in
  `rewound` (`Paid`, `Gap`): `RisesSplit` counts the rises of an interval, `Refired` bounds
  those that are seen again by the crossings gone back over. It gives `AlertsFireOnce`.
  `AlertsTypeCorrect` follows from these facts with `Bounds`: prices and the moments noted
  of a reply are of the market so far.
* `MarketFeedProofs`. `ShownIsActive` from one fact per variable that names a symbol.
  `LiveIsTrue`: a feed that refreshes after its subscription is not in the stream, so no
  event can degrade what it is about to show. `FeedInv` is the inductive invariant of the
  candles and the quote: the buffer holds the last revisions without a gap
  (`BufferIsTheTail`) and its trades in the order of their candles (`BufferIsInOrder`), `lastRev` is where a
  trade is last in it, the reply of a refresh knows every trade recorded before it began
  (`ReplyCoversTheStart`), and either the shown price is not newer than that reply or it
  is the last of the buffer (`PriceIsKnown`). From it a replay counts every trade that the
  reply does not know once: `CandlesCountOnce`. For `QuoteAdvances` a tick is no later than
  the time it was made of (`TickIsNoLater`), so a trade that passes the comparison with a
  timed quote is not older than it, and a replay ends with the last trade that was buffered.
  The replay is a
  recursion over places of the buffer; what it computes is shown by a least
  counterexample on the places (`WFMin` on the natural numbers). `FeedTypeCorrect` follows
  from it with `Flags`, the states of the connection, and from revisions that are counted
  up to their bound (`RevisionsAreBounded`).
* `StreamProofs`. `StreamInv`: which await and event go with which state of the connection
  (`Phases`, `Connections`), how far the watchdog can be behind the keepalive and one
  round trip (`QuietTime`), and which counter the backoff keeps (`Backoff`). It gives
  `QuietIsNotDead`, `KeepaliveDiesWithIt`, `BackoffIsKept`, and
  `StreamImplementsProtocol` step by step: a `yield` is the event it is suspended at,
  everything else a stutter.
* `FiguresProofs`, what is shown of the account and of the market. The state of the
  portfolio: `PortfolioTypeCorrect` includes that each lock is held by exactly the one at
  its await. `HistoryInv`: an answer to a portfolio load comes with the account first, a
  running poller has an account, and the history is the shown account's. It gives
  `HistoryBelongs` and `WakeupIsKept`. `ReadAfterTheOrder`, that the load a reconciliation
  waits for read no orders before its order, gives `FullIsAfterTheOrder`.
  The calculations: `Asked` says that what is calculated has the type of its kind, and the
  rest are lemmas about the operators.
  * `EveryGateIsAnnounced`: the rows that can say BLOCK, case by case against the gates.
    `EveryPassIsFounded`: of all sets of open sales the whole one reserves the most, as
    remaining quantities are not negative (`SumPart`).
  * `EveryPortfolioAddsUp`: totals by currency are a split of one sum (`SumSplit`), weights
    and conversion are linear in it.
  * `EveryReadingIsEvenHanded`: mirrored signals have mirrored votes (`MirroredVotes`), and
    so mirrored counts; of a book with its sides changed, and of a tape with its prices
    mirrored, each part of the sum changes its sign or its side.
  * `EveryDirectionIsHonest`: the last label of a training set is the candle of its own
    validation step; the splits in numbers of candles; and one case per gate.
  * `EveryAverageStaysInside`: a recursive function over the candles exists and obeys its
    recursion (`IterationExists`), and by `EveryNumber` each value of it lies in the hull
    of the candles up to its own: a weighted mean does (`WeightedMean`). The volume ratio
    needs that a finite set has a k-th smallest volume (`RankExists`).
  * `EveryChartIsTrue`: with a candle more all confirmed swings move by one place
    (`PeaksMove`), and when the newest candle grows only the place after the first window
    can cease to be one (`PeaksGrow`), because its newer side alone ends with that candle; levels are at most as many as their names, so that there is a nearest
    one; the columns divide the candles into runs without gap or overlap (`DividedChart`),
    and the volumes of runs add up (`RunsAddUp`).
  * `EveryLiveCandleIsExact`: one trade more, folded into the candles of those that count
    before it, makes the candles of all (`FoldStep`); by `EveryNumber` the folded trades are
    the newest candles of all that count (`FoldedTrades`), in minutes and in days
    (`MinutesMeet`, `DaysMeet`). It needs that numbers have only one falling order
    (`FallingIsOne`), that the newest key so far is that of a trade that counts
    (`NewestCounted`), and that what is cut off at the limit never comes back
    (`KeptGrows`). The buckets of longer candles divide the candles (`FirstOfBuckets`), so
    that no volume is lost (`SumByParts`). On one clock a longer bucket is a run of whole
    minutes (`SpanOfInstant`), and a candle put together from the minutes of a bucket is
    made of the trades of all of them (`MergedIsMade`, `LongerOnOneClock`).

  What they share: a sum over a finite set is unique whatever order it is taken in
  (`SumAdds`, `SumFirst`). Its definition folds over the set with a recursive function
  that chooses an element each time; what is shown of it for every finite set is shown by
  induction over its subsets (`EverySubset`), and what is shown of a series by induction
  over an interval (`EveryNumber`). Both are least-counterexample arguments, of
  `WFMin` on the natural numbers, about sets instead of operators, so that
  the provers can instantiate them.

Out of the prover's reach and only model-checked: liveness under fairness
(`EveryRequestEnds`, `SwitchEnds`, `DeadConnectionIsReplaced`, `EveryAppendEnds`,
`TicketLockIsReleased`) and `ENABLED`. The properties of the
calculations are proved for all inputs. The type invariants are theorems and in no run.

## 6. Not modelled, and the plan

Left out for good, as input and output without a protocol: the layout of tables, the grid
of a candle chart and all texts; onboarding prompts, credential files and the demo data;
the parsing of the fields of a ticket and of provider JSON; request paths and error texts
of the client. The exchange-rate poll has the shape of the history poll without an
account. The two small caches of the terminal for the direction signal and the indicators
(tui.py 2644-2698) save work: one is keyed by the snapshot object, the other one is a
throttle of a few seconds that compares symbol, mode, last candle and staleness. The
features and distances of the direction signal are statistics without a reference
definition in the repository.

Left for the proofs: that the events `MarketFeed` accepts include every order that
`StreamProtocol` allows, so that the two can be composed.
