------------------------------- MODULE Alerts -------------------------------
(***************************************************************************)
(* Local alert rules: the settings file that CLI commands and the TUI load,*)
(* change and replace as a whole, the rules the TUI has in memory, and the *)
(* edge-triggered evaluator, which remembers the last condition per rule   *)
(* id and is fed by the active symbol and by the watchlist poll.           *)
(*                                                                         *)
(* The price of a symbol is a count of crossings: it is above the threshold*)
(* of the rules after an odd number of them.  A "change" rule has a        *)
(* condition that turns with the price but needs the full state of the     *)
(* active symbol; the volume rule is of the same kind.                     *)
(*                                                                         *)
(* The active symbol is evaluated at a price of now or of any time before: *)
(* its first price after a switch, a snapshot after trades that came       *)
(* without one, and a trade while the quote has no time or the candles     *)
(* refuse trades may all be older than the price evaluated last.           *)
(*                                                                         *)
(* Bounds: MaxRules ids, MaxCrossings[s] per symbol, MaxCommands, and      *)
(* MaxBack crossings that the evaluated prices of a symbol go back over.   *)
(***************************************************************************)
EXTENDS Naturals, FiniteSets, FiniteSetsExt

CONSTANTS
  Symbols, First,  \* First: the symbol the app is started with
  Wanted,          \* what rules are about: [symbol, kind] records
  Commands,        \* CLI processes that change the alerts or the watchlist
  Tui,             \* the TUI's own writer: add a symbol to the watchlist
  None,
  MaxRules, MaxCrossings, MaxCommands, MaxBack

Kinds == {"above", "below", "change"}
Targets == [symbol : Symbols, kind : Kinds]
Ids == 1 .. MaxRules
Rules == [id : Ids, target : Targets]
Writers == Commands \cup {Tui}

ASSUME AlertsAssumption ==
  /\ First \in Symbols
  /\ Wanted \subseteq Targets
  /\ Tui \notin Commands /\ None \notin Nat \cup BOOLEAN
  /\ MaxRules \in Nat \ {0} /\ MaxCrossings \in [Symbols -> Nat] /\ MaxCommands \in Nat
  /\ MaxBack \in Nat

VARIABLES
  file,        \* the alerts in settings.json
  loaded,      \* loaded[w]: the alerts writer w has read, None before
  commands,    \* CLI commands begun so far
  rules,       \* App.settings.alerts
  conditions,  \* AlertEvaluator._conditions; None: no observation yet
  symbol,      \* App.symbol
  poll,        \* the watchlist poll, and the moments its answer was read at
  prices,
  crossings,   \* the market: crossings of each symbol so far
  fires,       \* history: alerts fired per id
  base,        \* history: the moment of the first observation per id
  visited,     \* history: symbols active at some time during this poll
  last,        \* history: the moment a symbol was last evaluated at
  rewound,     \* history: the crossings those moments went back over
  reused       \* history: ids that came to name another rule

fileVars == <<file, loaded, commands>>
marketVars == <<symbol, poll, prices, crossings>>
evalVars == <<conditions, fires, base>>
historyVars == <<visited, last, rewound>>
vars == <<fileVars, rules, reused, marketVars, evalVars, historyVars>>

Moments == UNION {0 .. MaxCrossings[s] : s \in Symbols}

TypeOK ==
  /\ file \subseteq Rules
  /\ loaded \in [Writers -> {None} \cup SUBSET Rules]
  /\ commands \in 0 .. MaxCommands
  /\ rules \subseteq Rules
  /\ \A i \in Ids : Cardinality({r \in rules : r.id = i}) <= 1
  /\ conditions \in [Ids -> BOOLEAN \cup {None}]
  /\ symbol \in Symbols
  /\ poll \in {"idle", "asked", "answered"}
  /\ prices \in [Symbols -> Moments]
  /\ crossings \in [Symbols -> Moments]
  /\ fires \in [Ids -> Nat]
  /\ base \in [Ids -> Moments \cup {None}]
  /\ visited \subseteq Symbols /\ reused \subseteq Ids
  /\ \A s \in Symbols : last[s] \in 0 .. crossings[s]
  /\ rewound \in [Symbols -> 0 .. MaxBack]

Init ==
  /\ file \in {{}} \cup {{r} : r \in [id : Ids, target : Wanted]}
  /\ rules = file
  /\ loaded = [w \in Writers |-> None]
  /\ commands = 0
  /\ conditions = [i \in Ids |-> None]
  /\ symbol = First
  /\ poll = "idle" /\ prices = [s \in Symbols |-> 0]
  /\ crossings = [s \in Symbols |-> 0]
  /\ fires = [i \in Ids |-> 0]
  /\ base = [i \in Ids |-> None]
  /\ visited = {} /\ reused = {}
  /\ last = [s \in Symbols |-> 0] /\ rewound = [s \in Symbols |-> 0]

-----------------------------------------------------------------------------
(* The settings file.  Every writer loads it, and replaces it later with   *)
(* what it made of what it had loaded.                                     *)
Load(w) ==
  /\ loaded[w] = None
  /\ IF w = Tui THEN UNCHANGED commands
     ELSE commands < MaxCommands /\ commands' = commands + 1
  /\ loaded' = [loaded EXCEPT ![w] = file]
  /\ UNCHANGED <<file, rules, reused, marketVars, evalVars, historyVars>>

CountId(alerts) == Cardinality(alerts) + 1  \* mutant: the count, not the highest id

(* next_alert_id: one above the highest id in use. *)
NextId(alerts) == Max({r.id : r \in alerts} \cup {0}) + 1

Replace(w, alerts) ==
  /\ file' = alerts
  /\ loaded' = [loaded EXCEPT ![w] = None]
  /\ UNCHANGED <<commands, rules, reused, marketVars, evalVars, historyVars>>

AddAlert(w, target) ==
  /\ w # Tui /\ loaded[w] # None
  /\ NextId(loaded[w]) \in Ids
  /\ Replace(w, loaded[w] \cup {[id |-> NextId(loaded[w]), target |-> target]})

RemoveAlert(w, i) ==
  /\ w # Tui /\ loaded[w] # None
  /\ \E r \in loaded[w] : r.id = i
  /\ Replace(w, {r \in loaded[w] : r.id # i})

(* `watchlist add` and `remove` save the alerts as they were loaded. *)
WatchlistCommand(w) ==
  /\ w # Tui /\ loaded[w] # None
  /\ Replace(w, loaded[w])

(* An unknown id, a full list, an unwritable file: nothing is saved. *)
SaveFails(w) ==
  /\ loaded[w] # None
  /\ Replace(w, file)

(* The TUI adds a symbol: it saves the alerts as it has loaded them (or    *)
(* nothing, when the symbol is there already) and takes them over.         *)
WatchlistAdded ==
  /\ loaded[Tui] # None
  /\ file' \in {loaded[Tui], file}
  /\ rules' = loaded[Tui]
  /\ reused' = reused \cup
       {i \in Ids : conditions[i] # None /\ \E r \in rules' \ rules : r.id = i}
  /\ loaded' = [loaded EXCEPT ![Tui] = None]
  /\ UNCHANGED <<commands, marketVars, evalVars, historyVars>>

-----------------------------------------------------------------------------
(* The evaluator. *)
Holds(target, m) == (m % 2 = 1) = (target.kind # "below")

Fires(i, now) == conditions[i] = FALSE /\ now

(* The prices in reply, a function from symbols to moments, are evaluated; *)
(* without the full state a change rule has no observation.                *)
Evaluate(reply, full) ==
  LET observed == {r \in rules : /\ r.target.symbol \in DOMAIN reply
                                 /\ r.target.kind = "change" => full}
      Now(r) == Holds(r.target, reply[r.target.symbol])
      ids == {r.id : r \in observed}
      Rule(i) == CHOOSE r \in observed : r.id = i
  IN  /\ loaded[Tui] = None              \* the event loop is not busy with a save
      /\ conditions' = [i \in Ids |-> IF i \in ids THEN Now(Rule(i)) ELSE conditions[i]]
      /\ fires' = [i \in Ids |-> IF i \in ids /\ Fires(i, Now(Rule(i)))
                                 THEN fires[i] + 1 ELSE fires[i]]
      /\ base' = [i \in Ids |-> IF i \in ids /\ base[i] = None
                                THEN reply[Rule(i).target.symbol] ELSE base[i]]

(* What is noted of an evaluation of reply, in which only the prices of    *)
(* the symbols in returning may be older than those evaluated last.        *)
Noted(reply, returning) ==
  /\ last' = [s \in Symbols |-> IF s \in DOMAIN reply THEN reply[s] ELSE last[s]]
  /\ rewound' = [s \in Symbols |->
                   IF s \in returning /\ reply[s] < last[s]
                   THEN rewound[s] + last[s] - reply[s] ELSE rewound[s]]
  /\ \A s \in Symbols : rewound'[s] <= MaxBack

(* A snapshot or a trade of the active symbol. *)
ActiveEvaluated ==
  \E m \in 0 .. crossings[symbol], full \in BOOLEAN :
    /\ Evaluate([s \in {symbol} |-> m], full)
    /\ Noted([s \in {symbol} |-> m], {symbol})
    /\ UNCHANGED <<fileVars, rules, reused, marketVars, visited>>

(* The watchlist poll, one at a time, reads all prices at once. *)
PollDue ==
  /\ poll = "idle"
  /\ poll' = "asked"
  /\ visited' = {symbol}
  /\ UNCHANGED <<fileVars, rules, reused, symbol, prices, crossings, evalVars, last, rewound>>

PollRead ==
  /\ poll = "asked"
  /\ poll' = "answered"
  /\ prices' = crossings
  /\ UNCHANGED <<fileVars, rules, reused, symbol, crossings, evalVars, historyVars>>

PollOver ==
  /\ poll' = "idle"
  /\ prices' = [s \in Symbols |-> 0]
  /\ visited' = {}
  /\ UNCHANGED <<fileVars, rules, reused, symbol, crossings>>

ActiveToo == Symbols                   \* mutant: the active symbol is not left out

(* The feed looks after the active symbol. *)
PolledFor == Symbols \ {symbol}

(* Only fresh prices are evaluated; one may be older than the feed's last  *)
(* when the symbol was active at some time during the poll.                *)
PollApplied ==
  /\ poll = "answered"
  /\ \E fresh \in SUBSET PolledFor :
       /\ Evaluate([s \in fresh |-> prices[s]], FALSE)
       /\ Noted([s \in fresh |-> prices[s]], (fresh \cap visited) \ {symbol})
  /\ PollOver

PollFails ==
  /\ poll # "idle"
  /\ PollOver
  /\ UNCHANGED <<evalVars, last, rewound>>

SwitchSymbol(s) ==
  /\ s # symbol
  /\ symbol' = s
  /\ visited' = IF poll = "idle" THEN visited ELSE visited \cup {s}
  /\ UNCHANGED <<fileVars, rules, reused, poll, prices, crossings, evalVars, last, rewound>>

-----------------------------------------------------------------------------
(* The market (external). *)
Crosses(s) ==
  /\ crossings[s] < MaxCrossings[s]
  /\ crossings' = [crossings EXCEPT ![s] = @ + 1]
  /\ UNCHANGED <<fileVars, rules, reused, symbol, poll, prices, evalVars, historyVars>>

-----------------------------------------------------------------------------
SettingsStep ==
  \/ WatchlistAdded
  \/ \E w \in Writers :
       \/ Load(w) \/ WatchlistCommand(w) \/ SaveFails(w)
       \/ \E target \in Wanted : AddAlert(w, target)
       \/ \E i \in Ids : RemoveAlert(w, i)

Poll == PollDue \/ PollRead \/ PollApplied \/ PollFails

Next ==
  \/ SettingsStep
  \/ ActiveEvaluated \/ Poll
  \/ \E s \in Symbols : SwitchSymbol(s) \/ Crosses(s)

Spec == Init /\ [][Next]_vars

-----------------------------------------------------------------------------
(* Ids stay unique although every writer computes the next one from what   *)
(* it has loaded and overwrites what the others have saved: a file with a  *)
(* repeated id would be refused by every later load.                       *)
IdsAreUnique == \A r, s \in file : r.id = s.id => r = s

(* Moments after the first observation at which the rule's condition came  *)
(* true, up to now.                                                        *)
Rises(r) ==
  {m \in Moments : base[r.id] < m /\ m <= crossings[r.target.symbol] /\ Holds(r.target, m)}

FiresPerCrossing(r) ==
  IF base[r.id] = None THEN fires[r.id] = 0
  ELSE fires[r.id] <= Cardinality(Rises(r)) + rewound[r.target.symbol]

(* A rule fires at most once per crossing, and never on the first price it *)
(* sees, although two sources feed it, its file is rewritten and its symbol*)
(* becomes active and inactive, as long as its id is its own.  Prices that *)
(* go back cost at most one alert more per crossing they go back over, and *)
(* only the active symbol's own prices do, or a poll's of a symbol that was*)
(* active at some time during it.                                          *)
OneAlertPerCrossing == \A r \in rules : r.id \notin reused => FiresPerCrossing(r)
=============================================================================
