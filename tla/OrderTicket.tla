----------------------------- MODULE OrderTicket -----------------------------
(***************************************************************************)
(* From the b/s key to the approved plan: the worker that reads the        *)
(* account for a new ticket, the ticket, the PAPER confirmation and the    *)
(* LIVE approval, three modal screens on a stack whose results reach the   *)
(* app as callbacks that run later.  Meanwhile ticks arrive or stay away,  *)
(* the feed degrades, and a symbol switch asked for earlier takes effect.  *)
(*                                                                         *)
(* Keys wait for the callback of a screen that was just dismissed: a key   *)
(* typed ahead of it is left out.                                          *)
(*                                                                         *)
(* A preview is known by its symbol; whether its input is well formed and  *)
(* passes the risk gate (Pretrade) is a branch.  Time is counted in ticks; *)
(* a timer may fire late, and has fired once its callback runs.            *)
(*                                                                         *)
(* Bounds: Presses, the keys handled at a time; MaxScreens; MaxOrders.     *)
(***************************************************************************)
EXTENDS Naturals, Sequences, SequencesExt, FiniteSetsExt

CONSTANTS
  Symbols, Presses, None,
  Stale,       \* price_stale_seconds
  Arm,         \* REVIEW_ARM_SECONDS
  MaxScreens, MaxOrders

ASSUME OrderTicketAssumption ==
  /\ None \notin Symbols \cup Nat
  /\ {Stale, Arm, MaxScreens, MaxOrders} \subseteq Nat \ {0}

VARIABLES
  symbol,     \* App.symbol
  age,        \* ticks since last_tick_monotonic, None without a price
  healthy,    \* connection_state and the degraded flags allow orders
  live,       \* manual_live_orders and the environment gate
  opening,    \* opening[p]: the symbol captured by the worker of press p
  screens,    \* the modal screens, the top one last
  callbacks,  \* results the app has not handled yet
  orders,     \* plans approved with their phrase
  sinceEnter, \* history: ticks since Enter was last pressed
  confirmed   \* history: age of the quote behind the facts, at the last confirmation

envVars == <<symbol, age, healthy, live>>
vars == <<envVars, opening, screens, callbacks, orders, sinceEnter, confirmed>>

Ages == 0 .. Stale + 1

(* valid: what is left of the facts' validity (facts_deadline_monotonic),  *)
(* None without a price; shown: the age of the quote in the facts; wait:   *)
(* until the expiry or the arm timer fires; flag: it has fired.            *)
Screen == [kind : {"ticket", "confirm", "approval"}, symbol : Symbols,
           valid : Ages \cup {None}, shown : Ages \cup {None},
           wait : Ages \cup 0 .. Arm \cup {None}, flag : BOOLEAN]

TypeOK ==
  /\ symbol \in Symbols
  /\ age \in Ages \cup {None}
  /\ {healthy, live} \subseteq BOOLEAN
  /\ opening \in [Presses -> Symbols \cup {None}]
  /\ screens \in Seq(Screen) /\ Len(screens) <= MaxScreens
  /\ callbacks \in Seq(Screen)
  /\ orders \in 0 .. MaxOrders
  /\ sinceEnter \in 0 .. Arm
  /\ confirmed \in Ages \cup {None}

Init ==
  /\ symbol \in Symbols
  /\ age = None /\ healthy = FALSE /\ live \in BOOLEAN
  /\ opening = [p \in Presses |-> None]
  /\ screens = << >> /\ callbacks = << >>
  /\ orders = 0
  /\ sinceEnter = Arm /\ confirmed = None

NotOlderThan(a, limit) == a # None /\ a <= limit

(* ~_interpretation_is_stale() *)
Fresh == healthy /\ NotOlderThan(age, Stale)

-----------------------------------------------------------------------------
KeepLock(p) == opening                   \* mutant: an exception keeps the lock

ReleaseLock(p) == [opening EXCEPT ![p] = None]

NoLock == TRUE                           \* mutant: locked() is not asked

TicketLockFree == \A p \in Presses : opening[p] = None

(* b or s without a modal: what is captured, and checked before the await. *)
Press(p) ==
  /\ screens = << >> /\ callbacks = << >> /\ opening[p] = None
  /\ TicketLockFree
  /\ age # None /\ Fresh
  /\ opening' = [opening EXCEPT ![p] = symbol]
  /\ UNCHANGED <<envVars, screens, callbacks, orders, sinceEnter, confirmed>>

(* The account context is there and is the one of the captured symbol. *)
TicketOpens(p) ==
  /\ opening[p] # None /\ Len(screens) < MaxScreens
  /\ opening' = ReleaseLock(p)
  /\ screens' = Append(screens, [kind |-> "ticket", symbol |-> opening[p], valid |-> None,
                                 shown |-> None, wait |-> None, flag |-> FALSE])
  /\ UNCHANGED <<envVars, callbacks, orders, sinceEnter, confirmed>>

(* The request fails, or its answer is of another symbol or currency. *)
OpenFails(p) ==
  /\ opening[p] # None
  /\ opening' = ReleaseLock(p)
  /\ UNCHANGED <<envVars, screens, callbacks, orders, sinceEnter, confirmed>>

-----------------------------------------------------------------------------
Top == Last(screens)

Dismiss(result) ==
  /\ screens' = Front(screens)
  /\ callbacks' = callbacks \o result

AnySymbol(s) == TRUE                     \* mutant: the symbol is not compared

StillActive(s) == symbol = s

(* Enter on a ticket.  The price field only gets the focus, the input is   *)
(* refused, or the preview is built and the ticket closed.                 *)
EnterOnTicket ==
  /\ Top.kind = "ticket"
  /\ \/ UNCHANGED <<screens, callbacks>>
     \/ StillActive(Top.symbol) /\ Dismiss(<<Top>>)
  /\ UNCHANGED <<orders, confirmed>>

(* Enter on the confirmation; not after the facts expired. *)
EnterOnConfirm ==
  /\ Top.kind = "confirm"
  /\ IF Top.flag THEN UNCHANGED <<screens, callbacks>> ELSE Dismiss(<<Top>>)
  /\ UNCHANGED <<orders, confirmed>>

KeepsRunning == Top.wait                 \* mutant: the arm timer is not reset

WaitAfterEarlyEnter == Arm

(* Enter on the approval: too early it starts the pause again. *)
EnterOnApproval ==
  /\ Top.kind = "approval"
  /\ IF Top.flag
     THEN Dismiss(<< >>) /\ orders' = orders + 1
     ELSE /\ screens' = [screens EXCEPT ![Len(screens)].wait = WaitAfterEarlyEnter]
          /\ UNCHANGED <<callbacks, orders>>
  /\ UNCHANGED confirmed

Enter ==
  /\ screens # << >> /\ callbacks = << >>
  /\ orders < MaxOrders
  /\ EnterOnTicket \/ EnterOnConfirm \/ EnterOnApproval
  /\ sinceEnter' = 0
  /\ UNCHANGED <<envVars, opening>>

(* Escape stores nothing. *)
Escape ==
  /\ screens # << >> /\ callbacks = << >>
  /\ Dismiss(<< >>)
  /\ UNCHANGED <<envVars, opening, orders, sinceEnter, confirmed>>

(* A timer of a screen fires: the facts expire, the approval is armed. *)
TimerFires ==
  \E i \in 1 .. Len(screens) :
    /\ screens[i].wait = 0 /\ ~screens[i].flag
    /\ screens' = [screens EXCEPT ![i].flag = TRUE]
    /\ UNCHANGED <<envVars, opening, callbacks, orders, sinceEnter, confirmed>>

-----------------------------------------------------------------------------
(* _quote_valid_for_seconds *)
Validity == IF age = None THEN None ELSE IF age <= Stale THEN Stale - age ELSE 0

(* _on_paper_preview_built: facts of this moment, valid as long as the     *)
(* quote they show, whatever comes later.                                  *)
PreviewBuilt ==
  /\ Head(callbacks).kind = "ticket" /\ Len(screens) < MaxScreens
  /\ screens' = Append(screens, [kind |-> "confirm", symbol |-> Head(callbacks).symbol,
                                 valid |-> Validity, shown |-> age,
                                 wait |-> Validity, flag |-> FALSE])
  /\ UNCHANGED confirmed

OnlyFresh(s) == Fresh                    \* mutant: the deadline is not looked at

Confirmable(s) == s.valid # 0 /\ Fresh

(* _on_paper_confirmed *)
PaperConfirmed ==
  /\ Head(callbacks).kind = "confirm"
  /\ \/ /\ ~Confirmable(Head(callbacks))
        /\ UNCHANGED <<screens, confirmed>>
     \/ /\ Confirmable(Head(callbacks))
        /\ confirmed' = Head(callbacks).shown
        /\ IF live /\ Len(screens) < MaxScreens
           THEN \/ UNCHANGED screens        \* no plan: the preview is rejected
                \/ screens' = Append(screens, [Head(callbacks) EXCEPT
                                !.kind = "approval", !.wait = Arm, !.flag = FALSE])
           ELSE UNCHANGED screens

CallbackRuns ==
  /\ callbacks # << >>
  /\ PreviewBuilt \/ PaperConfirmed
  /\ callbacks' = Tail(callbacks)
  /\ UNCHANGED <<envVars, opening, orders, sinceEnter>>

-----------------------------------------------------------------------------
(* The market and the rest of the app. *)
PriceObserved ==
  /\ age' = 0
  /\ UNCHANGED <<symbol, healthy, live, opening, screens, callbacks, orders, sinceEnter, confirmed>>

HealthChanges ==
  /\ healthy' = ~healthy
  /\ UNCHANGED <<symbol, age, live, opening, screens, callbacks, orders, sinceEnter, confirmed>>

SwitchDone ==
  /\ symbol' \in Symbols \ {symbol}
  /\ age' = None /\ healthy' = FALSE
  /\ UNCHANGED <<live, opening, screens, callbacks, orders, sinceEnter, confirmed>>

Older(a) == IF a = None THEN None ELSE Min({a + 1, Stale + 1})
Left(n) == IF n \in {None, 0} THEN n ELSE n - 1

Aged(s) ==
  [i \in DOMAIN s |-> [s[i] EXCEPT !.valid = Left(@), !.wait = Left(@), !.shown = Older(@)]]

Tick ==
  /\ age' = Older(age)
  /\ screens' = Aged(screens) /\ callbacks' = Aged(callbacks)
  /\ sinceEnter' = Min({sinceEnter + 1, Arm})
  /\ UNCHANGED <<symbol, healthy, live, opening, orders, confirmed>>

-----------------------------------------------------------------------------
AccountAnswers(p) == TicketOpens(p) \/ OpenFails(p)

Next ==
  \/ \E p \in Presses : Press(p) \/ AccountAnswers(p)
  \/ Enter \/ Escape \/ TimerFires \/ CallbackRuns
  \/ PriceObserved \/ HealthChanges \/ SwitchDone \/ Tick

Spec == Init /\ [][Next]_vars

(* The account requests have timeouts, and the event loop runs callbacks. *)
FairSpec == Spec /\ WF_vars(CallbackRuns) /\ \A p \in Presses : WF_vars(AccountAnswers(p))

-----------------------------------------------------------------------------
(* Two keys, or a key during the account request, do not open two tickets  *)
(* on top of each other: the operator decides on one order at a time.      *)
OneOrderAtATime == Len(screens) + Len(callbacks) <= 1

(* A PAPER preview is confirmed only while the quote its facts show is     *)
(* still valid: neither newer ticks, nor a state that recovered, nor a     *)
(* callback or a timer that came late prolong it.                          *)
ConfirmedWhileFactsValid == NotOlderThan(confirmed, Stale - 1) \/ confirmed = None

(* A preview is built for the symbol on the screen, whatever was selected  *)
(* while its ticket waited for the account or for the operator.            *)
PreviewIsOfActiveSymbol ==
  [][Len(callbacks') > Len(callbacks) /\ Last(callbacks').kind = "ticket" =>
       Last(callbacks').symbol = symbol]_vars

(* No order is approved by an Enter that follows another one, on whichever *)
(* screen, in less than the review pause: holding the key down never       *)
(* reaches the broker.                                                     *)
ApprovedAfterAPause == [][orders' > orders => sinceEnter >= Arm]_vars

(* A ticket that is being opened is opened or given up: later keys are not *)
(* refused for ever.                                                       *)
TicketLockIsReleased == \A p \in Presses : opening[p] # None ~> opening[p] = None
=============================================================================
