------------------------------ MODULE Portfolio ------------------------------
(***************************************************************************)
(* The read-only account state of the TUI: the portfolio snapshot (polled, *)
(* refreshed by the operator, merged into by the reconciliation after a    *)
(* live order), and the closed-order history with its own poller.  Every   *)
(* refresh holds a lock while it awaits the broker and gives up at once    *)
(* when somebody else holds it.                                            *)
(*                                                                         *)
(* The broker is a clock of its own: moment counts what happened to the    *)
(* account's orders, and an answer carries the moment it was read at.      *)
(* The exchange rate has the same shape as the history, without an account,*)
(* and is left out.                                                        *)
(*                                                                         *)
(* Bounds: MaxMoments order events, MaxAccountChanges.                     *)
(***************************************************************************)
EXTENDS Naturals, Absent

CONSTANTS Accounts, MaxMoments, MaxAccountChanges

ASSUME PortfolioAssumption ==
  /\ None \notin Accounts \cup Nat \cup {"poll", "user", "reconcile", "history"}
  /\ MaxMoments \in Nat /\ MaxAccountChanges \in Nat

VARIABLES
  account, moment, changes,  \* the broker: selected account, its order events
  \* --- portfolio ---
  pAccount,   \* the account of portfolio_snapshot, None without one
  pOrders,    \* the moment its open orders were read at
  pStale,     \* portfolio_stale
  pBusy,      \* who holds portfolio_refresh_lock: poll, user, reconcile
  pReply,     \* what the broker has answered to it so far
  \* --- closed orders ---
  hAccount,   \* order_history_account_seq, the account of closed_orders
  hStale,     \* order_history_stale
  hBusy,      \* who holds order_history_refresh_lock: history, user
  hRequested, \* the account it asked for
  wakeup,     \* order_history_wakeup
  poller,     \* order_history_task
  \* --- the operator's refresh, and the reconciliation ---
  user,
  rec,        \* where the reconciliation is
  recAccount, \* the account of its context
  recOrders,  \* the moment it last read the open orders at (kept as history)
  result,     \* its result
  posted      \* the moment its order was placed at

brokerVars == <<account, moment, changes>>
portfolioVars == <<pAccount, pOrders, pStale, pBusy, pReply>>
historyVars == <<hAccount, hStale, hBusy, hRequested, wakeup, poller>>
recVars == <<rec, recAccount, recOrders, result, posted>>
vars == <<brokerVars, portfolioVars, historyVars, user, recVars>>

NoReply == [account |-> None, orders |-> None]

TypeOK ==
  /\ account \in Accounts
  /\ moment \in 0 .. MaxMoments /\ changes \in 0 .. MaxAccountChanges
  /\ pAccount \in Accounts \cup {None}
  /\ pOrders \in 0 .. moment
  /\ pStale \in BOOLEAN
  /\ pBusy \in {None, "poll", "user", "reconcile"}
  /\ pReply \in [account : Accounts \cup {None}, orders : 0 .. moment \cup {None}]
  /\ hAccount \in Accounts \cup {None}
  /\ hStale \in BOOLEAN
  /\ hBusy \in {None, "history", "user"}
  /\ hRequested \in Accounts \cup {None}
  /\ wakeup \in BOOLEAN
  /\ poller \in {"off", "refreshing", "waiting"}
  /\ user \in {"idle", "portfolio", "history"}
  /\ rec \in {"idle", "context", "orders", "merge", "portfolio"}
  /\ recAccount \in Accounts \cup {None}
  /\ recOrders \in 0 .. moment
  /\ result \in {"none", "full", "partial", "failed"}
  /\ posted \in 0 .. moment
  /\ pBusy = "user" <=> user = "portfolio"
  /\ pBusy = "reconcile" <=> rec = "portfolio"
  /\ hBusy = "history" => poller = "refreshing"
  /\ hBusy = "user" => user = "history"

Init ==
  /\ account \in Accounts /\ moment = 0 /\ changes = 0
  /\ pAccount = None /\ pOrders = 0 /\ pStale = FALSE
  /\ pBusy = None /\ pReply = NoReply
  /\ hAccount = None /\ hStale = FALSE /\ hBusy = None /\ hRequested = None
  /\ wakeup = FALSE /\ poller = "off"
  /\ user = "idle"
  /\ rec = "idle" /\ recAccount = None /\ recOrders = 0
  /\ result = "none" /\ posted = 0

-----------------------------------------------------------------------------
(* _refresh_portfolio. *)
AlwaysFree == TRUE                     \* mutant: the locked() test is dropped

PortfolioFree == pBusy = None

TakePortfolioLock(c) ==
  /\ PortfolioFree
  /\ pBusy' = c
  /\ pReply' = NoReply
  /\ UNCHANGED <<pAccount, pOrders, pStale>>

PortfolioPollDue ==
  /\ TakePortfolioLock("poll")
  /\ UNCHANGED <<brokerVars, historyVars, user, recVars>>

(* The operator's `r`: the portfolio first, then the history. *)
UserRefresh ==
  /\ user = "idle"
  /\ IF PortfolioFree
     THEN TakePortfolioLock("user") /\ user' = "portfolio"
     ELSE user' = "history" /\ UNCHANGED portfolioVars
  /\ UNCHANGED <<brokerVars, historyVars, recVars>>

(* The broker answers: the accounts first, then what belongs to one. *)
AccountRead ==
  /\ pBusy # None /\ pReply.account = None
  /\ pReply' = [pReply EXCEPT !.account = account]
  /\ UNCHANGED <<brokerVars, pAccount, pOrders, pStale, pBusy, historyVars, user, recVars>>

OrdersOfAccountRead ==
  /\ pReply.account # None /\ pReply.orders = None
  /\ pReply' = [pReply EXCEPT !.orders = moment]
  /\ UNCHANGED <<brokerVars, pAccount, pOrders, pStale, pBusy, historyVars, user, recVars>>

(* Whoever waited for the portfolio goes on. *)
Continue(ok) ==
  /\ user' = IF pBusy = "user" THEN "history" ELSE user
  /\ IF pBusy = "reconcile"
     THEN rec' = "idle" /\ result' = IF ok THEN "full" ELSE "partial"
     ELSE UNCHANGED <<rec, result>>
  /\ pBusy' = None /\ pReply' = NoReply
  /\ UNCHANGED <<recAccount, recOrders, posted>>

DropHistory == hAccount' = None

PortfolioLoaded ==
  /\ pReply.orders # None
  /\ pAccount' = pReply.account
  /\ pOrders' = pReply.orders
  /\ pStale' = FALSE
  /\ IF pAccount \notin {None, pReply.account}
     THEN DropHistory /\ hStale' = FALSE /\ wakeup' = TRUE
     ELSE UNCHANGED <<hAccount, hStale, wakeup>>
  /\ poller' = IF poller = "off" THEN "refreshing" ELSE poller
  /\ Continue(TRUE)
  /\ UNCHANGED <<brokerVars, hBusy, hRequested>>

PortfolioFails ==
  /\ pBusy # None
  /\ pStale' = TRUE
  /\ Continue(FALSE)
  /\ UNCHANGED <<brokerVars, pAccount, pOrders, historyVars>>

-----------------------------------------------------------------------------
(* _refresh_order_history, for the poller and for the operator. *)
TakeHistoryLock(c) ==
  /\ hBusy = None
  /\ hBusy' = c
  /\ hRequested' = pAccount

PollerRefreshes ==
  /\ poller = "refreshing"
  /\ \/ TakeHistoryLock("history") /\ UNCHANGED poller
     \/ /\ hBusy = "user"              \* locked: it returns at once
        /\ poller' = "waiting"
        /\ UNCHANGED <<hBusy, hRequested>>
  /\ UNCHANGED <<brokerVars, portfolioVars, hAccount, hStale, wakeup, user, recVars>>

UserHistory ==
  /\ user = "history" /\ hBusy # "user"
  /\ IF pAccount # None /\ hBusy = None
     THEN TakeHistoryLock("user") /\ UNCHANGED user
     ELSE user' = "idle" /\ UNCHANGED <<hBusy, hRequested>>
  /\ UNCHANGED <<brokerVars, portfolioVars, hAccount, hStale, wakeup, poller, recVars>>

AnyAccount == TRUE                     \* mutant: no look after the await

StillSelected == pAccount = hRequested

ForgetRetry == UNCHANGED wakeup        \* mutant: the poller is not woken

RequestRetry == wakeup' = TRUE

HistoryAnswered ==
  /\ hBusy # None
  /\ IF StillSelected
     THEN /\ \/ hAccount' = hRequested /\ hStale' = FALSE
             \/ hStale' = TRUE /\ UNCHANGED hAccount
          /\ UNCHANGED wakeup
     ELSE RequestRetry /\ UNCHANGED <<hAccount, hStale>>
  /\ poller' = IF hBusy = "history" THEN "waiting" ELSE poller
  /\ user' = IF hBusy = "user" THEN "idle" ELSE user
  /\ hBusy' = None /\ hRequested' = None
  /\ UNCHANGED <<brokerVars, portfolioVars, recVars>>

(* The wakeup, or its timeout of five minutes. *)
PollerWakes ==
  /\ poller = "waiting"
  /\ poller' = "refreshing"
  /\ wakeup' = FALSE
  /\ UNCHANGED <<brokerVars, portfolioVars, hAccount, hStale, hBusy, hRequested, user, recVars>>

-----------------------------------------------------------------------------
(* _reconcile_live_state, run by the one live worker after its POST. *)
OrderPosted ==
  /\ rec = "idle" /\ moment < MaxMoments
  /\ moment' = moment + 1
  /\ posted' = moment'
  /\ rec' = "context"
  /\ result' = "none"
  /\ UNCHANGED <<account, changes, portfolioVars, historyVars, user, recAccount, recOrders>>

ContextRead ==
  /\ rec = "context"
  /\ recAccount' = account
  /\ rec' = "orders"
  /\ UNCHANGED <<brokerVars, portfolioVars, historyVars, user, recOrders, result, posted>>

OpenOrdersRead ==
  /\ rec = "orders"
  /\ recOrders' = moment
  /\ rec' = "merge"
  /\ UNCHANGED <<brokerVars, portfolioVars, historyVars, user, recAccount, result, posted>>

ReconcileFails ==
  /\ rec \in {"context", "orders", "merge"}
  /\ rec' = "idle"
  /\ result' = "failed"
  /\ UNCHANGED <<brokerVars, portfolioVars, historyVars, user, recAccount, recOrders, posted>>

AnyoneRefreshed == "full"              \* mutant: somebody else's load counts

ResultWhenLocked == "partial"

(* The open orders are merged into the snapshot, which is partial now; then*)
(* a full refresh is tried.                                                *)
OrdersMerged ==
  /\ rec = "merge"
  /\ IF pAccount = recAccount
     THEN pOrders' = recOrders /\ pStale' = TRUE
     ELSE UNCHANGED <<pOrders, pStale>>
  /\ IF PortfolioFree
     THEN /\ pBusy' = "reconcile" /\ pReply' = NoReply
          /\ rec' = "portfolio"
          /\ UNCHANGED result
     ELSE /\ rec' = "idle"
          /\ result' = ResultWhenLocked
          /\ UNCHANGED <<pBusy, pReply>>
  /\ UNCHANGED <<brokerVars, pAccount, historyVars, user, recAccount, recOrders, posted>>

-----------------------------------------------------------------------------
(* The broker (external): an order fills or is cancelled; another account  *)
(* is the only brokerage account.                                          *)
OrdersChange ==
  /\ moment < MaxMoments
  /\ moment' = moment + 1
  /\ UNCHANGED <<account, changes, portfolioVars, historyVars, user, recVars>>

AccountChanges ==
  /\ changes < MaxAccountChanges
  /\ changes' = changes + 1
  /\ account' \in Accounts \ {account}
  /\ UNCHANGED <<moment, portfolioVars, historyVars, user, recVars>>

-----------------------------------------------------------------------------
Refresh ==
  \/ AccountRead \/ OrdersOfAccountRead \/ PortfolioLoaded \/ PortfolioFails

History == PollerRefreshes \/ HistoryAnswered \/ PollerWakes

Reconciliation ==
  \/ OrderPosted \/ ContextRead \/ OpenOrdersRead \/ OrdersMerged \/ ReconcileFails

Next ==
  \/ PortfolioPollDue \/ Refresh
  \/ UserRefresh \/ UserHistory
  \/ History
  \/ Reconciliation
  \/ OrdersChange \/ AccountChanges

Spec == Init /\ [][Next]_vars

-----------------------------------------------------------------------------
(* The closed orders on the screen belong to the account of the portfolio  *)
(* above them, whatever the order of the answers (tui.py: never render     *)
(* account A's last-good history beneath account B).                       *)
HistoryOfShownAccount == hAccount \in {None, pAccount}

(* The history poller never goes to sleep over missing work: while it      *)
(* waits unwoken, the history shown is the portfolio account's, or is      *)
(* marked stale, or the operator's own refresh is under way.               *)
NoLostWakeup ==
  poller = "waiting" /\ ~wakeup =>
    hAccount = pAccount \/ hStale \/ hBusy = "user"

(* A reconciliation is called full only after a portfolio was read that    *)
(* was requested after the order was placed.                               *)
FullMeansAfterTheOrder ==
  [][result' = "full" /\ result # "full" => pOrders' >= posted]_vars

(* Documented: the open orders trusted for the pre-trade facts are not     *)
(* stale; in particular none older than what the last reconciliation put   *)
(* on the screen.                                                          *)
TrustedOrdersAreCurrent ==
  pAccount # None /\ pAccount = recAccount /\ rec \in {"idle", "portfolio"}
    /\ result # "failed" /\ ~pStale
  => pOrders >= recOrders
=============================================================================
