------------------------------ MODULE LiveOrder ------------------------------
(***************************************************************************)
(* The manual live-order path of one operator session: the Textual worker  *)
(* started when the approval modal is dismissed, the one-shot executor and *)
(* the synchronous transport it runs in a thread, the audit file, and what *)
(* the broker can do with a POST.  A plan is one approved LiveOrderPlan    *)
(* object; its intent stands for the SHA-256 fingerprint (and the client   *)
(* order id derived from it), so two plans with one intent have one        *)
(* fingerprint.  The process was launched by the `live` command: both live *)
(* gates are on for its whole life and the modal returns the exact phrase. *)
(*                                                                         *)
(* Bound: MaxLives, the number of process lives (first start and restarts).*)
(***************************************************************************)
EXTENDS Naturals, FiniteSets

CONSTANTS
  Plans,      \* the LiveOrderPlan objects that may ever be created
  Intents,    \* distinct order intents, i.e. distinct fingerprints
  Symbols,
  Sides,
  IntentOf,   \* IntentOf[p]: the intent plan p was built from
  SymbolOf,   \* SymbolOf[i], SideOf[i]: what intent i trades
  SideOf,
  None,       \* nobody holds the submit lock
  MaxLives

ASSUME LiveOrderAssumption ==
  /\ IntentOf \in [Plans -> Intents]
  /\ SymbolOf \in [Intents -> Symbols]
  /\ SideOf \in [Intents -> Sides]
  /\ None \notin Plans
  /\ MaxLives \in Nat \ {0}

VARIABLES
  \* --- memory of the running process ---
  pc,          \* pc[p]: the await or the thread step plan p's worker is in
  submitLock,  \* _live_submit_lock: the plan holding it, or None
  attempted,   \* _live_attempted_fingerprints
  outcome,     \* outcome[p]: the executor's result for p, "none" before it
  cancelled,   \* plans whose _CancellationState.requested is set
  quitting,    \* the operator has quit: Textual cancels the workers
  \* --- what changes under the worker's feet ---
  expired,     \* plans past their expires_at
  stale,       \* _interpretation_is_stale()
  appSymbol,   \* App.symbol
  \* --- broker and network ---
  wire,        \* plans whose POST travels to the broker
  reply,       \* reply[p]: the broker's decision travelling back, or "none"
  opened,      \* plans whose order the broker has ever opened
  open,        \* those still open
  \* --- the audit file, and the warning that it lacks a record ---
  log,         \* log[p]: status of p's durable audit line, or "none"
  auditFailed, \* plans whose append failed, reported as AUDIT FAILURE
  \* --- history ---
  posted,      \* plans for which a POST was ever sent
  lifePosts,   \* lifePosts[i]: POSTs sent for fingerprint i in this life
  lives        \* process lives so far

memoryVars == <<pc, submitLock, attempted, outcome, cancelled, quitting>>
contextVars == <<expired, stale, appSymbol>>
brokerVars == <<wire, reply, opened, open>>
auditVars == <<log, auditFailed>>
historyVars == <<posted, lifePosts, lives>>
vars == <<memoryVars, contextVars, brokerVars, auditVars, historyVars>>

Preflight == {"context", "orders", "prepare", "token"}
InThread == {"thread", "posting", "append"}
Working == Preflight \cup InThread \cup {"reconcile"}
Statuses == {"accepted", "rejected", "ambiguous"}

Fp(p) == IntentOf[p]
SameTarget(p, q) ==
  /\ SymbolOf[Fp(p)] = SymbolOf[Fp(q)]
  /\ SideOf[Fp(p)] = SideOf[Fp(q)]

TypeOK ==
  /\ pc \in [Plans -> {"idle", "approval", "done", "cancelled", "dead"} \cup Working]
  /\ submitLock \in Plans \cup {None}
  /\ attempted \in SUBSET Intents
  /\ outcome \in [Plans -> {"none", "blocked"} \cup Statuses]
  /\ cancelled \in SUBSET Plans
  /\ quitting \in BOOLEAN
  /\ expired \in SUBSET Plans
  /\ stale \in BOOLEAN
  /\ appSymbol \in Symbols
  /\ wire \in SUBSET Plans
  /\ reply \in [Plans -> {"none", "opened", "refused"}]
  /\ opened \in SUBSET Plans
  /\ open \in SUBSET opened
  /\ log \in [Plans -> {"none"} \cup Statuses]
  /\ auditFailed \in SUBSET Plans
  /\ posted \in SUBSET Plans
  /\ lifePosts \in [Intents -> Nat]
  /\ lives \in 1 .. MaxLives

Init ==
  /\ pc = [p \in Plans |-> "idle"]
  /\ submitLock = None
  /\ attempted = {}
  /\ outcome = [p \in Plans |-> "none"]
  /\ cancelled = {}
  /\ quitting = FALSE
  /\ expired = {}
  /\ stale \in BOOLEAN
  /\ appSymbol \in Symbols
  /\ wire = {} /\ opened = {} /\ open = {}
  /\ reply = [p \in Plans |-> "none"]
  /\ log = [p \in Plans |-> "none"]
  /\ auditFailed = {}
  /\ posted = {}
  /\ lifePosts = [i \in Intents |-> 0]
  /\ lives = 1

-----------------------------------------------------------------------------
(* The worker leaves the submit lock's block with state s. *)
LeaveKeepingLock(p, s) ==      \* mutant: an early return that keeps the lock
  /\ pc' = [pc EXCEPT ![p] = s]
  /\ UNCHANGED submitLock

Leave(p, s) ==
  /\ pc' = [pc EXCEPT ![p] = s]
  /\ submitLock' = None

(* The PAPER confirmation: refused on a stale quote, it builds the plan and *)
(* opens the approval modal.                                               *)
Confirm(p) ==
  /\ pc[p] = "idle" /\ ~quitting
  /\ ~stale
  /\ pc' = [pc EXCEPT ![p] = "approval"]
  /\ UNCHANGED <<submitLock, attempted, outcome, cancelled, quitting,
                 contextVars, brokerVars, auditVars, historyVars>>

NeverBusy == FALSE             \* mutant: the locked() test is dropped

SubmitBusy == submitLock # None

(* What the worker checks before its first await. *)
EntryBlocked(p) ==
  \/ SubmitBusy
  \/ p \in expired
  \/ appSymbol # SymbolOf[Fp(p)]
  \/ stale
  \/ Fp(p) \in attempted

(* The operator approves; the worker runs up to its first await. *)
Enter(p) ==
  /\ pc[p] = "approval" /\ ~quitting
  /\ \/ /\ EntryBlocked(p)
        /\ pc' = [pc EXCEPT ![p] = "done"]
        /\ outcome' = [outcome EXCEPT ![p] = "blocked"]
        /\ UNCHANGED submitLock
     \/ /\ ~EntryBlocked(p)
        /\ pc' = [pc EXCEPT ![p] = "context"]
        /\ submitLock' = p
        /\ UNCHANGED outcome
  /\ UNCHANGED <<attempted, cancelled, quitting,
                 contextVars, brokerVars, auditVars, historyVars>>

(* The operator leaves the approval modal with Escape. *)
Dismiss(p) ==
  /\ pc[p] = "approval" /\ ~quitting
  /\ pc' = [pc EXCEPT ![p] = "done"]
  /\ UNCHANGED <<submitLock, attempted, outcome, cancelled, quitting,
                 contextVars, brokerVars, auditVars, historyVars>>

(* Fresh account context arrived and the risk gate reproduced the          *)
(* fingerprint; or the audit file was prepared.                            *)
PreflightStep(p) ==
  /\ \/ pc[p] = "context" /\ pc' = [pc EXCEPT ![p] = "orders"]
     \/ pc[p] = "prepare" /\ pc' = [pc EXCEPT ![p] = "token"]
  /\ UNCHANGED <<submitLock, attempted, outcome, cancelled, quitting,
                 contextVars, brokerVars, auditVars, historyVars>>

(* Open orders of p's symbol and side in the page the broker returns. *)
Duplicates(p) == {q \in open : SameTarget(p, q)}

OrdersRead(p) ==
  /\ pc[p] = "orders"
  /\ Duplicates(p) = {}
  /\ pc' = [pc EXCEPT ![p] = "prepare"]
  /\ UNCHANGED <<submitLock, attempted, outcome, cancelled, quitting,
                 contextVars, brokerVars, auditVars, historyVars>>

(* A duplicate, or any of the four awaits raising: blocked, nothing sent. *)
PreflightFails(p) ==
  /\ pc[p] \in Preflight
  /\ Leave(p, "done")
  /\ outcome' = [outcome EXCEPT ![p] = "blocked"]
  /\ UNCHANGED <<attempted, cancelled, quitting,
                 contextVars, brokerVars, auditVars, historyVars>>

ReserveNothing(p) == attempted        \* mutant: the reservation is dropped
ReservePlan(p) == attempted \cup {p}  \* mutant: reserves the plan object

Reservation(p) == attempted \cup {Fp(p)}

(* The token arrived: the fingerprint is reserved and the thread started   *)
(* without an await in between.                                            *)
TokenReady(p) ==
  /\ pc[p] = "token"
  /\ pc' = [pc EXCEPT ![p] = "thread"]
  /\ attempted' = Reservation(p)
  /\ UNCHANGED <<submitLock, outcome, cancelled, quitting,
                 contextVars, brokerVars, auditVars, historyVars>>

(* The transport factory raised: reported as ambiguous, no outcome kept. *)
FactoryFails(p) ==
  /\ pc[p] = "thread"
  /\ Leave(p, "done")
  /\ UNCHANGED <<attempted, outcome, cancelled, quitting,
                 contextVars, brokerVars, auditVars, historyVars>>

(* The executor's own gates: only the plan's lifetime can have run out. *)
GateBlocks(p) ==
  /\ pc[p] = "thread"
  /\ p \in expired
  /\ outcome' = [outcome EXCEPT ![p] = "blocked"]
  /\ pc' = [pc EXCEPT ![p] = "append"]
  /\ UNCHANGED <<submitLock, attempted, cancelled, quitting,
                 contextVars, brokerVars, auditVars, historyVars>>

SendPost(p) ==
  /\ pc[p] = "thread"
  /\ p \notin expired
  /\ pc' = [pc EXCEPT ![p] = "posting"]
  /\ wire' = wire \cup {p}
  /\ posted' = posted \cup {p}
  /\ lifePosts' = [lifePosts EXCEPT ![Fp(p)] = @ + 1]
  /\ UNCHANGED <<submitLock, attempted, outcome, cancelled, quitting,
                 contextVars, reply, opened, open, auditVars, lives>>

TimeoutMeansRejected(r) ==     \* mutant: a lost answer is a rejection
  CASE r = "opened" -> {"accepted", "rejected"}
    [] r = "refused" -> {"rejected"}
    [] OTHER -> {"rejected"}

(* What the transport and the strict response check make of the broker's   *)
(* decision: a 200 with the echoed id, a 4xx of the reject set, or one of  *)
(* timeout, 5xx, redirect and malformed body, which say nothing.           *)
ResultsFor(r) ==
  CASE r = "opened" -> {"accepted", "ambiguous"}
    [] r = "refused" -> {"rejected", "ambiguous"}
    [] OTHER -> {"ambiguous"}

SubmitReturns(p) ==
  /\ pc[p] = "posting"
  /\ \E s \in ResultsFor(reply[p]) : outcome' = [outcome EXCEPT ![p] = s]
  /\ pc' = [pc EXCEPT ![p] = "append"]
  /\ reply' = [reply EXCEPT ![p] = "none"]
  /\ UNCHANGED <<submitLock, attempted, cancelled, quitting, contextVars,
                 wire, opened, open, auditVars, historyVars>>

(* The thread is back: every record is appended (a blocked attempt has     *)
(* none), the outcome is published, and a pending quit is honoured before  *)
(* the read-only reconciliation.                                           *)
AppendAudit(p) ==
  /\ pc[p] = "append"
  /\ IF outcome[p] = "blocked" THEN UNCHANGED auditVars
     ELSE \/ log' = [log EXCEPT ![p] = outcome[p]] /\ UNCHANGED auditFailed
          \/ auditFailed' = auditFailed \cup {p} /\ UNCHANGED log
  /\ IF p \in cancelled THEN Leave(p, "cancelled")
     ELSE pc' = [pc EXCEPT ![p] = "reconcile"] /\ UNCHANGED submitLock
  /\ UNCHANGED <<attempted, outcome, cancelled, quitting,
                 contextVars, brokerVars, historyVars>>

(* Full, partial or failed: in each case the worker ends. *)
Reconcile(p) ==
  /\ pc[p] = "reconcile"
  /\ Leave(p, "done")
  /\ UNCHANGED <<attempted, outcome, cancelled, quitting,
                 contextVars, brokerVars, auditVars, historyVars>>

-----------------------------------------------------------------------------
(* Quit, restart, crash. *)
ShieldThreadOnly == {"thread", "posting"}  \* mutant: the append is not shielded

(* _to_thread_uninterruptibly shields these. *)
Shielded == InThread

(* Quitting cancels every worker at its await; a shielded one only notes it.*)
Quit ==
  /\ ~quitting
  /\ quitting' = TRUE
  /\ cancelled' = {p \in Plans : pc[p] \in Shielded}
  /\ pc' = [p \in Plans |->
              IF pc[p] \in ({"approval"} \cup Working) \ Shielded
              THEN "cancelled" ELSE pc[p]]
  /\ submitLock' = IF submitLock \in cancelled' THEN submitLock ELSE None
  /\ UNCHANGED <<attempted, outcome,
                 contextVars, brokerVars, auditVars, historyVars>>

(* A new process starts with empty memory; the file and the broker remain. *)
Restart ==
  /\ lives < MaxLives
  /\ lives' = lives + 1
  /\ submitLock' = None
  /\ attempted' = {}
  /\ cancelled' = {}
  /\ quitting' = FALSE
  /\ lifePosts' = [i \in Intents |-> 0]
  /\ pc' = [p \in Plans |->
              IF pc[p] \in {"approval"} \cup Working THEN "dead" ELSE pc[p]]
  /\ UNCHANGED <<outcome, contextVars, brokerVars, auditVars, posted>>

(* The process is killed anywhere and started again. *)
Crash == ~quitting /\ Restart

(* After a quit the process ends when no worker is left. *)
Relaunch ==
  /\ quitting
  /\ \A p \in Plans : pc[p] \notin Working
  /\ Restart

-----------------------------------------------------------------------------
(* The world: the clock, the market feed, the operator's other keys. *)
PlanExpires(p) ==
  /\ pc[p] \in {"approval", "thread"} \cup Preflight
  /\ expired' = expired \cup {p}
  /\ UNCHANGED <<memoryVars, stale, appSymbol, brokerVars, auditVars, historyVars>>

QuoteFreshnessChanges ==
  /\ stale' = ~stale
  /\ UNCHANGED <<memoryVars, expired, appSymbol, brokerVars, auditVars, historyVars>>

SymbolSwitched ==
  /\ \E s \in Symbols \ {appSymbol} : appSymbol' = s
  /\ UNCHANGED <<memoryVars, expired, stale, brokerVars, auditVars, historyVars>>

(* The broker, or the network on the way to it (external). *)
BrokerOpens(p) ==
  /\ p \in wire
  /\ wire' = wire \ {p}
  /\ opened' = opened \cup {p}
  /\ open' = open \cup {p}
  /\ reply' = [reply EXCEPT ![p] = IF pc[p] = "posting" THEN "opened" ELSE @]
  /\ UNCHANGED <<memoryVars, contextVars, auditVars, historyVars>>

BrokerRefuses(p) ==
  /\ p \in wire
  /\ wire' = wire \ {p}
  /\ reply' = [reply EXCEPT ![p] = IF pc[p] = "posting" THEN "refused" ELSE @]
  /\ UNCHANGED <<memoryVars, contextVars, opened, open, auditVars, historyVars>>

PostLost(p) ==
  /\ p \in wire
  /\ wire' = wire \ {p}
  /\ UNCHANGED <<memoryVars, contextVars, reply, opened, open, auditVars, historyVars>>

OrderCloses(p) ==
  /\ p \in open
  /\ open' = open \ {p}
  /\ UNCHANGED <<memoryVars, contextVars, wire, reply, opened, auditVars, historyVars>>

-----------------------------------------------------------------------------
Worker(p) ==
  \/ PreflightStep(p) \/ OrdersRead(p) \/ PreflightFails(p) \/ TokenReady(p)
  \/ FactoryFails(p) \/ GateBlocks(p) \/ SendPost(p) \/ SubmitReturns(p)
  \/ AppendAudit(p) \/ Reconcile(p)

Operator(p) == Confirm(p) \/ Enter(p) \/ Dismiss(p)

Broker(p) == BrokerOpens(p) \/ BrokerRefuses(p) \/ PostLost(p) \/ OrderCloses(p)

Next ==
  \/ \E p \in Plans : Worker(p) \/ Operator(p) \/ Broker(p) \/ PlanExpires(p)
  \/ QuoteFreshnessChanges \/ SymbolSwitched
  \/ Quit \/ Crash \/ Relaunch

Spec == Init /\ [][Next]_vars

(* A started worker keeps running: every GET and the POST have HTTP        *)
(* timeouts, and the thread's file operations return.                      *)
FairSpec == Spec /\ \A p \in Plans : WF_vars(Worker(p))

-----------------------------------------------------------------------------
(* At most one POST is sent for a fingerprint in one life of the process,  *)
(* whichever plans share it and however earlier attempts ended (README     *)
(* v0.8.0: the POST happens at most once per plan and is never retried).   *)
AtMostOncePerLife == \A i \in Intents : lifePosts[i] <= 1

(* A worker that sent its POST never ends, normally or by a quit, without  *)
(* an outcome and either a durable audit line with that outcome or the     *)
(* AUDIT FAILURE warning: the shield of _to_thread_uninterruptibly.        *)
NoSilentPost ==
  \A p \in posted :
    pc[p] \in {"done", "cancelled"} =>
      /\ outcome[p] \in Statuses
      /\ log[p] = outcome[p] \/ p \in auditFailed

(* A definite audit line is true of the broker: an accepted order was      *)
(* opened, a rejected one never was nor can still arrive; only ambiguous   *)
(* lines leave it open.                                                    *)
AuditTellsTruth ==
  \A p \in Plans :
    /\ log[p] = "accepted" => p \in opened
    /\ log[p] = "rejected" => p \notin opened \cup wire

(* Two open orders of this app on one symbol and side only coexist when    *)
(* the POST of one of them was ambiguous or died with its process: the     *)
(* submit lock keeps the duplicate check valid until the POST is answered. *)
OneOpenOrderPerSide ==
  \A p, q \in open :
    p # q /\ SameTarget(p, q) =>
      \E r \in {p, q} : outcome[r] = "ambiguous" \/ pc[r] = "dead"

(* The submit lock is taken exactly while one plan is between the entry of *)
(* its worker and its end: no return, failing await or quit keeps it, which*)
(* would block every later order, and none gives it back too early.        *)
LockIsTheWorkers == \A p \in Plans : submitLock = p <=> pc[p] \in Working

(* Documented for v0.10.1: while the quote is stale, live orders are       *)
(* blocked.  The freshness test runs once, before four awaits.             *)
NoPostOnStaleQuote ==
  [][\A p \in Plans : p \in posted' \ posted => ~stale]_vars

(* The detailed path implements the one-shot promise: the app's ledger is  *)
(* the reservation, and each POST the executor sends is its one send.      *)
OneShot == INSTANCE OneShotOrder
             WITH Fingerprints <- Intents, reserved <- attempted, sends <- lifePosts

ImplementsOneShot == OneShot!Spec
=============================================================================
