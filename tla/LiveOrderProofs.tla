--------------------------- MODULE LiveOrderProofs ---------------------------
(***************************************************************************)
(* Proofs about LiveOrder for every set of plans, intents and symbols and  *)
(* every number of process lives.                                          *)
(***************************************************************************)
EXTENDS LiveOrder, TLAPS

-----------------------------------------------------------------------------
(* LiveOrder never leaves its types, whatever the interleaving of worker,  *)
(* operator, broker, quit and crash.                                       *)
THEOREM TypeCorrect == Spec => []TypeOK
<1> USE LiveOrderAssumption DEF TypeOK, Preflight, InThread, Working, Statuses
<1>1. Init => TypeOK
  <2> HAVE Init
  <2>1. 1 \in 1 .. MaxLives
    BY DEF LiveOrderAssumption
  <2>2. /\ reply \in [Plans -> {"none", "opened", "refused"}]
        /\ log \in [Plans -> {"none"} \cup Statuses]
        /\ outcome \in [Plans -> {"none", "blocked"} \cup Statuses]
    BY DEF Init
  <2>3. QED BY <2>1, <2>2 DEF Init
<1>2. TypeOK /\ [Next]_vars => TypeOK'
  <2> SUFFICES ASSUME TypeOK, [Next]_vars PROVE TypeOK'
    OBVIOUS
  <2> USE DEF memoryVars, contextVars, brokerVars, auditVars, historyVars
  <2>1. ASSUME NEW p \in Plans, Worker(p) PROVE TypeOK'
    <3>1. CASE PreflightStep(p)  BY <3>1 DEF PreflightStep
    <3>2. CASE OrdersRead(p)     BY <3>2 DEF OrdersRead
    <3>3. CASE PreflightFails(p) BY <3>3 DEF PreflightFails, Leave
    <3>4. CASE TokenReady(p)     BY <3>4 DEF TokenReady, Reservation, Fp
    <3>5. CASE FactoryFails(p)   BY <3>5 DEF FactoryFails, Leave
    <3>6. CASE GateBlocks(p)     BY <3>6 DEF GateBlocks
    <3>7. CASE SendPost(p)       BY <3>7 DEF SendPost, Fp
    <3>8. CASE SubmitReturns(p)
      <4>1. ResultsFor(reply[p]) \in SUBSET Statuses
        BY DEF ResultsFor
      <4>2. QED BY <3>8, <4>1 DEF SubmitReturns
    <3>9. CASE AppendAudit(p)
      <4>1. outcome[p] # "blocked" /\ outcome[p] # "none" => outcome[p] \in Statuses
        OBVIOUS
      <4>2. QED BY <3>9, <4>1 DEF AppendAudit, Leave
    <3>10. CASE Reconcile(p)     BY <3>10 DEF Reconcile, Leave
    <3>11. QED
      BY <2>1, <3>1, <3>2, <3>3, <3>4, <3>5, <3>6, <3>7, <3>8, <3>9, <3>10 DEF Worker
  <2>2. ASSUME NEW p \in Plans, Operator(p) PROVE TypeOK'
    BY <2>2 DEF Operator, Confirm, Enter, Dismiss
  <2>3. ASSUME NEW p \in Plans, Broker(p) PROVE TypeOK'
    BY <2>3 DEF Broker, BrokerOpens, BrokerRefuses, PostLost, OrderCloses
  <2>4. ASSUME NEW p \in Plans, PlanExpires(p) PROVE TypeOK'
    BY <2>4 DEF PlanExpires
  <2>5. CASE QuoteFreshnessChanges \/ SymbolSwitched
    BY <2>5 DEF QuoteFreshnessChanges, SymbolSwitched
  <2>6. CASE Quit
    BY <2>6 DEF Quit, Shielded
  <2>7. CASE Crash \/ Relaunch
    <3>1. Restart
      BY <2>7 DEF Crash, Relaunch
    <3>2. lives' \in 1 .. MaxLives
      BY <3>1 DEF Restart, LiveOrderAssumption
    <3>3. QED BY <3>1, <3>2 DEF Restart
  <2>8. CASE UNCHANGED vars
    BY <2>8 DEF vars
  <2>9. QED
    BY <2>1, <2>2, <2>3, <2>4, <2>5, <2>6, <2>7, <2>8 DEF Next
<1>3. QED
  BY <1>1, <1>2, PTL DEF Spec

-----------------------------------------------------------------------------
(* The strengthening behind the one-shot promise.  Only the worker that    *)
(* holds the submit lock is between its first await and its end, so nobody *)
(* else can reserve its fingerprint after its own check; a plan reaches    *)
(* the thread with its fingerprint reserved and nothing sent for it.       *)
LockDiscipline == \A p \in Plans : pc[p] \in Working => submitLock = p

(* The fingerprint of a plan between its awaits is not reserved. *)
CheckStillHolds == \A p \in Plans : pc[p] \in Preflight => Fp(p) \notin attempted

(* In the thread the fingerprint is reserved, and nothing sent for it. *)
SendIsFirst ==
  \A p \in Plans : pc[p] = "thread" => Fp(p) \in attempted /\ lifePosts[Fp(p)] = 0

(* One POST per fingerprint and life, and only of a reserved one. *)
SentIsReserved ==
  \A i \in Intents : lifePosts[i] = 0 \/ (lifePosts[i] = 1 /\ i \in attempted)

(* The inductive invariant of the one-shot promise. *)
OneShotInv == LockDiscipline /\ CheckStillHolds /\ SendIsFirst /\ SentIsReserved

(* The steps that touch neither the process's memory nor the counts. *)
WorldStep ==
  UNCHANGED <<pc, submitLock, attempted, outcome, cancelled, quitting,
              posted, lifePosts, lives, log, auditFailed>>

(* Broker, network and clock leave the process and the audit file alone. *)
LEMMA WorldSteps ==
  ASSUME NEW p \in Plans, Broker(p) \/ PlanExpires(p)
  PROVE  WorldStep
BY DEF WorldStep, Broker, BrokerOpens, BrokerRefuses, PostLost, OrderCloses,
       PlanExpires, memoryVars, contextVars, auditVars, historyVars

(* So do the market feed and the symbol switch. *)
LEMMA MarketSteps ==
  ASSUME QuoteFreshnessChanges \/ SymbolSwitched
  PROVE  WorldStep
BY DEF WorldStep, QuoteFreshnessChanges, SymbolSwitched,
       memoryVars, auditVars, historyVars

(* Every step preserves the strengthening. *)
LEMMA OneShotStep == TypeOK /\ OneShotInv /\ [Next]_vars => OneShotInv'
<1> USE LiveOrderAssumption DEF LiveOrderAssumption, OneShotInv, LockDiscipline,
        CheckStillHolds, SendIsFirst, SentIsReserved,
        Preflight, InThread, Working, Fp
<1> SUFFICES ASSUME TypeOK, OneShotInv, [Next]_vars PROVE OneShotInv'
  OBVIOUS
<1>0. /\ pc \in [Plans -> {"idle", "approval", "done", "cancelled", "dead"} \cup Working]
      /\ lifePosts \in [Intents -> Nat]
      /\ attempted \in SUBSET Intents
      /\ IntentOf \in [Plans -> Intents]
  BY DEF TypeOK
<1> HIDE DEF OneShotInv
<1>1. ASSUME NEW p \in Plans, Worker(p) PROVE OneShotInv'
  <2> USE <1>0 DEF OneShotInv, historyVars
  <2>1. CASE PreflightStep(p)  BY <2>1 DEF PreflightStep
  <2>2. CASE OrdersRead(p)     BY <2>2 DEF OrdersRead
  <2>3. CASE PreflightFails(p) BY <2>3 DEF PreflightFails, Leave
  <2>4. CASE TokenReady(p)     BY <2>4 DEF TokenReady, Reservation
  <2>5. CASE FactoryFails(p)   BY <2>5 DEF FactoryFails, Leave
  <2>6. CASE GateBlocks(p)     BY <2>6 DEF GateBlocks
  <2>7. CASE SendPost(p)       BY <2>7 DEF SendPost
  <2>8. CASE SubmitReturns(p)  BY <2>8 DEF SubmitReturns
  <2>9. CASE AppendAudit(p)    BY <2>9 DEF AppendAudit, Leave
  <2>10. CASE Reconcile(p)     BY <2>10 DEF Reconcile, Leave
  <2>11. QED
    BY <1>1, <2>1, <2>2, <2>3, <2>4, <2>5, <2>6, <2>7, <2>8, <2>9, <2>10 DEF Worker
<1>2. ASSUME NEW p \in Plans, Operator(p) PROVE OneShotInv'
  <2> USE <1>0 DEF OneShotInv, historyVars
  <2>1. CASE Confirm(p) BY <2>1 DEF Confirm
  <2>2. CASE Enter(p)   BY <2>2 DEF Enter, EntryBlocked, SubmitBusy
  <2>3. CASE Dismiss(p) BY <2>3 DEF Dismiss
  <2>4. QED BY <1>2, <2>1, <2>2, <2>3 DEF Operator
<1>3. ASSUME WorldStep PROVE OneShotInv'
  BY <1>3 DEF WorldStep, OneShotInv
<1>4. CASE Quit
  BY <1>0, <1>4 DEF Quit, Shielded, historyVars, OneShotInv
<1>5. CASE Crash \/ Relaunch
  BY <1>0, <1>5 DEF Crash, Relaunch, Restart, OneShotInv
<1>6. CASE UNCHANGED vars
  BY <1>6 DEF vars, memoryVars, historyVars, OneShotInv
<1>7. QED
  BY <1>1, <1>2, <1>3, <1>4, <1>5, <1>6, WorldSteps, MarketSteps DEF Next

(* The strengthening is an invariant. *)
LEMMA OneShotHolds == Spec => [](TypeOK /\ OneShotInv)
<1>1. Init => OneShotInv
  BY DEF Init, OneShotInv, LockDiscipline, CheckStillHolds, SendIsFirst,
         SentIsReserved, Preflight, InThread, Working
<1>2. QED
  BY <1>1, OneShotStep, TypeCorrect, PTL DEF Spec

(* Nor is the lock ever without its worker: whoever holds it is still on   *)
(* its way to the end of the block.                                        *)
HolderWorks == \A p \in Plans : submitLock = p => pc[p] \in Working

(* Every step keeps the holder of the lock at work. *)
LEMMA HolderWorksStep == TypeOK /\ HolderWorks /\ [Next]_vars => HolderWorks'
<1> USE LiveOrderAssumption DEF LiveOrderAssumption, HolderWorks, Preflight, InThread, Working
<1> SUFFICES ASSUME TypeOK, HolderWorks, [Next]_vars PROVE HolderWorks'
  OBVIOUS
<1>0. pc \in [Plans -> {"idle", "approval", "done", "cancelled", "dead"} \cup Working]
  BY DEF TypeOK
<1>1. ASSUME NEW p \in Plans, Worker(p) PROVE HolderWorks'
  BY <1>0, <1>1 DEF Worker, PreflightStep, OrdersRead, PreflightFails, TokenReady, FactoryFails,
     GateBlocks, SendPost, SubmitReturns, AppendAudit, Reconcile, Leave
<1>2. ASSUME NEW p \in Plans, Operator(p) PROVE HolderWorks'
  BY <1>0, <1>2 DEF Operator, Confirm, Enter, Dismiss
<1>3. ASSUME WorldStep PROVE HolderWorks'
  BY <1>3 DEF WorldStep
<1>4. CASE Quit
  BY <1>0, <1>4 DEF Quit, Shielded
<1>5. CASE Crash \/ Relaunch
  BY <1>0, <1>5 DEF Crash, Relaunch, Restart
<1>6. CASE UNCHANGED vars
  BY <1>6 DEF vars, memoryVars
<1>7. QED
  BY <1>1, <1>2, <1>3, <1>4, <1>5, <1>6, WorldSteps, MarketSteps DEF Next

(* The submit lock is held exactly by the plan whose worker is under way.  *)
THEOREM LockFollowsTheWorker == Spec => []LockIsTheWorkers
<1>1. Init => HolderWorks
  BY LiveOrderAssumption DEF Init, HolderWorks, LiveOrderAssumption
<1>2. OneShotInv /\ HolderWorks => LockIsTheWorkers
  BY DEF OneShotInv, LockDiscipline, HolderWorks, LockIsTheWorkers
<1>3. QED
  BY <1>1, <1>2, HolderWorksStep, TypeCorrect, OneShotHolds, PTL DEF Spec

(* At most one POST per fingerprint and process life, whatever plans share *)
(* the fingerprint and whenever the operator quits or the process dies.    *)
THEOREM OnePostPerLife == Spec => []AtMostOncePerLife
<1>1. OneShotInv => AtMostOncePerLife
  BY DEF OneShotInv, SentIsReserved, AtMostOncePerLife
<1>2. QED
  BY <1>1, OneShotHolds, PTL

(* The detailed path implements the abstract one-shot promise. *)
THEOREM RefinesOneShot == Spec => ImplementsOneShot
<1>1. Init => OneShot!Init
  BY DEF Init, OneShot!Init
<1>2. TypeOK /\ OneShotInv /\ [Next]_vars => [OneShot!Next]_(OneShot!oneShotVars)
  <2> SUFFICES ASSUME TypeOK, OneShotInv, [Next]_vars,
                      ~ UNCHANGED <<attempted, lifePosts>>
               PROVE  OneShot!Next
    BY DEF OneShot!oneShotVars
  <2>0. /\ pc \in [Plans -> {"idle", "approval", "done", "cancelled", "dead"} \cup Working]
        /\ lifePosts \in [Intents -> Nat]
        /\ IntentOf \in [Plans -> Intents]
    BY LiveOrderAssumption DEF TypeOK, LiveOrderAssumption
  <2>1. ASSUME NEW p \in Plans, TokenReady(p) PROVE OneShot!Next
    <3>1. Fp(p) \in Intents /\ Fp(p) \notin attempted
      BY <2>0, <2>1 DEF Fp, OneShotInv, CheckStillHolds, TokenReady, Preflight
    <3>2. OneShot!Reserve(Fp(p))
      BY <2>1, <3>1 DEF TokenReady, Reservation, OneShot!Reserve, historyVars
    <3>3. QED BY <3>1, <3>2 DEF OneShot!Next
  <2>2. ASSUME NEW p \in Plans, SendPost(p) PROVE OneShot!Next
    <3>1. Fp(p) \in Intents /\ Fp(p) \in attempted /\ lifePosts[Fp(p)] = 0
      BY <2>0, <2>2 DEF Fp, OneShotInv, SendIsFirst, SendPost
    <3>2. OneShot!Send(Fp(p))
      BY <2>0, <2>2, <3>1 DEF SendPost, OneShot!Send
    <3>3. QED BY <3>1, <3>2 DEF OneShot!Next
  <2>3. CASE Crash \/ Relaunch
    <3>1. OneShot!Forget
      BY <2>3 DEF Crash, Relaunch, Restart, OneShot!Forget
    <3>2. QED BY <3>1 DEF OneShot!Next
  <2>4. ASSUME NEW p \in Plans, Worker(p), ~TokenReady(p), ~SendPost(p) PROVE FALSE
    BY <2>4 DEF Worker, PreflightStep, OrdersRead, PreflightFails, FactoryFails,
                GateBlocks, SubmitReturns, AppendAudit, Reconcile, historyVars
  <2>5. ASSUME NEW p \in Plans, Operator(p) PROVE FALSE
    BY <2>5 DEF Operator, Confirm, Enter, Dismiss, historyVars
  <2>6. ASSUME WorldStep PROVE FALSE
    BY <2>6 DEF WorldStep
  <2>7. CASE Quit
    BY <2>7 DEF Quit, historyVars
  <2>8. CASE UNCHANGED vars
    BY <2>8 DEF vars, memoryVars, historyVars
  <2>9. QED
    BY <2>1, <2>2, <2>3, <2>4, <2>5, <2>6, <2>7, <2>8, WorldSteps, MarketSteps DEF Next
<1>3. QED
  BY <1>1, <1>2, OneShotHolds, PTL DEF Spec, ImplementsOneShot, OneShot!Spec

-----------------------------------------------------------------------------
(***************************************************************************)
(* What remains after a POST: evidence of it, evidence that is true, and   *)
(* no second open order beside one whose POST was answered.                *)
(***************************************************************************)

(* The places after and before the answer to the POST. *)
Sent == {"posting", "append", "reconcile", "done", "cancelled", "dead"}
NotYetAnswered == {"idle", "approval", "thread", "posting"} \cup Preflight

(* Where a plan with a POST can be, and what is known of it there. *)
PostedIsPast == \A p \in posted : pc[p] \in Sent

(* A POST that came back has a classified outcome. *)
AnswerKept == \A p \in posted : pc[p] = "append" => outcome[p] \in Statuses

(* After the append: an outcome, and its line or the failure warning. *)
EvidenceKept ==
  \A p \in posted :
    pc[p] \in {"reconcile", "done", "cancelled"} =>
      /\ outcome[p] \in Statuses
      /\ log[p] = outcome[p] \/ p \in auditFailed

(* Before the answer there is no outcome. *)
NoOutcomeYet == \A p \in Plans : pc[p] \in NotYetAnswered => outcome[p] = "none"

(* The inductive invariant of the evidence. *)
EvidenceInv == PostedIsPast /\ AnswerKept /\ EvidenceKept /\ NoOutcomeYet

(* Every step keeps the evidence of a POST. *)
LEMMA EvidenceStep == TypeOK /\ EvidenceInv /\ [Next]_vars => EvidenceInv'
<1> USE DEF EvidenceInv, PostedIsPast, AnswerKept, EvidenceKept, NoOutcomeYet,
        Sent, NotYetAnswered, Preflight, InThread, Working, Statuses
<1> SUFFICES ASSUME TypeOK, EvidenceInv, [Next]_vars PROVE EvidenceInv'
  OBVIOUS
<1>0. /\ pc \in [Plans -> {"idle", "approval", "done", "cancelled", "dead"} \cup Working]
      /\ outcome \in [Plans -> {"none", "blocked"} \cup Statuses]
      /\ log \in [Plans -> {"none"} \cup Statuses]
      /\ reply \in [Plans -> {"none", "opened", "refused"}]
      /\ posted \in SUBSET Plans
  BY DEF TypeOK
<1> HIDE DEF EvidenceInv
<1>1. ASSUME NEW p \in Plans, Worker(p) PROVE EvidenceInv'
  <2> USE <1>0 DEF EvidenceInv, historyVars, auditVars
  <2>1. CASE PreflightStep(p)  BY <2>1 DEF PreflightStep
  <2>2. CASE OrdersRead(p)     BY <2>2 DEF OrdersRead
  <2>3. CASE PreflightFails(p) BY <2>3 DEF PreflightFails, Leave
  <2>4. CASE TokenReady(p)     BY <2>4 DEF TokenReady
  <2>5. CASE FactoryFails(p)   BY <2>5 DEF FactoryFails, Leave
  <2>6. CASE GateBlocks(p)     BY <2>6 DEF GateBlocks
  <2>7. CASE SendPost(p)       BY <2>7 DEF SendPost
  <2>8. CASE SubmitReturns(p)
    <3>1. ResultsFor(reply[p]) \in SUBSET Statuses
      BY DEF ResultsFor
    <3>2. QED BY <2>8, <3>1 DEF SubmitReturns
  <2>9. CASE AppendAudit(p)    BY <2>9 DEF AppendAudit, Leave
  <2>10. CASE Reconcile(p)     BY <2>10 DEF Reconcile, Leave
  <2>11. QED
    BY <1>1, <2>1, <2>2, <2>3, <2>4, <2>5, <2>6, <2>7, <2>8, <2>9, <2>10 DEF Worker
<1>2. ASSUME NEW p \in Plans, Operator(p) PROVE EvidenceInv'
  <2> USE <1>0 DEF EvidenceInv, historyVars, auditVars
  <2>1. CASE Confirm(p) BY <2>1 DEF Confirm
  <2>2. CASE Enter(p)   BY <2>2 DEF Enter
  <2>3. CASE Dismiss(p) BY <2>3 DEF Dismiss
  <2>4. QED BY <1>2, <2>1, <2>2, <2>3 DEF Operator
<1>3. ASSUME WorldStep PROVE EvidenceInv'
  BY <1>3 DEF WorldStep, EvidenceInv
<1>4. CASE Quit
  BY <1>0, <1>4 DEF Quit, Shielded, historyVars, auditVars, EvidenceInv
<1>5. CASE Crash \/ Relaunch
  BY <1>0, <1>5 DEF Crash, Relaunch, Restart, auditVars, EvidenceInv
<1>6. CASE UNCHANGED vars
  BY <1>6 DEF vars, memoryVars, historyVars, auditVars, EvidenceInv
<1>7. QED
  BY <1>1, <1>2, <1>3, <1>4, <1>5, <1>6, WorldSteps, MarketSteps DEF Next

(* The evidence is an invariant. *)
LEMMA EvidenceHolds == Spec => [](TypeOK /\ EvidenceInv)
<1>1. Init => EvidenceInv
  BY DEF Init, EvidenceInv, PostedIsPast, AnswerKept, EvidenceKept, NoOutcomeYet,
         NotYetAnswered, Preflight
<1>2. QED
  BY <1>1, EvidenceStep, TypeCorrect, PTL DEF Spec

(* A worker that sent its POST never ends, not even by a quit, without its *)
(* outcome and a durable audit line or the AUDIT FAILURE warning.          *)
THEOREM PostLeavesEvidence == Spec => []NoSilentPost
<1>1. EvidenceInv => NoSilentPost
  BY DEF EvidenceInv, EvidenceKept, NoSilentPost
<1>2. QED
  BY <1>1, EvidenceHolds, PTL

-----------------------------------------------------------------------------
(* The chain from the broker's decision through the answer and the outcome *)
(* to the audit line: each link is true of the broker.                     *)
OnlyPostsTravel ==
  /\ wire \cup opened \subseteq posted
  /\ wire \cap opened = {}

(* What the broker has answered is so. *)
ReplyIsTrue ==
  \A p \in Plans :
    /\ reply[p] = "opened" => p \in opened
    /\ reply[p] = "refused" => p \notin opened \cup wire
    /\ reply[p] # "none" => p \in posted

(* What the executor has made of the answer is so. *)
OutcomeIsTrue ==
  \A p \in Plans :
    /\ outcome[p] = "accepted" => p \in opened
    /\ outcome[p] = "rejected" => p \notin opened \cup wire

(* The line says the outcome, and is written after it. *)
LineIsOutcome ==
  \A p \in Plans :
    log[p] # "none" =>
      /\ log[p] = outcome[p]
      /\ pc[p] \in {"reconcile", "done", "cancelled", "dead"}

(* The inductive invariant of the truth of the evidence. *)
TruthInv == OnlyPostsTravel /\ ReplyIsTrue /\ OutcomeIsTrue /\ LineIsOutcome

(* Every step keeps each link of the chain true. *)
LEMMA TruthStep == TypeOK /\ EvidenceInv /\ TruthInv /\ [Next]_vars => TruthInv'
<1> USE DEF TruthInv, OnlyPostsTravel, ReplyIsTrue, OutcomeIsTrue, LineIsOutcome,
        Preflight, InThread, Working, Statuses
<1> SUFFICES ASSUME TypeOK, EvidenceInv, TruthInv, [Next]_vars PROVE TruthInv'
  OBVIOUS
<1>0. /\ pc \in [Plans -> {"idle", "approval", "done", "cancelled", "dead"} \cup Working]
      /\ outcome \in [Plans -> {"none", "blocked"} \cup Statuses]
      /\ log \in [Plans -> {"none"} \cup Statuses]
      /\ reply \in [Plans -> {"none", "opened", "refused"}]
      /\ posted \in SUBSET Plans /\ wire \in SUBSET Plans /\ opened \in SUBSET Plans
  BY DEF TypeOK
<1>0a. /\ \A p \in posted : pc[p] \in Sent
       /\ \A p \in Plans : pc[p] \in NotYetAnswered => outcome[p] = "none"
  BY DEF EvidenceInv, PostedIsPast, NoOutcomeYet
<1> HIDE DEF TruthInv
<1>1. ASSUME NEW p \in Plans, Worker(p) PROVE TruthInv'
  <2> USE <1>0 DEF TruthInv, brokerVars, auditVars, historyVars
  <2>1. CASE PreflightStep(p)  BY <2>1 DEF PreflightStep
  <2>2. CASE OrdersRead(p)     BY <2>2 DEF OrdersRead
  <2>3. CASE PreflightFails(p) BY <2>3 DEF PreflightFails, Leave
  <2>4. CASE TokenReady(p)     BY <2>4 DEF TokenReady
  <2>5. CASE FactoryFails(p)   BY <2>5 DEF FactoryFails, Leave
  <2>6. CASE GateBlocks(p)     BY <2>6 DEF GateBlocks
  <2>7. CASE SendPost(p)
    <3>1. p \notin posted /\ outcome[p] = "none"
      BY <1>0a, <2>7 DEF SendPost, Sent, NotYetAnswered
    <3>2. QED BY <2>7, <3>1 DEF SendPost
  <2>8. CASE SubmitReturns(p)
    <3>1. PICK s \in ResultsFor(reply[p]) : outcome' = [outcome EXCEPT ![p] = s]
      BY <2>8 DEF SubmitReturns
    <3>2. /\ s = "accepted" => reply[p] = "opened"
          /\ s = "rejected" => reply[p] = "refused"
      BY <3>1 DEF ResultsFor
    <3>3. log[p] = "none"
      BY <2>8 DEF SubmitReturns
    <3>4. QED BY <2>8, <3>1, <3>2, <3>3 DEF SubmitReturns
  <2>9. CASE AppendAudit(p)    BY <2>9 DEF AppendAudit, Leave
  <2>10. CASE Reconcile(p)     BY <2>10 DEF Reconcile, Leave
  <2>11. QED
    BY <1>1, <2>1, <2>2, <2>3, <2>4, <2>5, <2>6, <2>7, <2>8, <2>9, <2>10 DEF Worker
<1>2. ASSUME NEW p \in Plans, Operator(p) PROVE TruthInv'
  <2> USE <1>0 DEF TruthInv, brokerVars, auditVars, historyVars
  <2>1. CASE Confirm(p) BY <2>1 DEF Confirm
  <2>2. CASE Enter(p)   BY <2>2 DEF Enter
  <2>3. CASE Dismiss(p) BY <2>3 DEF Dismiss
  <2>4. QED BY <1>2, <2>1, <2>2, <2>3 DEF Operator
<1>3. ASSUME NEW p \in Plans, Broker(p) PROVE TruthInv'
  <2> USE <1>0 DEF TruthInv, memoryVars, auditVars, historyVars
  <2>1. CASE BrokerOpens(p)   BY <2>1 DEF BrokerOpens
  <2>2. CASE BrokerRefuses(p) BY <2>2 DEF BrokerRefuses
  <2>3. CASE PostLost(p)      BY <2>3 DEF PostLost
  <2>4. CASE OrderCloses(p)   BY <2>4 DEF OrderCloses
  <2>5. QED BY <1>3, <2>1, <2>2, <2>3, <2>4 DEF Broker
<1>4. ASSUME NEW p \in Plans, PlanExpires(p) PROVE TruthInv'
  BY <1>4 DEF PlanExpires, memoryVars, brokerVars, auditVars, historyVars, TruthInv
<1>5. CASE QuoteFreshnessChanges \/ SymbolSwitched
  BY <1>5 DEF QuoteFreshnessChanges, SymbolSwitched, memoryVars, brokerVars,
              auditVars, historyVars, TruthInv
<1>6. CASE Quit
  BY <1>0, <1>6 DEF Quit, Shielded, brokerVars, historyVars, auditVars, TruthInv
<1>7. CASE Crash \/ Relaunch
  BY <1>0, <1>7 DEF Crash, Relaunch, Restart, brokerVars, auditVars, TruthInv
<1>8. CASE UNCHANGED vars
  BY <1>8 DEF vars, memoryVars, brokerVars, historyVars, auditVars, TruthInv
<1>9. QED
  BY <1>1, <1>2, <1>3, <1>4, <1>5, <1>6, <1>7, <1>8 DEF Next

(* The chain is an invariant. *)
LEMMA TruthHolds == Spec => [](TypeOK /\ EvidenceInv /\ TruthInv)
<1>1. Init => TruthInv
  BY DEF Init, TruthInv, OnlyPostsTravel, ReplyIsTrue, OutcomeIsTrue, LineIsOutcome
<1>2. QED
  BY <1>1, TruthStep, EvidenceHolds, PTL DEF Spec

(* A definite audit line is true of the broker: accepted orders exist,     *)
(* rejected ones neither exist nor can still arrive.                       *)
THEOREM AuditIsTrue == Spec => []AuditTellsTruth
<1>1. TruthInv => AuditTellsTruth
  BY DEF TruthInv, OutcomeIsTrue, LineIsOutcome, AuditTellsTruth
<1>2. QED
  BY <1>1, TruthHolds, PTL

-----------------------------------------------------------------------------
(***************************************************************************)
(* The duplicate check stays valid until the POST it guards is answered:   *)
(* two open orders of one side need an unanswered POST.                    *)
(***************************************************************************)

(* Nobody knows what became of the POST of p. *)
Uncertain(p) == outcome[p] = "ambiguous" \/ pc[p] = "dead"

(* A POST still travelling is the current one or one nobody answered. *)
TravellersAreUncertain ==
  \A q \in wire : pc[q] = "posting" \/ Uncertain(q)

(* Past the duplicate check, an open order of that side was unanswered. *)
CheckedAlone ==
  \A p \in Plans : pc[p] \in {"prepare", "token", "thread"} =>
    \A q \in open : SameTarget(p, q) => Uncertain(q)

(* Of two orders of one side, one has an unknown outcome. *)
PairsAreUncertain ==
  \A p, q \in open \cup wire :
    p # q /\ SameTarget(p, q) => Uncertain(p) \/ Uncertain(q)

(* The inductive invariant of the open orders of a side. *)
SideInv == TravellersAreUncertain /\ CheckedAlone /\ PairsAreUncertain

(* Trading one symbol and side is symmetric. *)
LEMMA SameTargetSymmetric ==
  ASSUME NEW p, NEW q, SameTarget(p, q)
  PROVE  SameTarget(q, p)
BY DEF SameTarget

(* Everything the step lemma uses of the earlier invariants. *)
Known ==
  /\ pc \in [Plans -> {"idle", "approval", "done", "cancelled", "dead"} \cup Working]
  /\ outcome \in [Plans -> {"none", "blocked"} \cup Statuses]
  /\ wire \in SUBSET Plans /\ open \in SUBSET Plans /\ posted \in SUBSET Plans
  /\ LockDiscipline
  /\ NoOutcomeYet
  /\ ReplyIsTrue /\ wire \cap opened = {}
  /\ wire \cup open \subseteq posted
  /\ PostedIsPast

(* The invariants proved so far give these facts. *)
LEMMA KnownFacts == TypeOK /\ OneShotInv /\ EvidenceInv /\ TruthInv => Known
BY DEF Known, TypeOK, OneShotInv, EvidenceInv, TruthInv, OnlyPostsTravel

(* A step that answers no POST, sends none, opens nothing and passes no    *)
(* duplicate check keeps the invariant, when no dead worker comes back.    *)
LEMMA QuietStep ==
  ASSUME Known, SideInv, open' \subseteq open, wire' \subseteq wire,
         \A q \in Plans : pc[q] = "dead" => pc'[q] = "dead",
         \A q \in wire : pc[q] = "posting" => pc'[q] \in {"posting", "dead"},
         \A q \in Plans : pc'[q] \in {"prepare", "token", "thread"} =>
                            pc[q] \in {"prepare", "token", "thread"},
         \A q \in posted : outcome[q] = "ambiguous" => outcome'[q] = "ambiguous"
  PROVE  SideInv'
<1> USE DEF SideInv, Uncertain
<1>1. \A q \in open \cup wire : Uncertain(q) => Uncertain(q)'
  BY DEF Known
<1>2. TravellersAreUncertain'
  BY <1>1 DEF Known, TravellersAreUncertain
<1>3. CheckedAlone'
  BY <1>1 DEF Known, CheckedAlone, SameTarget, Fp
<1>4. PairsAreUncertain'
  BY <1>1 DEF Known, PairsAreUncertain, SameTarget, Fp
<1>5. QED BY <1>2, <1>3, <1>4

(* Every step keeps the pairs of open orders explained. *)
LEMMA SideStep ==
  TypeOK /\ OneShotInv /\ EvidenceInv /\ TruthInv /\ SideInv /\ [Next]_vars => SideInv'
<1> SUFFICES ASSUME Known, SideInv, [Next]_vars PROVE SideInv'
  BY KnownFacts
<1>0. /\ pc \in [Plans -> {"idle", "approval", "done", "cancelled", "dead"} \cup Working]
      /\ outcome \in [Plans -> {"none", "blocked"} \cup Statuses]
      /\ wire \in SUBSET Plans /\ open \in SUBSET Plans /\ posted \in SUBSET Plans
  BY DEF Known
<1>1. ASSUME NEW p \in Plans, Worker(p) PROVE SideInv'
  <2> USE <1>0 DEF brokerVars, historyVars
  <2>1. CASE OrdersRead(p)
    <3>1. /\ UNCHANGED <<open, wire, outcome>>
          /\ \A q \in Plans : Uncertain(q)' = Uncertain(q)
          /\ \A q \in Plans : pc'[q] = "posting" <=> pc[q] = "posting"
      BY <2>1 DEF OrdersRead, Uncertain
    <3>2. CheckedAlone'
      BY <2>1, <3>1 DEF OrdersRead, Duplicates, SideInv, CheckedAlone, SameTarget, Fp
    <3>3. TravellersAreUncertain'
      BY <3>1 DEF SideInv, TravellersAreUncertain
    <3>4. PairsAreUncertain'
      BY <3>1 DEF SideInv, PairsAreUncertain, SameTarget, Fp
    <3>5. QED BY <3>2, <3>3, <3>4 DEF SideInv
  <2>2. CASE SendPost(p)
    <3>1. /\ pc[p] = "thread" /\ pc' = [pc EXCEPT ![p] = "posting"]
          /\ wire' = wire \cup {p} /\ UNCHANGED <<open, outcome>>
      BY <2>2 DEF SendPost
    <3>2. \A q \in Plans : Uncertain(q)' = Uncertain(q)
      BY <3>1 DEF Uncertain
    <3>3. \A q \in wire : Uncertain(q)
      <4> SUFFICES ASSUME NEW q \in wire, pc[q] = "posting" PROVE FALSE
        BY DEF SideInv, TravellersAreUncertain
      <4>1. submitLock = p /\ submitLock = q
        BY <3>1 DEF Known, LockDiscipline, Working, InThread
      <4>2. QED BY <4>1, <3>1
    <3>4. \A q \in open : SameTarget(p, q) => Uncertain(q)
      BY <3>1 DEF SideInv, CheckedAlone
    <3>5. CheckedAlone'
      BY <3>1, <3>2 DEF SideInv, CheckedAlone, SameTarget, Fp
    <3>6. TravellersAreUncertain'
      BY <3>1, <3>2, <3>3 DEF TravellersAreUncertain
    <3>7. PairsAreUncertain'
      <4> SUFFICES ASSUME NEW a \in open \cup wire \cup {p}, NEW b \in open \cup wire \cup {p},
                          a # b, SameTarget(a, b)
                   PROVE  Uncertain(a) \/ Uncertain(b)
        BY <3>1, <3>2 DEF PairsAreUncertain, SameTarget, Fp
      <4>1. CASE a = p
        BY <4>1, <3>3, <3>4
      <4>2. CASE b = p
        BY <4>2, <3>3, <3>4, SameTargetSymmetric
      <4>3. CASE a # p /\ b # p
        BY <4>3 DEF SideInv, PairsAreUncertain
      <4>4. QED BY <4>1, <4>2, <4>3
    <3>8. QED BY <3>5, <3>6, <3>7 DEF SideInv
  <2>3. CASE SubmitReturns(p)
    <3>1. PICK s \in ResultsFor(reply[p]) : outcome' = [outcome EXCEPT ![p] = s]
      BY <2>3 DEF SubmitReturns
    <3>2. /\ pc[p] = "posting" /\ pc' = [pc EXCEPT ![p] = "append"]
          /\ UNCHANGED <<open, wire>>
      BY <2>3 DEF SubmitReturns
    <3>3. outcome[p] = "none" /\ ~Uncertain(p)
      BY <3>2 DEF Known, NoOutcomeYet, NotYetAnswered, Uncertain
    <3>4. \A q \in Plans \ {p} : Uncertain(q)' = Uncertain(q)
      BY <3>1, <3>2 DEF Uncertain
    <3>5. p \in wire => s = "ambiguous"
      <4>1. p \in wire => reply[p] \notin {"opened", "refused"}
        BY DEF Known, ReplyIsTrue
      <4>2. QED BY <3>1, <4>1 DEF ResultsFor
    <3>6. TravellersAreUncertain'
      BY <3>1, <3>2, <3>4, <3>5 DEF SideInv, TravellersAreUncertain, Uncertain
    <3>7. CheckedAlone'
      BY <3>2, <3>3, <3>4 DEF SideInv, CheckedAlone, SameTarget, Fp
    <3>8. PairsAreUncertain'
      BY <3>2, <3>3, <3>4 DEF SideInv, PairsAreUncertain, SameTarget, Fp
    <3>9. QED BY <3>6, <3>7, <3>8 DEF SideInv
  <2>4. CASE PreflightStep(p) \/ TokenReady(p)
    BY <2>4, QuietStep DEF PreflightStep, TokenReady
  <2>5. CASE PreflightFails(p) \/ FactoryFails(p) \/ GateBlocks(p)
    <3>1. outcome[p] = "none"
      BY <2>5 DEF Known, NoOutcomeYet, NotYetAnswered, PreflightFails,
                  FactoryFails, GateBlocks
    <3>2. /\ open' = open /\ wire' = wire
          /\ pc[p] \in Preflight \cup {"thread"} /\ pc'[p] \in {"done", "append"}
          /\ \A q \in Plans \ {p} : pc'[q] = pc[q] /\ outcome'[q] = outcome[q]
      BY <2>5 DEF PreflightFails, FactoryFails, GateBlocks, Leave
    <3>3. QED
      BY <3>1, <3>2, QuietStep DEF Known, Preflight
  <2>6. CASE AppendAudit(p) \/ Reconcile(p)
    <3>1. /\ open' = open /\ wire' = wire /\ outcome' = outcome
          /\ pc[p] \in {"append", "reconcile"}
          /\ pc'[p] \in {"reconcile", "cancelled", "done"}
          /\ \A q \in Plans \ {p} : pc'[q] = pc[q]
      BY <2>6 DEF AppendAudit, Reconcile, Leave
    <3>2. QED BY <3>1, QuietStep
  <2>7. QED
    BY <1>1, <2>1, <2>2, <2>3, <2>4, <2>5, <2>6 DEF Worker
<1>2. ASSUME NEW p \in Plans, Operator(p) PROVE SideInv'
  <2>1. outcome[p] = "none"
    BY <1>2 DEF Known, NoOutcomeYet, NotYetAnswered, Operator, Confirm, Enter, Dismiss
  <2>2. /\ open' = open /\ wire' = wire
        /\ pc[p] \in {"idle", "approval"}
        /\ pc'[p] \in {"approval", "context", "done"}
        /\ \A q \in Plans \ {p} : pc'[q] = pc[q] /\ outcome'[q] = outcome[q]
    BY <1>0, <1>2 DEF Operator, Confirm, Enter, Dismiss, brokerVars
  <2>3. QED
    BY <2>1, <2>2, QuietStep DEF Known
<1>3. ASSUME NEW p \in Plans, BrokerOpens(p) PROVE SideInv'
  <2>1. /\ p \in wire /\ wire' = wire \ {p} /\ open' = open \cup {p}
        /\ UNCHANGED <<pc, outcome, submitLock>>
    BY <1>3 DEF BrokerOpens, memoryVars
  <2>2. \A q \in Plans : Uncertain(q)' = Uncertain(q)
    BY <2>1 DEF Uncertain
  <2>3. CheckedAlone'
    <3>1. ASSUME NEW r \in Plans, pc[r] \in {"prepare", "token", "thread"}
          PROVE  Uncertain(p)
      <4>1. CASE pc[p] = "posting"
        <5>1. submitLock = p /\ submitLock = r
          BY <1>0, <3>1, <4>1 DEF Known, LockDiscipline, Working, InThread, Preflight
        <5>2. QED BY <5>1, <3>1, <4>1
      <4>2. CASE pc[p] # "posting"
        BY <2>1, <4>2 DEF SideInv, TravellersAreUncertain
      <4>3. QED BY <4>1, <4>2
    <3>2. ASSUME NEW r \in Plans, pc[r] \in {"prepare", "token", "thread"},
                 NEW q \in open', SameTarget(r, q)
          PROVE  Uncertain(q)
      BY <2>1, <3>1, <3>2 DEF SideInv, CheckedAlone
    <3>3. QED BY <1>0, <2>1, <2>2, <3>2 DEF CheckedAlone, SameTarget, Fp
  <2>4. TravellersAreUncertain'
    BY <1>0, <2>1, <2>2 DEF SideInv, TravellersAreUncertain
  <2>5. PairsAreUncertain'
    BY <1>0, <2>1, <2>2 DEF SideInv, PairsAreUncertain, SameTarget, Fp
  <2>6. QED BY <2>3, <2>4, <2>5 DEF SideInv
<1>4. ASSUME NEW p \in Plans, BrokerRefuses(p) \/ PostLost(p) \/ OrderCloses(p)
      PROVE  SideInv'
  BY <1>0, <1>4, QuietStep DEF BrokerRefuses, PostLost, OrderCloses, memoryVars
<1>5. ASSUME NEW p \in Plans, PlanExpires(p) PROVE SideInv'
  BY <1>0, <1>5, QuietStep DEF PlanExpires, memoryVars, brokerVars
<1>6. CASE QuoteFreshnessChanges \/ SymbolSwitched
  BY <1>0, <1>6, QuietStep DEF QuoteFreshnessChanges, SymbolSwitched, memoryVars, brokerVars
<1>7. CASE Quit
  <2>1. \A q \in Plans : pc[q] \in InThread \cup {"dead"} => pc'[q] = pc[q]
    BY <1>0, <1>7 DEF Quit, Shielded, Working, Preflight, InThread
  <2>2. \A q \in Plans : pc'[q] \in {pc[q], "cancelled"}
    BY <1>0, <1>7 DEF Quit
  <2>3. QED
    BY <1>0, <1>7, <2>1, <2>2, QuietStep DEF Quit, InThread, brokerVars
<1>8. CASE Crash \/ Relaunch
  <2>1. \A q \in Plans : pc'[q] \in {pc[q], "dead"}
    BY <1>0, <1>8 DEF Crash, Relaunch, Restart
  <2>2. QED
    BY <1>0, <1>8, <2>1, QuietStep DEF Crash, Relaunch, Restart, brokerVars, Working, InThread
<1>9. CASE UNCHANGED vars
  BY <1>0, <1>9, QuietStep DEF vars, memoryVars, brokerVars
<1>10. QED
  BY <1>1, <1>2, <1>3, <1>4, <1>5, <1>6, <1>7, <1>8, <1>9 DEF Next, Broker

(* Two open orders of one symbol and side coexist only when the POST of    *)
(* one of them was ambiguous or died with its process.                     *)
THEOREM NoUnexplainedSecondOrder == Spec => []OneOpenOrderPerSide
<1>1. Init => SideInv
  BY DEF Init, SideInv, TravellersAreUncertain, CheckedAlone, PairsAreUncertain
<1>2. SideInv => OneOpenOrderPerSide
  BY DEF SideInv, PairsAreUncertain, Uncertain, OneOpenOrderPerSide
<1>3. QED
  BY <1>1, <1>2, SideStep, OneShotHolds, TruthHolds, PTL DEF Spec
=============================================================================
