---------------------------- MODULE FiguresProofs ----------------------------
(***************************************************************************)
(* What is shown of the account and of the market.                         *)
(*                                                                         *)
(* The state of the portfolio, for any accounts and any number of order    *)
(* events and account changes: the portfolio, its history and the          *)
(* reconciliation do not mix up accounts, lose a wakeup or call an old     *)
(* portfolio full.                                                         *)
(*                                                                         *)
(* The figures calculated from it and beside it, for any inputs of their   *)
(* types: pre-trade facts announce the gates, holdings add up, readings    *)
(* take no side, a direction is earned, averages stay inside what they are *)
(* of, and charts of any length and width stay true; live candles are      *)
(* those of the trades, however many.  Sums are reasoned about by          *)
(* induction over subsets (EverySubset), series and folded trades by       *)
(* induction over their numbers (EveryNumber).                             *)
(***************************************************************************)
EXTENDS Portfolio, Calculations, FiniteSetTheorems, WellFoundedInduction, NaturalsInduction,
        SequenceTheorems, TLAPS

-----------------------------------------------------------------------------

(* What an answer to a portfolio load can be so far. *)
Replies == [account : Accounts \cup {None}, orders : 0 .. moment \cup {None}]

(* The flags stay flags: whatever step changes one gives it a truth value. *)
Flags == pStale \in BOOLEAN /\ hStale \in BOOLEAN /\ wakeup \in BOOLEAN

(* Every step leaves the flags truth values. *)
LEMMA FlagsStep == Flags /\ [Next]_vars => Flags'
<1> SUFFICES ASSUME Flags, [Next]_vars PROVE Flags'
  OBVIOUS
<1>1. pStale' \in {pStale, TRUE, FALSE}
  BY DEF Next, Refresh, History, Reconciliation, PortfolioPollDue, UserRefresh, TakePortfolioLock,
     AccountRead, OrdersOfAccountRead, PortfolioLoaded, PortfolioFails, UserHistory, PollerRefreshes,
     HistoryAnswered, PollerWakes, OrderPosted, ContextRead, OpenOrdersRead, OrdersMerged,
     ReconcileFails, OrdersChange, AccountChanges, vars, portfolioVars
<1>2. hStale' \in {hStale, TRUE, FALSE} /\ wakeup' \in {wakeup, TRUE, FALSE}
  BY DEF Next, Refresh, History, Reconciliation, PortfolioPollDue, UserRefresh,
     AccountRead, OrdersOfAccountRead, PortfolioLoaded, PortfolioFails, UserHistory, PollerRefreshes,
     HistoryAnswered, RequestRetry, PollerWakes, OrderPosted, ContextRead, OpenOrdersRead, OrdersMerged,
     ReconcileFails, OrdersChange, AccountChanges, vars, historyVars
<1>3. QED
  BY <1>1, <1>2 DEF Flags

(* The rest of the type invariant: ranges.                                 *)
Ranges ==
  /\ account \in Accounts
  /\ moment \in 0 .. MaxMoments /\ changes \in 0 .. MaxAccountChanges
  /\ {pAccount, hAccount, hRequested, recAccount} \subseteq Accounts \cup {None}
  /\ {pOrders, recOrders, posted} \subseteq 0 .. moment
  /\ pReply \in Replies

(* And each lock held by the one that is at its await. *)
Holders ==
  /\ pBusy \in {None, "poll", "user", "reconcile"}
  /\ hBusy \in {None, "history", "user"}
  /\ poller \in {"off", "refreshing", "waiting"}
  /\ user \in {"idle", "portfolio", "history"}
  /\ rec \in {"idle", "context", "orders", "merge", "portfolio"}
  /\ result \in {"none", "full", "partial", "failed"}
  /\ pBusy = "user" <=> user = "portfolio"
  /\ pBusy = "reconcile" <=> rec = "portfolio"
  /\ hBusy = "history" => poller = "refreshing"
  /\ hBusy = "user" => user = "history"

(* The account state never leaves its types, and each lock is held by the  *)
(* one that is at its await.                                               *)
THEOREM PortfolioTypeCorrect == Spec => []TypeOK
<1> USE PortfolioAssumption DEF PortfolioAssumption
<1>1. Flags /\ Ranges /\ Holders <=> TypeOK
  BY DEF Flags, Ranges, Holders, Replies, TypeOK
<1>2. Init => Flags /\ Ranges /\ Holders
  <2> SUFFICES ASSUME Init PROVE Flags /\ Ranges /\ Holders
    OBVIOUS
  <2>1. Flags
    BY DEF Init, Flags
  <2>2. Ranges
    BY DEF Init, Ranges, Replies, NoReply
  <2>3. Holders
    BY DEF Init, Holders
  <2>4. QED BY <2>1, <2>2, <2>3
<1>3. Ranges /\ [Next]_vars => Ranges'
  <2> SUFFICES ASSUME Ranges, [Next]_vars PROVE Ranges'
    OBVIOUS
  <2> USE DEF Ranges, Replies, brokerVars, portfolioVars, historyVars, recVars
  <2>1. CASE PortfolioPollDue \/ UserRefresh
    BY <2>1 DEF PortfolioPollDue, UserRefresh, TakePortfolioLock, NoReply
  <2>2. CASE AccountRead \/ OrdersOfAccountRead
    BY <2>2 DEF AccountRead, OrdersOfAccountRead
  <2>3. CASE PortfolioLoaded
    BY <2>3 DEF PortfolioLoaded, DropHistory, Continue, NoReply
  <2>4. CASE PortfolioFails
    BY <2>4 DEF PortfolioFails, Continue, NoReply
  <2>5. CASE UserHistory \/ PollerRefreshes
    BY <2>5 DEF UserHistory, PollerRefreshes, TakeHistoryLock
  <2>6. CASE HistoryAnswered \/ PollerWakes
    BY <2>6 DEF HistoryAnswered, RequestRetry, PollerWakes
  <2>7. CASE OrderPosted \/ OrdersChange
    BY <2>7 DEF OrderPosted, OrdersChange
  <2>8. CASE ContextRead \/ OpenOrdersRead \/ ReconcileFails
    BY <2>8 DEF ContextRead, OpenOrdersRead, ReconcileFails
  <2>9. CASE OrdersMerged
    BY <2>9 DEF OrdersMerged, NoReply
  <2>10. CASE AccountChanges \/ UNCHANGED vars
    BY <2>10 DEF AccountChanges, vars
  <2>11. QED
    BY <2>1, <2>2, <2>3, <2>4, <2>5, <2>6, <2>7, <2>8, <2>9, <2>10
       DEF Next, Refresh, History, Reconciliation
<1>4. Holders /\ [Next]_vars => Holders'
  <2> SUFFICES ASSUME Holders, [Next]_vars PROVE Holders'
    OBVIOUS
  <2> USE DEF Holders, brokerVars, portfolioVars, historyVars, recVars
  <2>1. CASE PortfolioPollDue \/ UserRefresh
    BY <2>1 DEF PortfolioPollDue, UserRefresh, TakePortfolioLock, PortfolioFree
  <2>2. CASE AccountRead \/ OrdersOfAccountRead
    BY <2>2 DEF AccountRead, OrdersOfAccountRead
  <2>3. CASE PortfolioLoaded \/ PortfolioFails
    BY <2>3 DEF PortfolioLoaded, PortfolioFails, Continue
  <2>4. CASE UserHistory \/ PollerRefreshes
    BY <2>4 DEF UserHistory, PollerRefreshes, TakeHistoryLock
  <2>5. CASE HistoryAnswered \/ PollerWakes
    BY <2>5 DEF HistoryAnswered, PollerWakes
  <2>6. CASE OrderPosted \/ ContextRead \/ OpenOrdersRead \/ ReconcileFails
    BY <2>6 DEF OrderPosted, ContextRead, OpenOrdersRead, ReconcileFails
  <2>7. CASE OrdersMerged
    BY <2>7 DEF OrdersMerged, PortfolioFree, ResultWhenLocked
  <2>8. CASE OrdersChange \/ AccountChanges \/ UNCHANGED vars
    BY <2>8 DEF OrdersChange, AccountChanges, vars
  <2>9. QED
    BY <2>1, <2>2, <2>3, <2>4, <2>5, <2>6, <2>7, <2>8
       DEF Next, Refresh, History, Reconciliation
<1>5. QED
  BY <1>1, <1>2, <1>3, <1>4, FlagsStep, PTL DEF Spec

-----------------------------------------------------------------------------
(* Once a portfolio is there it stays, and the poller starts with it.      *)
PollerHasAccount == poller # "off" => pAccount # None

(* The answer to a portfolio load comes in its order: the accounts first.  *)
AccountFirst == pReply.orders # None => pReply.account # None

(* The inductive invariant of the history and its poller. *)
HistoryInv == AccountFirst /\ PollerHasAccount /\ HistoryOfShownAccount /\ NoLostWakeup

(* Every step keeps the order within an answer. *)
LEMMA AccountFirstStep == TypeOK /\ AccountFirst /\ [Next]_vars => AccountFirst'
<1> SUFFICES ASSUME TypeOK, AccountFirst, [Next]_vars PROVE AccountFirst'
  OBVIOUS
<1> USE PortfolioAssumption DEF PortfolioAssumption, AccountFirst, TypeOK
<1>1. CASE UNCHANGED pReply
  BY <1>1
<1>2. CASE pReply' = NoReply
  BY <1>2 DEF NoReply
<1>3. CASE AccountRead \/ OrdersOfAccountRead
  BY <1>3 DEF AccountRead, OrdersOfAccountRead, brokerVars
<1>4. pReply' \in {pReply, NoReply} \/ AccountRead \/ OrdersOfAccountRead
  BY DEF Next, Refresh, History, Reconciliation, PortfolioPollDue, UserRefresh, TakePortfolioLock,
     PortfolioLoaded, PortfolioFails, Continue, UserHistory, PollerRefreshes, HistoryAnswered,
     PollerWakes, OrderPosted, ContextRead, OpenOrdersRead, OrdersMerged, ReconcileFails,
     OrdersChange, AccountChanges, vars, portfolioVars
<1>5. QED
  BY <1>1, <1>2, <1>3, <1>4

(* Steps that touch neither the history nor the account it belongs to. *)
LEMMA OtherSteps ==
  ASSUME \/ PortfolioPollDue \/ UserRefresh \/ AccountRead \/ OrdersOfAccountRead \/ PortfolioFails
         \/ Reconciliation \/ OrdersChange \/ AccountChanges \/ UNCHANGED vars
  PROVE  UNCHANGED <<pAccount, historyVars>>
BY DEF PortfolioPollDue, UserRefresh, TakePortfolioLock, AccountRead, OrdersOfAccountRead,
       PortfolioFails, Reconciliation, OrderPosted, ContextRead, OpenOrdersRead, OrdersMerged,
       ReconcileFails, OrdersChange, AccountChanges, portfolioVars, vars

(* Every step keeps the history with its account and the poller awake. *)
LEMMA HistoryStep == TypeOK /\ HistoryInv /\ [Next]_vars => HistoryInv'
<1> SUFFICES ASSUME TypeOK, HistoryInv, [Next]_vars PROVE HistoryInv'
  OBVIOUS
<1>0. AccountFirst'
  BY AccountFirstStep DEF HistoryInv
<1> USE <1>0 DEF HistoryInv, PollerHasAccount, HistoryOfShownAccount, NoLostWakeup, historyVars
<1>1. CASE PortfolioLoaded
  <2>1. pAccount' = pReply.account /\ pAccount' # None
    BY <1>1 DEF PortfolioLoaded, AccountFirst
  <2>2. CASE pAccount \in {None, pReply.account}
    BY <1>1, <2>1, <2>2 DEF PortfolioLoaded
  <2>3. CASE pAccount \notin {None, pReply.account}
    BY <1>1, <2>1, <2>3 DEF PortfolioLoaded, DropHistory
  <2>4. QED BY <2>2, <2>3
<1>2. CASE HistoryAnswered
  <2>1. UNCHANGED pAccount /\ (poller' # "off" => poller # "off")
    <3>1. hBusy = "history" => poller # "off"
      BY DEF TypeOK
    <3>2. QED BY <1>2, <3>1 DEF HistoryAnswered, portfolioVars
  <2>2. CASE StillSelected
    <3>1. hAccount' = pAccount \/ (hAccount' = hAccount /\ hStale')
      BY <1>2, <2>2 DEF HistoryAnswered, StillSelected
    <3>2. QED BY <2>1, <3>1
  <2>3. CASE ~StillSelected
    <3>1. hAccount' = hAccount /\ wakeup'
      BY <1>2, <2>3 DEF HistoryAnswered, RequestRetry
    <3>2. QED BY <2>1, <3>1
  <2>4. QED BY <2>2, <2>3
<1>3. CASE PollerRefreshes \/ UserHistory
  BY <1>3 DEF PollerRefreshes, UserHistory, TakeHistoryLock, portfolioVars
<1>4. CASE PollerWakes
  BY <1>4 DEF PollerWakes, portfolioVars
<1>5. ASSUME UNCHANGED <<pAccount, historyVars>> PROVE HistoryInv'
  BY <1>5
<1>6. QED
  BY <1>1, <1>2, <1>3, <1>4, <1>5, OtherSteps DEF Next, Refresh, History

(* HistoryInv is an invariant of the account state. *)
LEMMA HistoryHolds == Spec => []HistoryInv
<1>1. Init => HistoryInv
  BY DEF Init, HistoryInv, AccountFirst, PollerHasAccount, HistoryOfShownAccount, NoLostWakeup, NoReply
<1>2. QED
  BY <1>1, HistoryStep, PortfolioTypeCorrect, PTL DEF Spec

(* The closed orders shown are those of the account shown above them,      *)
(* however often the account changes while an answer is under way.         *)
THEOREM HistoryBelongs == Spec => []HistoryOfShownAccount
BY HistoryHolds, PTL DEF HistoryInv

(* The poller does not sleep, unwoken, over a history that is missing.     *)
THEOREM WakeupIsKept == Spec => []NoLostWakeup
BY HistoryHolds, PTL DEF HistoryInv

-----------------------------------------------------------------------------
(* The load that a reconciliation waits for was begun by it: no orders in  *)
(* its answer were read before the order was placed.                       *)
ReadAfterTheOrder ==
  pBusy = "reconcile" => pReply.orders = None \/ pReply.orders >= posted

(* Every step keeps the orders of that load newer than the order. *)
LEMMA ReadAfterStep == TypeOK /\ ReadAfterTheOrder /\ [Next]_vars => ReadAfterTheOrder'
<1> SUFFICES ASSUME TypeOK, ReadAfterTheOrder, [Next]_vars PROVE ReadAfterTheOrder'
  OBVIOUS
<1> USE DEF ReadAfterTheOrder, TypeOK
<1>1. CASE UNCHANGED <<pBusy, pReply, posted>>
  BY <1>1
<1>2. CASE pReply' = NoReply
  BY <1>2 DEF NoReply
<1>3. CASE AccountRead
  BY <1>3 DEF AccountRead, recVars
<1>4. CASE OrdersOfAccountRead
  BY <1>4 DEF OrdersOfAccountRead, recVars
<1>5. CASE OrderPosted
  BY <1>5 DEF OrderPosted, portfolioVars
<1>6. \/ UNCHANGED <<pBusy, pReply, posted>> \/ pReply' = NoReply
      \/ AccountRead \/ OrdersOfAccountRead \/ OrderPosted
  BY DEF Next, Refresh, History, Reconciliation, PortfolioPollDue, UserRefresh, TakePortfolioLock,
     PortfolioLoaded, PortfolioFails, Continue, UserHistory, PollerRefreshes, HistoryAnswered,
     PollerWakes, ContextRead, OpenOrdersRead, OrdersMerged, ReconcileFails,
     OrdersChange, AccountChanges, vars, portfolioVars, recVars
<1>7. QED
  BY <1>1, <1>2, <1>3, <1>4, <1>5, <1>6

(* A reconciliation is called full only with open orders read after its    *)
(* order was placed: a load begun earlier by somebody else does not count. *)
THEOREM FullIsAfterTheOrder == Spec => FullMeansAfterTheOrder
<1>1. Init => ReadAfterTheOrder
  BY PortfolioAssumption DEF Init, ReadAfterTheOrder, PortfolioAssumption
<1>2. TypeOK /\ ReadAfterTheOrder /\ [Next]_vars
        => [result' = "full" /\ result # "full" => pOrders' >= posted]_vars
  <2> SUFFICES ASSUME TypeOK, ReadAfterTheOrder, Next, result' = "full", result # "full"
               PROVE  pOrders' >= posted
    OBVIOUS
  <2>1. PortfolioLoaded /\ pBusy = "reconcile"
    BY DEF Next, Refresh, History, Reconciliation, PortfolioPollDue, UserRefresh,
       AccountRead, OrdersOfAccountRead, PortfolioLoaded, PortfolioFails, Continue,
       UserHistory, PollerRefreshes, HistoryAnswered, PollerWakes, OrderPosted, ContextRead,
       OpenOrdersRead, OrdersMerged, ResultWhenLocked, ReconcileFails,
       OrdersChange, AccountChanges, recVars
  <2>2. QED
    BY <2>1 DEF PortfolioLoaded, ReadAfterTheOrder
<1>3. QED
  BY <1>1, <1>2, ReadAfterStep, PortfolioTypeCorrect, PTL DEF Spec, FullMeansAfterTheOrder

(* Among the subsets of a finite set some are smallest. *)
LEMMA SmallestSet ==
  ASSUME NEW S, IsFiniteSet(S), NEW B \in SUBSET (SUBSET S), B # {}
  PROVE  \E T \in B : \A U \in B : U \subseteq T => U = T
<1> DEFINE R == StrictSubsetOrdering(S)
<1>1. IsWellFoundedOn(R, SUBSET S)
  BY FS_StrictSubsetOrderingWellFounded, FS_FiniteSubsetsOfFinite
<1>2. \E T \in B : \A U \in B : <<U, T>> \notin R
  <2> HIDE DEF R
  <2> QED BY <1>1, WFMin
<1>3. \A U, T \in SUBSET S : U \subseteq T /\ U # T => <<U, T>> \in R
  BY DEF StrictSubsetOrdering
<1> HIDE DEF R
<1>4. QED BY <1>2, <1>3

(* Induction over the subsets of a finite set, for a family of them. *)
LEMMA EverySubset ==
  ASSUME NEW S, IsFiniteSet(S), NEW F, {} \in F,
         ASSUME NEW T \in SUBSET S, T # {}, \A x \in T : T \ {x} \in F
         PROVE  T \in F
  PROVE  S \in F
<1> SUFFICES ASSUME S \notin F PROVE FALSE
  OBVIOUS
<1> DEFINE B == (SUBSET S) \ F
<1>1. B \in SUBSET (SUBSET S) /\ S \in B
  OBVIOUS
<1>2. PICK T \in B : \A U \in B : U \subseteq T => U = T
  <2> HIDE DEF B
  <2> QED BY <1>1, SmallestSet
<1>3. T \in SUBSET S /\ T \notin F /\ T # {}
  OBVIOUS
<1>4. \A x \in T : T \ {x} \in F
  BY <1>2, <1>3
<1>5. QED BY <1>3, <1>4

Pick(s) == CHOOSE x \in s : TRUE

(* it[s] is the sum over s, for the sets s of a domain D. *)
Adds(f, D, it) ==
  it = [s \in D |-> IF s = {} THEN 0 ELSE f[Pick(s)] + it[s \ {Pick(s)}]]

(* A sum is what the function of the sums of all subsets says of the set.  *)
LEMMA SumAdds ==
  ASSUME NEW f, NEW S
  PROVE  SumFunctionOnSet(f, S) = (CHOOSE it : Adds(f, SUBSET S, it))[S]
BY DEF SumFunctionOnSet, FoldFunctionOnSet, MapThenFoldSet, Adds, Pick

(* What is picked from a set is in it.                                     *)
LEMMA PickIsIn == \A s : s # {} => Pick(s) \in s
BY DEF Pick

(* The functions of the sums of two sets agree on what both know.          *)
LEMMA AddsAlike ==
  ASSUME NEW S, IsFiniteSet(S), NEW T \in SUBSET S, NEW f, NEW it, NEW jt,
         Adds(f, SUBSET S, it), Adds(f, SUBSET T, jt)
  PROVE  it[T] = jt[T]
<1> DEFINE F == {u \in SUBSET T : it[u] = jt[u]}
<1>1. \A u \in SUBSET T : /\ it[u] = IF u = {} THEN 0 ELSE f[Pick(u)] + it[u \ {Pick(u)}]
                         /\ jt[u] = IF u = {} THEN 0 ELSE f[Pick(u)] + jt[u \ {Pick(u)}]
  BY DEF Adds
<1> DEFINE B == (SUBSET T) \ F
<1>2. SUFFICES ASSUME B # {} PROVE FALSE
  OBVIOUS
<1>3. IsFiniteSet(T)
  BY FS_Subset
<1>4. PICK u \in B : \A v \in B : v \subseteq u => v = u
  <2>1. B \in SUBSET (SUBSET T)
    OBVIOUS
  <2> HIDE DEF B
  <2>2. QED BY <1>2, <1>3, <2>1, SmallestSet
<1>5. it[u] # jt[u] /\ u \in SUBSET T
  OBVIOUS
<1>6. u # {}
  BY <1>1, <1>5
<1>7. u \ {Pick(u)} \notin B /\ u \ {Pick(u)} \in SUBSET T
  BY <1>4, <1>6, PickIsIn
<1>8. it[u \ {Pick(u)}] = jt[u \ {Pick(u)}]
  BY <1>7
<1>9. QED BY <1>1, <1>5, <1>6, <1>8

(* Every finite set has a function of the sums of its subsets.             *)
LEMMA AddsExist ==
  ASSUME NEW S, IsFiniteSet(S), NEW f
  PROVE  \E it : Adds(f, SUBSET S, it)
<1> DEFINE Has(T) == \E it : Adds(f, SUBSET T, it)
           B == {T \in SUBSET S : ~Has(T)}
<1>1. SUFFICES ASSUME B # {} PROVE FALSE
  OBVIOUS
<1>2. PICK T \in B : \A U \in B : U \subseteq T => U = T
  <2>1. B \in SUBSET (SUBSET S)
    OBVIOUS
  <2> HIDE DEF B
  <2>2. QED BY <1>1, <2>1, SmallestSet
<1>3. T \in SUBSET S /\ ~Has(T)
  OBVIOUS
<1>4. \A U \in SUBSET T : U # T => Has(U)
  BY <1>2, <1>3
<1> HIDE DEF B
<1> DEFINE of(U) == CHOOSE it : Adds(f, SUBSET U, it)
           Value(U) == of(U)[U]
           it == [U \in SUBSET T |-> IF U # T THEN Value(U)
                                    ELSE IF T = {} THEN 0 ELSE f[Pick(T)] + Value(T \ {Pick(T)})]
<1>5. \A U \in SUBSET T : U # T => Adds(f, SUBSET U, of(U))
  BY <1>4
<1>6. ASSUME NEW U \in SUBSET T, U # T
      PROVE  Value(U) = IF U = {} THEN 0 ELSE f[Pick(U)] + Value(U \ {Pick(U)})
  <2>1. Adds(f, SUBSET U, of(U))
    BY <1>5, <1>6
  <2>2. of(U)[U] = IF U = {} THEN 0 ELSE f[Pick(U)] + of(U)[U \ {Pick(U)}]
    <3> HIDE DEF of
    <3> QED BY <2>1 DEF Adds
  <2>3. ASSUME U # {} PROVE of(U)[U \ {Pick(U)}] = Value(U \ {Pick(U)})
    <3>1. U \ {Pick(U)} \in SUBSET U /\ U \ {Pick(U)} # T
      BY <2>3, PickIsIn
    <3>2. Adds(f, SUBSET (U \ {Pick(U)}), of(U \ {Pick(U)}))
      BY <1>5, <3>1
    <3>3. IsFiniteSet(U)
      BY <1>3, FS_Subset
    <3> DEFINE V == U \ {Pick(U)}
               iu == of(U)
               iv == of(V)
    <3> HIDE DEF V, iu, iv
    <3>4. V \in SUBSET U /\ Adds(f, SUBSET U, iu) /\ Adds(f, SUBSET V, iv)
      BY <2>1, <3>1, <3>2 DEF V, iu, iv
    <3>5. iu[V] = iv[V]
      BY <3>3, <3>4, AddsAlike
    <3>6. QED BY <3>5 DEF iu, iv, V
  <2>4. QED BY <2>2, <2>3
<1> HIDE DEF Value
<1>7. ASSUME NEW U \in SUBSET T
      PROVE  it[U] = IF U = {} THEN 0 ELSE f[Pick(U)] + it[U \ {Pick(U)}]
  <2>1. CASE U = T
    <3>1. ASSUME T # {} PROVE it[T \ {Pick(T)}] = Value(T \ {Pick(T)})
      BY <3>1, PickIsIn
    <3>2. QED BY <2>1, <3>1
  <2>2. CASE U # T
    <3>1. ASSUME U # {} PROVE it[U \ {Pick(U)}] = Value(U \ {Pick(U)})
      BY <2>2, <3>1, PickIsIn
    <3>2. QED BY <1>6, <2>2, <3>1
  <2>3. QED BY <2>1, <2>2
<1>8. it = [U \in SUBSET T |-> it[U]]
  OBVIOUS
<1> HIDE DEF it
<1>9. Adds(f, SUBSET T, it)
  BY <1>7, <1>8 DEF Adds
<1>10. QED BY <1>3, <1>9

(* A sum is zero over no indices, and otherwise its picked first part and  *)
(* the rest.                                                               *)
LEMMA SumFirst ==
  ASSUME NEW f, NEW S, IsFiniteSet(S)
  PROVE  SumFunctionOnSet(f, S) =
           IF S = {} THEN 0 ELSE f[Pick(S)] + SumFunctionOnSet(f, S \ {Pick(S)})
<1> DEFINE of(U) == CHOOSE it : Adds(f, SUBSET U, it)
<1>1. ASSUME NEW U, IsFiniteSet(U) PROVE Adds(f, SUBSET U, of(U))
  BY <1>1, AddsExist
<1>2. \A U : SumFunctionOnSet(f, U) = of(U)[U]
  BY SumAdds
<1> HIDE DEF of
<1>3. of(S)[S] = IF S = {} THEN 0 ELSE f[Pick(S)] + of(S)[S \ {Pick(S)}]
  BY <1>1 DEF Adds
<1>4. ASSUME S # {} PROVE of(S)[S \ {Pick(S)}] = of(S \ {Pick(S)})[S \ {Pick(S)}]
  <2> DEFINE V == S \ {Pick(S)}
             iu == of(S)
             iv == of(V)
  <2>1. V \in SUBSET S /\ IsFiniteSet(V)
    BY FS_RemoveElement
  <2>2. Adds(f, SUBSET S, iu) /\ Adds(f, SUBSET V, iv)
    BY <1>1, <2>1
  <2> HIDE DEF V, iu, iv
  <2>3. iu[V] = iv[V]
    BY <2>1, <2>2, AddsAlike
  <2>4. QED BY <2>3 DEF iu, iv, V
<1>5. QED BY <1>2, <1>3, <1>4

(* The sum of nothing is 0.                                                *)
LEMMA SumEmpty == \A f : SumFunctionOnSet(f, {}) = 0
BY SumFirst, FS_EmptySet

(* A sum of integers is an integer.                                        *)
LEMMA SumInt ==
  ASSUME NEW f, NEW S, IsFiniteSet(S), \A x \in S : f[x] \in Int
  PROVE  SumFunctionOnSet(f, S) \in Int
<1> DEFINE F == {T \in SUBSET S : SumFunctionOnSet(f, T) \in Int}
<1>1. {} \in F
  BY SumEmpty
<1>2. ASSUME NEW T \in SUBSET S, T # {}, \A x \in T : T \ {x} \in F
      PROVE  T \in F
  <2>1. IsFiniteSet(T) /\ Pick(T) \in T
    BY <1>2, FS_Subset, PickIsIn
  <2>2. SumFunctionOnSet(f, T \ {Pick(T)}) \in Int /\ f[Pick(T)] \in Int
    BY <1>2, <2>1
  <2>3. SumFunctionOnSet(f, T) = f[Pick(T)] + SumFunctionOnSet(f, T \ {Pick(T)})
    BY <1>2, <2>1, SumFirst
  <2>4. QED BY <2>2, <2>3
<1> HIDE DEF F
<1>3. S \in F
  BY <1>1, <1>2, EverySubset
<1>4. QED BY <1>3 DEF F

(* Any part of a sum can be taken out of it.                               *)
LEMMA SumAny ==
  ASSUME NEW f, NEW S, IsFiniteSet(S), \A x \in S : f[x] \in Int, NEW x \in S
  PROVE  SumFunctionOnSet(f, S) = f[x] + SumFunctionOnSet(f, S \ {x})
<1> DEFINE Sum(T) == SumFunctionOnSet(f, T)
           F == {T \in SUBSET S : \A y \in T : Sum(T) = f[y] + Sum(T \ {y})}
<1>1. \A T \in SUBSET S : Sum(T) \in Int /\ IsFiniteSet(T)
  BY FS_Subset, SumInt
<1>2. \A T \in SUBSET S : T # {} => Sum(T) = f[Pick(T)] + Sum(T \ {Pick(T)})
  BY <1>1, SumFirst
<1> HIDE DEF Sum
<1>3. ASSUME NEW T \in SUBSET S, T # {}, \A y \in T : T \ {y} \in F
      PROVE  T \in F
  <2> SUFFICES ASSUME NEW y \in T PROVE Sum(T) = f[y] + Sum(T \ {y})
    OBVIOUS
  <2> DEFINE p == Pick(T)
  <2>1. p \in T /\ Sum(T) = f[p] + Sum(T \ {p})
    BY <1>2, <1>3, PickIsIn
  <2> HIDE DEF p
  <2>2. CASE y = p
    BY <2>1, <2>2
  <2>3. CASE y # p
    <3>1. Sum(T \ {p}) = f[y] + Sum((T \ {p}) \ {y})
      BY <1>3, <2>1, <2>3
    <3>2. Sum(T \ {y}) = f[p] + Sum((T \ {y}) \ {p})
      BY <1>3, <2>1, <2>3
    <3>3. (T \ {p}) \ {y} = (T \ {y}) \ {p}
      OBVIOUS
    <3>4. f[y] \in Int /\ f[p] \in Int /\ Sum((T \ {y}) \ {p}) \in Int
      BY <1>1, <2>1
    <3>5. Sum(T \ {p}) = f[y] + Sum((T \ {y}) \ {p})
      BY ONLY <3>1, <3>3
    <3>6. QED BY ONLY <2>1, <3>2, <3>4, <3>5
  <2>4. QED BY <2>2, <2>3
<1>4. {} \in F
  OBVIOUS
<1> HIDE DEF F
<1>5. S \in F
  BY <1>3, <1>4, EverySubset
<1>6. QED BY <1>5 DEF F, Sum

(* A product with a sum is the sum of the products.                        *)
LEMMA Distributed ==
  ASSUME NEW a \in Int, NEW x \in Int, NEW y \in Int
  PROVE  a * (x + y) = a * x + a * y
OBVIOUS

(* Sums compare as their parts do, each multiplied by a number.            *)
LEMMA SumCompare ==
  ASSUME NEW f, NEW g, NEW S, IsFiniteSet(S), NEW a \in Int, NEW b \in Int,
         \A x \in S : f[x] \in Int /\ g[x] \in Int /\ a * f[x] <= b * g[x]
  PROVE  a * SumFunctionOnSet(f, S) <= b * SumFunctionOnSet(g, S)
<1> DEFINE F == {T \in SUBSET S : a * SumFunctionOnSet(f, T) <= b * SumFunctionOnSet(g, T)}
<1>1. {} \in F
  BY SumEmpty
<1>2. ASSUME NEW T \in SUBSET S, T # {}, \A x \in T : T \ {x} \in F
      PROVE  T \in F
  <2>1. IsFiniteSet(T) /\ Pick(T) \in T
    BY <1>2, FS_Subset, PickIsIn
  <2> DEFINE p == Pick(T)
             fr == SumFunctionOnSet(f, T \ {p})
             gr == SumFunctionOnSet(g, T \ {p})
  <2>2. fr \in Int /\ gr \in Int /\ f[p] \in Int /\ g[p] \in Int /\ a * f[p] <= b * g[p]
    BY <2>1, FS_RemoveElement, SumInt
  <2>3. a * fr <= b * gr
    BY <1>2, <2>1
  <2>4. /\ SumFunctionOnSet(f, T) = f[p] + fr
        /\ SumFunctionOnSet(g, T) = g[p] + gr
    BY <1>2, <2>1, SumFirst
  <2> HIDE DEF p, fr, gr
  <2>5. a * (f[p] + fr) = a * f[p] + a * fr /\ b * (g[p] + gr) = b * g[p] + b * gr
    BY <2>2, Distributed
  <2>6. a * fr \in Int /\ b * gr \in Int /\ a * f[p] \in Int /\ b * g[p] \in Int
    BY <2>2
  <2>7. a * f[p] + a * fr <= b * g[p] + b * gr
    BY ONLY <2>2, <2>3, <2>6
  <2>8. QED BY <2>4, <2>5, <2>7
<1> HIDE DEF F
<1>3. S \in F
  BY <1>1, <1>2, EverySubset
<1>4. QED BY <1>3 DEF F

(* Equal parts have equal sums.                                            *)
LEMMA SumSame ==
  ASSUME NEW f, NEW g, NEW S, IsFiniteSet(S), \A x \in S : f[x] \in Int /\ g[x] = f[x]
  PROVE  SumFunctionOnSet(g, S) = SumFunctionOnSet(f, S)
<1>1. SumFunctionOnSet(f, S) \in Int /\ SumFunctionOnSet(g, S) \in Int
  BY SumInt
<1>2. 1 * SumFunctionOnSet(f, S) <= 1 * SumFunctionOnSet(g, S)
  BY SumCompare
<1>3. 1 * SumFunctionOnSet(g, S) <= 1 * SumFunctionOnSet(f, S)
  BY SumCompare
<1>4. QED BY <1>1, <1>2, <1>3

(* A sum is multiplied by multiplying its parts.                           *)
LEMMA SumScaled ==
  ASSUME NEW f, NEW g, NEW S, IsFiniteSet(S), NEW a \in Int,
         \A x \in S : f[x] \in Int /\ g[x] = a * f[x]
  PROVE  SumFunctionOnSet(g, S) = a * SumFunctionOnSet(f, S)
<1>0. \A x \in S : f[x] \in Int /\ g[x] \in Int /\ a * f[x] <= 1 * g[x] /\ 1 * g[x] <= a * f[x]
  OBVIOUS
<1>1. SumFunctionOnSet(f, S) \in Int /\ SumFunctionOnSet(g, S) \in Int
  BY <1>0, SumInt
<1>2. a * SumFunctionOnSet(f, S) <= 1 * SumFunctionOnSet(g, S)
  BY <1>0, SumCompare
<1>3. 1 * SumFunctionOnSet(g, S) <= a * SumFunctionOnSet(f, S)
  BY <1>0, SumCompare
<1>4. a * SumFunctionOnSet(f, S) \in Int
  BY <1>1
<1>5. QED BY ONLY <1>1, <1>2, <1>3, <1>4

(* h is a times f and b times g, all of them integers, over S. *)
Combined(f, g, h, S, a, b) ==
  \A x \in S : f[x] \in Int /\ g[x] \in Int /\ h[x] = a * f[x] + b * g[x]

(* A sum of multiples is the sum of the multiples of the sums.             *)
LEMMA SumLinear ==
  ASSUME NEW f, NEW g, NEW h, NEW S, IsFiniteSet(S), NEW a \in Int, NEW b \in Int,
         Combined(f, g, h, S, a, b)
  PROVE  SumFunctionOnSet(h, S) = a * SumFunctionOnSet(f, S) + b * SumFunctionOnSet(g, S)
<1> DEFINE Adding(T) == SumFunctionOnSet(h, T) = a * SumFunctionOnSet(f, T) + b * SumFunctionOnSet(g, T)
           F == {T \in SUBSET S : Adding(T)}
<1>1. {} \in F
  BY SumEmpty
<1>2. ASSUME NEW T \in SUBSET S, T # {}, \A x \in T : T \ {x} \in F
      PROVE  T \in F
  <2>1. IsFiniteSet(T) /\ Pick(T) \in T
    BY <1>2, FS_Subset, PickIsIn
  <2> DEFINE p == Pick(T)
             fr == SumFunctionOnSet(f, T \ {p})
             gr == SumFunctionOnSet(g, T \ {p})
             hr == SumFunctionOnSet(h, T \ {p})
  <2>2. fr \in Int /\ gr \in Int /\ f[p] \in Int /\ g[p] \in Int /\ h[p] = a * f[p] + b * g[p]
    BY <2>1, FS_RemoveElement, SumInt DEF Combined
  <2>3. hr = a * fr + b * gr
    BY <1>2, <2>1
  <2>4. /\ SumFunctionOnSet(f, T) = f[p] + fr
        /\ SumFunctionOnSet(g, T) = g[p] + gr
        /\ SumFunctionOnSet(h, T) = h[p] + hr
    BY <1>2, <2>1, SumFirst
  <2> HIDE DEF p, fr, gr, hr
  <2>5. a * (f[p] + fr) = a * f[p] + a * fr /\ b * (g[p] + gr) = b * g[p] + b * gr
    BY <2>2, Distributed
  <2>6. a * fr \in Int /\ b * gr \in Int /\ a * f[p] \in Int /\ b * g[p] \in Int
    BY <2>2
  <2>7. h[p] + hr = (a * f[p] + a * fr) + (b * g[p] + b * gr)
    BY ONLY <2>2, <2>3, <2>6
  <2>8. QED BY <2>4, <2>5, <2>7
<1> HIDE DEF F
<1>3. S \in F
  BY <1>1, <1>2, EverySubset
<1>4. QED BY <1>3 DEF F

(* A sum of natural numbers is one.                                        *)
LEMMA SumNat ==
  ASSUME NEW f, NEW S, IsFiniteSet(S), \A x \in S : f[x] \in Nat
  PROVE  SumFunctionOnSet(f, S) \in Nat
<1>1. SumFunctionOnSet(f, S) \in Int
  BY SumInt
<1>2. 0 * SumFunctionOnSet(f, S) <= 1 * SumFunctionOnSet(f, S)
  BY SumCompare
<1>3. QED BY <1>1, <1>2

(* A sum is that of a part and that of the rest.                           *)
LEMMA SumSplit ==
  ASSUME NEW f, NEW S, IsFiniteSet(S), \A x \in S : f[x] \in Int, NEW T \in SUBSET S
  PROVE  SumFunctionOnSet(f, S) = SumFunctionOnSet(f, T) + SumFunctionOnSet(f, S \ T)
<1> DEFINE Sum(U) == SumFunctionOnSet(f, U)
           F == {U \in SUBSET T : Sum((S \ T) \cup U) = Sum(U) + Sum(S \ T)}
<1>1. \A U \in SUBSET S : Sum(U) \in Int /\ IsFiniteSet(U)
  BY FS_Subset, SumInt
<1>2. \A U \in SUBSET S : \A x \in U : Sum(U) = f[x] + Sum(U \ {x})
  BY <1>1, SumAny
<1>3. Sum({}) = 0
  BY SumEmpty
<1> HIDE DEF Sum
<1>4. {} \in F
  BY <1>1, <1>3
<1>5. ASSUME NEW U \in SUBSET T, U # {}, \A y \in U : U \ {y} \in F
      PROVE  U \in F
  <2>1. PICK x \in U : TRUE
    BY <1>5
  <2> DEFINE V == U \ {x}
             W == (S \ T) \cup V
  <2>2. Sum(W) = Sum(V) + Sum(S \ T)
    BY <1>5, <2>1
  <2>3. Sum(U) = f[x] + Sum(V)
    BY <1>2, <2>1
  <2>4. Sum((S \ T) \cup U) = f[x] + Sum(W)
    <3>1. (S \ T) \cup U \in SUBSET S /\ x \in (S \ T) \cup U /\ ((S \ T) \cup U) \ {x} = W
      BY <2>1
    <3>2. QED BY <1>2, <3>1
  <2>5. f[x] \in Int /\ Sum(V) \in Int /\ Sum(S \ T) \in Int
    BY <1>1
  <2>6. QED BY <2>2, <2>3, <2>4, <2>5
<1> HIDE DEF F
<1>6. IsFiniteSet(T)
  BY <1>1
<1>7. T \in F
  BY <1>4, <1>5, <1>6, EverySubset
<1>8. (S \ T) \cup T = S
  OBVIOUS
<1>9. QED BY <1>7, <1>8 DEF F, Sum

(* A part of a sum of natural numbers is at most the whole.                *)
LEMMA SumPart ==
  ASSUME NEW f, NEW S, IsFiniteSet(S), \A x \in S : f[x] \in Nat, NEW T \in SUBSET S
  PROVE  SumFunctionOnSet(f, T) <= SumFunctionOnSet(f, S)
<1>1. IsFiniteSet(T) /\ IsFiniteSet(S \ T)
  BY FS_Subset
<1>2. SumFunctionOnSet(f, T) \in Nat /\ SumFunctionOnSet(f, S \ T) \in Nat
  BY <1>1, SumNat
<1>3. SumFunctionOnSet(f, S) = SumFunctionOnSet(f, T) + SumFunctionOnSet(f, S \ T)
  BY SumSplit
<1>4. QED BY <1>2, <1>3

(* A sum of positive numbers is positive.                                  *)
LEMMA SumPositive ==
  ASSUME NEW f, NEW S, IsFiniteSet(S), S # {}, \A x \in S : f[x] \in Nat \ {0}
  PROVE  SumFunctionOnSet(f, S) \in Nat \ {0}
<1>1. PICK x \in S : TRUE
  OBVIOUS
<1>2. SumFunctionOnSet(f, S) = f[x] + SumFunctionOnSet(f, S \ {x})
  BY SumAny
<1>3. SumFunctionOnSet(f, S \ {x}) \in Nat
  BY FS_RemoveElement, SumNat
<1>4. f[x] \in Nat \ {0}
  OBVIOUS
<1>5. QED BY <1>2, <1>3, <1>4

(* What a calculation was asked for. *)
Asked ==
  /\ kind = "facts" =>
       /\ input.intent \in Intents /\ RiskGateAccepts(input.intent)
       /\ input.quote \in Quotes
       /\ input.orders \in SUBSET OpenOrders \/ input.orders = None
  /\ kind = "trades" => \E n \in 1 .. MaxTrades : input \in [1 .. n -> Trades]
  /\ kind = "chart" => input \in Charts
  /\ kind = "day" =>
       /\ input.dailies \in Dailies /\ input.opened \in Opened /\ input.day = input.opened.day
       /\ input.dailies[1].day <= input.day
  /\ kind = "reading" => input \in Reading
  /\ kind = "alignment" =>
       /\ input.intraday \in [{"1m", "5m", "15m"} -> Headlines] /\ input.day \in Headlines
  /\ kind = "timeframes" =>
       /\ input.data \in [Modes -> Timeframes] /\ input.selected \in Modes /\ input.stale \in BOOLEAN
  /\ kind = "book" => input.bids \in Sides /\ input.asks \in Sides
  /\ kind = "tape" => input \in Tapes
  /\ kind = "sellable" => input.item \in Holdings /\ input.orders \in SUBSET OpenOrders
  /\ kind = "portfolio" => \E n \in 1 .. MaxHoldings : input \in [1 .. n -> Holdings]
  /\ kind = "direction" =>
       input.mode \in DOMAIN Horizon /\ input.n \in Lengths /\ input.outlook \in Outlooks

(* A calculation is only ever asked for inputs of its kind.                *)
LEMMA AskedHolds == CalcSpec => []Asked
<1>1. CalcInit => Asked
  BY DEF CalcInit, Asked
<1>2. Asked /\ [CalcNext]_<<kind, input>> => Asked'
  <2> SUFFICES ASSUME Asked, [CalcNext]_<<kind, input>> PROVE Asked'
    OBVIOUS
  <2>1. CASE FactsOfOrder
    BY <2>1 DEF Asked, FactsOfOrder, Choose
  <2>2. CASE FoldLiveTrades
    BY <2>2 DEF Asked, FoldLiveTrades, Choose
  <2>3. CASE DrawChart
    BY <2>3 DEF Asked, DrawChart, Choose
  <2>4. CASE ReadTimeframe
    BY <2>4 DEF Asked, ReadTimeframe, Choose
  <2>5. CASE AlignTimeframes
    BY <2>5 DEF Asked, AlignTimeframes, Choose
  <2>6. CASE CompareTimeframes
    BY <2>6 DEF Asked, CompareTimeframes, Choose
  <2>7. CASE WeighBook
    BY <2>7 DEF Asked, WeighBook, Choose
  <2>8. CASE WeighTape
    BY <2>8 DEF Asked, WeighTape, Choose
  <2>9. CASE FigureDay
    BY <2>9 DEF Asked, FigureDay, Choose
  <2>10. CASE ShowSellable
    BY <2>10 DEF Asked, ShowSellable, Choose
  <2>11. CASE ShowPortfolio
    BY <2>11 DEF Asked, ShowPortfolio, Choose
  <2>12. CASE JudgeDirection
    BY <2>12 DEF Asked, JudgeDirection, Choose
  <2>13. CASE UNCHANGED <<kind, input>>
    BY <2>13 DEF Asked
  <2>14. QED BY <2>1, <2>2, <2>3, <2>4, <2>5, <2>6, <2>7, <2>8, <2>9, <2>10, <2>11, <2>12, <2>13 DEF CalcNext
<1>3. QED BY <1>1, <1>2, PTL DEF CalcSpec

(* Neither the estimate nor the fingerprint of an order depends on the     *)
(* account, and the cap and the share rule depend on neither.              *)
LEMMA AccountIsNotTheOrder ==
  ASSUME NEW intent \in Intent, NEW holding, NEW power
  PROVE  LET fresh == [intent EXCEPT !.holding = holding, !.power = power]
         IN  /\ Estimate(fresh) = Estimate(intent)
             /\ Fingerprint(fresh) = Fingerprint(intent)
             /\ RiskGateAccepts(intent) =>
                  (RiskGateAccepts(fresh) <=>
                     IF intent.side = "SELL" THEN intent.quantity <= holding
                                             ELSE Covers(power, Estimate(intent)))
<1> DEFINE fresh == [intent EXCEPT !.holding = holding, !.power = power]
<1>1. /\ fresh.symbol = intent.symbol /\ fresh.market = intent.market /\ fresh.side = intent.side
      /\ fresh.type = intent.type /\ fresh.quantity = intent.quantity /\ fresh.limit = intent.limit
      /\ fresh.reference = intent.reference /\ fresh.holding = holding /\ fresh.power = power
  BY DEF Intent
<1> HIDE DEF fresh
<1>2. Estimate(fresh) = Estimate(intent)
  BY <1>1 DEF Estimate, UnitPrice
<1>3. Fingerprint(fresh) = Fingerprint(intent)
  <2>1. \A f \in {"symbol", "market", "side", "type", "quantity", "limit", "reference"} :
          fresh[f] = intent[f]
    BY <1>1
  <2>2. QED BY <2>1 DEF Fingerprint
<1>4. WholeSharesOnly(fresh) <=> WholeSharesOnly(intent)
  BY <1>1 DEF WholeSharesOnly
<1>5. ASSUME RiskGateAccepts(intent)
      PROVE  RiskGateAccepts(fresh) <=>
               IF intent.side = "SELL" THEN intent.quantity <= holding
                                       ELSE Covers(power, Estimate(intent))
  <2>1. /\ WholeSharesOnly(intent) => intent.quantity % Unit = 0
        /\ Covers(Cap[intent.market], Estimate(intent))
    BY <1>5 DEF RiskGateAccepts
  <2>2. RiskGateAccepts(fresh) <=>
          /\ IF intent.side = "SELL" THEN intent.quantity <= holding
                                     ELSE Covers(power, Estimate(intent))
          /\ WholeSharesOnly(intent) => intent.quantity % Unit = 0
          /\ Covers(Cap[intent.market], Estimate(intent))
    BY <1>1, <1>2, <1>4 DEF RiskGateAccepts
  <2>3. QED BY <2>1, <2>2
<1>6. QED BY <1>2, <1>3, <1>5 DEF fresh

(* The rows of the facts, one by one. *)
LEMMA RowsOfFacts ==
  ASSUME NEW intent, NEW quote, NEW open, NEW mode
  PROVE  LET facts == Facts(intent, quote, open, mode)
         IN  HasBlock(facts) <=>
               \/ QuoteRow(quote) = "BLOCK"
               \/ BestQuoteRow(intent, quote) = "BLOCK"
               \/ Reference(intent, quote).status = "BLOCK"
               \/ NotionalRow(intent, quote) = "BLOCK"
               \/ AccountRow(intent, quote, open, mode) = "BLOCK"
               \/ DuplicateRow(intent, open, mode) = "BLOCK"
BY DEF HasBlock, Rows, Facts

(* For any order and whatever the quote and the open orders are: the facts *)
(* beside a confirmation announce the blocks of the gates, no more and no  *)
(* less.                                                                   *)
LEMMA FactsAnnounceEveryGate ==
  ASSUME NEW intent \in Intent, NEW quote \in Quote, NEW open
  PROVE  FactsMatchTheGates(intent, quote, open)
<1> SUFFICES ASSUME RiskGateAccepts(intent)
             PROVE  FactsMatchTheGates(intent, quote, open)
  BY DEF FactsMatchTheGates
<1>0. quote.quoteFresh \in BOOLEAN
  BY DEF Quote
<1>1. intent.side \in {"BUY", "SELL"} /\ intent.type \in {"LIMIT", "MARKET"}
      /\ intent.quantity \in Nat /\ intent.holding \in Nat
  BY DEF Intent, Amount
<1>2. BestQuoteRow(intent, quote) # "BLOCK" /\ NotionalRow(intent, quote) # "BLOCK"
  BY DEF BestQuoteRow, NotionalRow
<1>3. Reference(intent, quote).status # "BLOCK"
  <2>1. CASE intent.type = "LIMIT"
    BY <2>1 DEF Reference
  <2>2. CASE intent.type = "MARKET" /\ BookUsable(intent, quote)
    BY <2>2 DEF Reference
  <2>3. CASE intent.type = "MARKET" /\ ~BookUsable(intent, quote)
    BY <2>3 DEF Reference
  <2>4. QED BY <1>1, <2>1, <2>2, <2>3
<1>4. ASSUME NEW mode \in {"PAPER", "LIVE"} PROVE AccountRow(intent, quote, open, mode) # "BLOCK"
  <2>1. CASE intent.side = "BUY"
    <3>1. ~PowerExceeded(intent)
      BY <2>1 DEF RiskGateAccepts, PowerExceeded
    <3>2. QED BY <2>1, <3>1 DEF AccountRow, BuyingPowerRow, ForMode
  <2>2. CASE intent.side = "SELL"
    <3>1. ~(intent.quantity > intent.holding)
      BY <1>1, <2>2 DEF RiskGateAccepts
    <3>2. QED BY <2>2, <3>1 DEF AccountRow, SellRow, ForMode
  <2>3. QED BY <1>1, <2>1, <2>2
<1>5. HasBlock(Facts(intent, quote, open, "PAPER")) <=> ~quote.quoteFresh
  <2>1. DuplicateRow(intent, open, "PAPER") # "BLOCK"
    BY DEF DuplicateRow, ForMode
  <2>2. QuoteRow(quote) = "BLOCK" <=> ~quote.quoteFresh
    BY <1>0 DEF QuoteRow
  <2>3. QED BY <1>2, <1>3, <1>4, <2>1, <2>2, RowsOfFacts
<1>6. ASSUME NEW holding, NEW power
      PROVE  Revalidates(intent, holding, power) <=>
               IF intent.side = "SELL" THEN intent.quantity <= holding
                                       ELSE Covers(power, Estimate(intent))
  BY AccountIsNotTheOrder DEF Revalidates, Preview
<1>7. ASSUME open # None
      PROVE  HasBlock(Facts(intent, quote, open, "LIVE")) <=>
               ~SubmissionPasses(intent, quote, open)
  <2>1. DuplicateRow(intent, open, "LIVE") = "BLOCK" <=> Duplicates(intent, open) # {}
    BY <1>7 DEF DuplicateRow, ForMode
  <2>2. QuoteRow(quote) = "BLOCK" <=> ~quote.quoteFresh
    BY DEF QuoteRow
  <2>3. PlanAccepts(Preview(intent))
    BY DEF PlanAccepts, Preview
  <2>4. Revalidates(intent, intent.holding, intent.power)
    BY <1>6 DEF RiskGateAccepts
  <2>5. QED BY <1>2, <1>3, <1>4, <2>1, <2>2, <2>3, <2>4, RowsOfFacts DEF SubmissionPasses
<1>8. QED BY <1>5, <1>6, <1>7 DEF FactsMatchTheGates

(* The status of every row is one of four, and the most urgent of some is  *)
(* PASS only when all are.                                                 *)
LEMMA StatusOfRows ==
  ASSUME NEW intent \in Intent, NEW quote, NEW open, NEW mode
  PROVE  LET facts == Facts(intent, quote, open, mode)
         IN  Overall(facts) = "PASS" => \A row \in DOMAIN facts : facts[row] = "PASS"
<1> DEFINE facts == Facts(intent, quote, open, mode)
           Statuses == {"PASS", "UNAVAILABLE", "WARN", "BLOCK"}
           Urgency == [PASS |-> 0, UNAVAILABLE |-> 1, WARN |-> 2, BLOCK |-> 3]
           Worst(s) == \A r \in Rows(facts) : Urgency[r] <= Urgency[s]
<1>1. Rows(facts) \subseteq Statuses /\ Rows(facts) # {}
  <2>1. intent.type \in {"LIMIT", "MARKET"}
    BY DEF Intent
  <2>2. QuoteRow(quote) \in Statuses /\ BestQuoteRow(intent, quote) \in Statuses
    BY DEF QuoteRow, BestQuoteRow
  <2>3. NotionalRow(intent, quote) \in Statuses /\ DuplicateRow(intent, open, mode) \in Statuses
    BY DEF NotionalRow, DuplicateRow, ForMode
  <2>4. AccountRow(intent, quote, open, mode) \in Statuses
    BY DEF AccountRow, BuyingPowerRow, SellRow, ForMode
  <2>5. Reference(intent, quote).status \in Statuses
    <3>1. CASE intent.type = "LIMIT"
      BY <3>1 DEF Reference
    <3>2. CASE intent.type = "MARKET" /\ BookUsable(intent, quote)
      BY <3>2 DEF Reference
    <3>3. CASE intent.type = "MARKET" /\ ~BookUsable(intent, quote)
      BY <3>3 DEF Reference
    <3>4. QED BY <2>1, <3>1, <3>2, <3>3
  <2>6. QED BY <2>2, <2>3, <2>4, <2>5 DEF Facts, Rows
<1> HIDE DEF facts
<1>2. \E s \in Rows(facts) : Worst(s)
  <2>1. CASE "BLOCK" \in Rows(facts)
    BY <1>1, <2>1
  <2>2. CASE "BLOCK" \notin Rows(facts) /\ "WARN" \in Rows(facts)
    BY <1>1, <2>2
  <2>3. CASE "BLOCK" \notin Rows(facts) /\ "WARN" \notin Rows(facts) /\ "UNAVAILABLE" \in Rows(facts)
    BY <1>1, <2>3
  <2>4. CASE Rows(facts) \subseteq {"PASS"}
    BY <1>1, <2>4
  <2>5. QED BY <1>1, <2>1, <2>2, <2>3, <2>4
<1>3. Overall(facts) = CHOOSE s \in Rows(facts) : Worst(s)
  BY DEF Overall
<1>4. Worst(Overall(facts))
  <2> HIDE DEF Worst
  <2> QED BY <1>2, <1>3
<1>5. ASSUME Overall(facts) = "PASS", NEW row \in DOMAIN facts PROVE facts[row] = "PASS"
  <2>1. facts[row] \in Rows(facts)
    BY DEF Rows
  <2>2. Urgency[facts[row]] <= Urgency["PASS"] /\ facts[row] \in Statuses
    BY <1>1, <1>4, <1>5, <2>1
  <2>3. QED BY <2>2
<1>6. QED BY <1>5 DEF facts

(* The maximum with 0 is the number if it is not negative.                 *)
LEMMA LargerOfZero ==
  ASSUME NEW a \in Int
  PROVE  Max({a, 0}) = IF a >= 0 THEN a ELSE 0
<1> DEFINE m == IF a >= 0 THEN a ELSE 0
<1>1. m \in {a, 0} /\ \A y \in {a, 0} : m >= y
  OBVIOUS
<1>2. \A x \in {a, 0} : (\A y \in {a, 0} : x >= y) => x = m
  OBVIOUS
<1>3. QED BY <1>1, <1>2 DEF Max

(* What open sales reserve is at least what some of them have left. *)
LEMMA ReservedIsEnough ==
  ASSUME NEW orders \in SUBSET OpenOrders, NEW symbol
  PROVE  LET open == OpenOrdersOn(orders, symbol, "SELL")
         IN  /\ SumFunctionOnSet(Remaining(orders), open) \in Nat
             /\ \A sold \in SUBSET open :
                  /\ SumFunction(Remaining(sold)) \in Nat
                  /\ SumFunction(Remaining(sold)) <= SumFunctionOnSet(Remaining(orders), open)
<1> DEFINE open == OpenOrdersOn(orders, symbol, "SELL")
           f == Remaining(orders)
<1>1. open \in SUBSET orders
  BY DEF OpenOrdersOn
<1> HIDE DEF open
<1>2. IsFiniteSet(open) /\ \A o \in open : f[o] \in Nat /\ f[o] = o.remaining
  <2>1. IsFiniteSet(open)
    BY <1>1, InputsAreTyped, FS_Subset
  <2>2. \A o \in open : o \in OpenOrder
    BY <1>1, InputsAreTyped
  <2>3. QED BY <1>1, <2>1, <2>2 DEF Remaining, OpenOrder
<1>3. SumFunctionOnSet(f, open) \in Nat
  BY <1>2, SumNat
<1>4. ASSUME NEW sold \in SUBSET open
      PROVE  /\ SumFunction(Remaining(sold)) \in Nat
             /\ SumFunction(Remaining(sold)) <= SumFunctionOnSet(f, open)
  <2> DEFINE g == Remaining(sold)
  <2>1. IsFiniteSet(sold) /\ \A o \in sold : g[o] = o.remaining /\ f[o] \in Nat /\ g[o] = f[o]
    BY <1>2, FS_Subset DEF Remaining
  <2>2. SumFunction(g) = SumFunctionOnSet(g, sold)
    BY DEF SumFunction, Remaining
  <2> HIDE DEF g, f
  <2>3. SumFunctionOnSet(g, sold) = SumFunctionOnSet(f, sold)
    <3>1. \A o \in sold : f[o] \in Int /\ g[o] = f[o]
      BY <2>1
    <3>2. QED BY <2>1, <3>1, SumSame
  <2>4. SumFunctionOnSet(f, sold) <= SumFunctionOnSet(f, open)
    BY <1>2, SumPart
  <2>5. SumFunctionOnSet(f, sold) \in Nat
    BY <2>1, SumNat
  <2>6. QED BY <2>2, <2>3, <2>4, <2>5 DEF g
<1>5. QED BY <1>3, <1>4 DEF open

(* A sale that passes fits into what the open sales leave.                 *)
LEMMA PassOfSale ==
  ASSUME NEW intent, intent.quantity \in Nat, intent.holding \in Nat,
         NEW orders \in SUBSET OpenOrders
  PROVE  /\ Sellable(intent, orders) \in Nat
         /\ SellRow(intent, orders, "PAPER") = "PASS" =>
              /\ orders # None
              /\ intent.quantity <= Sellable(intent, orders)
         /\ intent.quantity > 0 /\ intent.quantity <= Sellable(intent, orders) =>
              intent.quantity + Reserved(intent, orders) <= intent.holding
<1>1. Reserved(intent, orders) \in Nat
  BY ReservedIsEnough DEF Reserved
<1>2. Sellable(intent, orders) =
        IF intent.holding - Reserved(intent, orders) >= 0
        THEN intent.holding - Reserved(intent, orders) ELSE 0
  <2>1. intent.holding - Reserved(intent, orders) \in Int
    BY <1>1
  <2>2. QED BY <2>1, LargerOfZero DEF Sellable
<1>3. Sellable(intent, orders) \in Nat
  BY <1>1, <1>2
<1>4. SellRow(intent, orders, "PAPER") = "PASS" =>
        orders # None /\ ~(intent.quantity > Sellable(intent, orders))
  BY DEF SellRow, ForMode
<1>5. QED BY <1>1, <1>2, <1>3, <1>4

(* Whatever the order, its quote and the open orders: PASS is founded.     *)
LEMMA NoPassIsUnfounded ==
  ASSUME NEW intent \in Intent, NEW quote \in Quote, NEW orders,
         orders \in SUBSET OpenOrders \/ orders = None
  PROVE  NoUnfoundedPass(intent, quote, orders)
<1> DEFINE paper == Facts(intent, quote, orders, "PAPER")
           live == Facts(intent, quote, orders, "LIVE")
<1> SUFFICES ASSUME RiskGateAccepts(intent) PROVE NoUnfoundedPass(intent, quote, orders)
  BY DEF NoUnfoundedPass
<1>0. /\ intent.quantity \in Nat \ {0} /\ intent.holding \in Nat
      /\ intent.side \in {"BUY", "SELL"} /\ intent.type \in {"LIMIT", "MARKET"}
      /\ intent.power \in Nat
  BY DEF Intent, Amount
<1>1. ASSUME paper.account = "PASS", intent.side = "SELL",
             NEW sold \in SUBSET {o \in orders : o.symbol = intent.symbol /\ o.side = "SELL"
                                                 /\ o.status \notin Terminal}
      PROVE  intent.quantity + SumFunction(Remaining(sold)) <= intent.holding
  <2>1. SellRow(intent, orders, "PAPER") = "PASS"
    BY <1>1 DEF Facts, AccountRow
  <2>2. orders # None
    BY <2>1 DEF SellRow, ForMode
  <2>3. orders \in SUBSET OpenOrders
    BY <2>2
  <2>4. intent.quantity + Reserved(intent, orders) <= intent.holding
    BY <1>0, <2>1, <2>3, PassOfSale
  <2>5. /\ Reserved(intent, orders) \in Nat /\ SumFunction(Remaining(sold)) \in Nat
        /\ SumFunction(Remaining(sold)) <= Reserved(intent, orders)
    BY <2>3, ReservedIsEnough DEF Reserved, OpenOrdersOn
  <2>6. QED BY <1>0, <2>4, <2>5
<1>2. ASSUME paper.account = "PASS", intent.side = "BUY",
             NEW price \in {UnitPrice(intent), Reference(intent, quote).price}
      PROVE  Covers(intent.power, intent.quantity * price)
  <2>1. BuyingPowerRow(intent, quote, "PAPER") = "PASS"
    BY <1>2 DEF Facts, AccountRow
  <2>2. /\ Covers(intent.power, Estimate(intent))
        /\ Notional(intent, quote) # None /\ Covers(intent.power, Notional(intent, quote))
    BY <2>1 DEF BuyingPowerRow, ForMode, PowerExceeded
  <2>3. QED BY <2>2 DEF Estimate, Notional
<1>3. ASSUME paper.reference = "PASS", intent.type = "MARKET"
      PROVE  /\ paper.best = "PASS"
             /\ Reference(intent, quote).price \in
                  {IF intent.side = "BUY" THEN quote.book.ask ELSE quote.book.bid}
  <2>1. Reference(intent, quote).status = "PASS"
    BY <1>3 DEF Facts
  <2>2. BookUsable(intent, quote)
    <3>1. ASSUME ~BookUsable(intent, quote)
          PROVE  Reference(intent, quote) =
                   [price |-> quote.last, status |-> IF quote.last = None THEN "UNAVAILABLE" ELSE "WARN"]
      BY <1>3, <3>1 DEF Reference
    <3>2. QED BY <2>1, <3>1
  <2>3. Reference(intent, quote) = [price |-> OtherSide(intent, quote.book), status |-> "PASS"]
    BY <1>3, <2>2 DEF Reference
  <2>4. BestQuoteRow(intent, quote) = "PASS"
    <3>1. OwnBook(intent, quote) /\ quote.bookFresh /\ Complete(quote.book)
          /\ quote.book.bid <= quote.book.ask
      BY <2>2 DEF BookUsable
    <3>2. quote.book.bid \in Nat /\ quote.book.ask \in Nat
      <4>1. quote.book \in Book
        BY <3>1 DEF OwnBook, Quote
      <4>2. QED BY <3>1, <4>1 DEF Complete, Book, Amount
    <3>3. ~(quote.book.ask < quote.book.bid)
      BY <3>1, <3>2
    <3>4. BestQuoteRow(intent, quote) =
            IF ~Complete(quote.book) THEN "UNAVAILABLE"
            ELSE IF quote.book.ask < quote.book.bid THEN "WARN" ELSE "PASS"
      BY <3>1 DEF BestQuoteRow
    <3>5. QED BY <3>1, <3>3, <3>4
  <2>5. QED BY <2>3, <2>4 DEF Facts, OtherSide
<1>4. live.account # "PASS" /\ live.duplicates # "PASS"
  BY DEF Facts, AccountRow, BuyingPowerRow, SellRow, DuplicateRow, ForMode
<1>5. ASSUME Overall(paper) = "PASS"
      PROVE  ~HasBlock(live) /\ SubmissionPasses(intent, quote, orders)
  <2>1. paper.quote = "PASS" /\ paper.duplicates = "PASS"
    BY <1>5, StatusOfRows DEF Facts
  <2>2. orders # None /\ Duplicates(intent, orders) = {}
    BY <2>1 DEF Facts, DuplicateRow, ForMode
  <2>3. quote.quoteFresh
    BY <2>1 DEF Facts, QuoteRow
  <2>4. PlanAccepts(Preview(intent))
    BY DEF PlanAccepts, Preview
  <2>5. Revalidates(intent, intent.holding, intent.power)
    BY AccountIsNotTheOrder DEF Revalidates, Preview, RiskGateAccepts
  <2>6. SubmissionPasses(intent, quote, orders)
    BY <2>2, <2>3, <2>4, <2>5 DEF SubmissionPasses
  <2>7. HasBlock(live) <=> ~SubmissionPasses(intent, quote, orders)
    BY <2>2, FactsAnnounceEveryGate DEF FactsMatchTheGates
  <2>8. QED BY <2>6, <2>7
<1> HIDE DEF paper, live
<1>6. QED BY <1>1, <1>2, <1>3, <1>4, <1>5 DEF NoUnfoundedPass, paper, live

(* The holdings of one portfolio. *)
Portfolios == UNION {[1 .. n -> Holdings] : n \in 1 .. MaxHoldings}

(* The places of a portfolio are finitely many, its amounts numbers. *)
LEMMA PortfolioTyped ==
  ASSUME NEW items \in Portfolios
  PROVE  /\ IsFiniteSet(DOMAIN items)
         /\ \A i \in DOMAIN items :
              /\ items[i].market \in {"kr", "us"} /\ items[i].purchase \in Nat
              /\ \A a \in Amounts : items[i][a] \in Int
<1>1. PICK n \in 1 .. MaxHoldings : items \in [1 .. n -> Holdings]
  BY DEF Portfolios
<1>2. n \in Nat
  BY <1>1, InputsAreTyped
<1>3. DOMAIN items = 1 .. n /\ IsFiniteSet(1 .. n)
  BY <1>1, <1>2, FS_Interval
<1>4. ASSUME NEW i \in DOMAIN items
      PROVE  /\ items[i].market \in {"kr", "us"} /\ items[i].purchase \in Nat
             /\ \A a \in Amounts : items[i][a] \in Int
  <2>1. items[i] \in Holding
    BY <1>1, InputsAreTyped
  <2>2. QED BY <2>1 DEF Holding, Markets, Amounts
<1>5. QED BY <1>3, <1>4

(* A total is the sum of one currency; of one holding it is its amount. *)
LEMMA TotalOfOne ==
  ASSUME NEW item, NEW market, NEW a, item[a] \in Int
  PROVE  Total(<<item>>, market, a) = IF item.market = market THEN item[a] ELSE 0
<1> DEFINE items == <<item>>
           f == [i \in DOMAIN items |-> items[i][a]]
           S == SameCurrency(items, market)
<1>1. DOMAIN items = {1} /\ items[1] = item
  OBVIOUS
<1>2. S = IF item.market = market THEN {1} ELSE {}
  BY <1>1 DEF SameCurrency
<1>3. f[1] = item[a]
  BY <1>1
<1>4. Total(items, market, a) = SumFunctionOnSet(f, S)
  BY DEF Total
<1> HIDE DEF items, f, S
<1>5. CASE item.market = market
  <2>1. SumFunctionOnSet(f, {1}) = f[1] + SumFunctionOnSet(f, {1} \ {1})
    <3>1. IsFiniteSet({1}) /\ 1 \in {1} /\ \A x \in {1} : f[x] \in Int
      BY <1>3, FS_Singleton
    <3>2. QED BY <3>1, SumAny
  <2>2. {1} \ {1} = {}
    OBVIOUS
  <2>3. SumFunctionOnSet(f, {}) = 0
    BY SumEmpty
  <2>4. QED BY <1>2, <1>3, <1>4, <1>5, <2>1, <2>2, <2>3 DEF items
<1>6. CASE item.market # market
  BY <1>2, <1>4, <1>6, SumEmpty DEF items
<1>7. QED BY <1>5, <1>6

(* One holding counts in won with its own amount, at the rate if need be.  *)
LEMMA WonOfOne ==
  ASSUME NEW item, NEW a \in Amounts \ {"purchase"}, item[a] \in Int, item.market \in {"kr", "us"}
  PROVE  InWon(<<item>>, Rate)[a] = IF item.market = "kr" THEN item[a] ELSE Rate * item[a]
<1>1. Rate \in Nat
  BY InputsAreTyped DEF Amount
<1>2. InWon(<<item>>, Rate)[a] = Total(<<item>>, "kr", a) + Rate * Total(<<item>>, "us", a)
  BY DEF InWon, Totals
<1>3. /\ Total(<<item>>, "kr", a) = IF item.market = "kr" THEN item[a] ELSE 0
      /\ Total(<<item>>, "us", a) = IF item.market = "us" THEN item[a] ELSE 0
  BY TotalOfOne
<1>4. Rate * 0 = 0
  BY <1>1
<1>5. Rate * item[a] \in Int
  BY <1>1
<1>6. CASE item.market = "kr"
  BY <1>2, <1>3, <1>4, <1>6
<1>7. CASE item.market = "us"
  BY <1>2, <1>3, <1>5, <1>7
<1>8. QED BY <1>6, <1>7

(* The value in won is that of the holdings one by one. *)
LEMMA WonAddsUp ==
  ASSUME NEW items \in Portfolios, NEW a \in Amounts \ {"purchase"}
  PROVE  InWon(items, Rate)[a] = SumFunction([i \in DOMAIN items |-> InWon(<<items[i]>>, Rate)[a]])
<1> DEFINE D == DOMAIN items
           f == [i \in D |-> items[i][a]]
           g == [i \in D |-> InWon(<<items[i]>>, Rate)[a]]
           KR == SameCurrency(items, "kr")
           US == SameCurrency(items, "us")
<1>1. IsFiniteSet(D) /\ \A i \in D : items[i].market \in {"kr", "us"} /\ items[i][a] \in Int
  BY PortfolioTyped
<1>2. \A i \in D : f[i] \in Int /\ g[i] = IF items[i].market = "kr" THEN f[i] ELSE Rate * f[i]
  <2>1. ASSUME NEW i \in D
        PROVE  InWon(<<items[i]>>, Rate)[a] = IF items[i].market = "kr" THEN items[i][a] ELSE Rate * items[i][a]
    BY <1>1, WonOfOne
  <2>2. QED BY <1>1, <2>1
<1>3. KR \in SUBSET D /\ US = D \ KR /\ IsFiniteSet(KR) /\ IsFiniteSet(US)
  <2>1. KR \in SUBSET D /\ US = D \ KR
    BY <1>1 DEF SameCurrency
  <2>2. QED BY <1>1, <2>1, FS_Subset
<1>4. (\A i \in KR : g[i] = f[i] /\ f[i] \in Int) /\ (\A i \in US : g[i] = Rate * f[i] /\ f[i] \in Int)
  BY <1>2, <1>3 DEF SameCurrency
<1>5. Rate \in Int
  BY InputsAreTyped DEF Amount
<1>6. InWon(items, Rate)[a] = SumFunctionOnSet(f, KR) + Rate * SumFunctionOnSet(f, US)
  BY DEF InWon, Totals, Total
<1>7. SumFunction(g) = SumFunctionOnSet(g, D)
  BY DEF SumFunction
<1>8. \A i \in D : g[i] \in Int
  <2>1. \A i \in D : f[i] \in Int => Rate * f[i] \in Int
    BY <1>5
  <2>2. QED BY <1>2, <2>1
<1> HIDE DEF D, f, g, KR, US
<1>9. SumFunctionOnSet(g, D) = SumFunctionOnSet(g, KR) + SumFunctionOnSet(g, US)
  BY <1>1, <1>3, <1>8, SumSplit
<1>10. SumFunctionOnSet(g, KR) = SumFunctionOnSet(f, KR)
  BY <1>3, <1>4, SumSame
<1>11. SumFunctionOnSet(g, US) = Rate * SumFunctionOnSet(f, US)
  BY <1>3, <1>4, <1>5, SumScaled
<1>12. QED BY <1>6, <1>7, <1>9, <1>10, <1>11 DEF g, D

(* The weights of one currency are all unknown, or add up to 100.          *)
LEMMA WeightsAddUp ==
  ASSUME NEW items \in Portfolios, NEW market
  PROVE  LET own == {i \in DOMAIN items : items[i].market = market}
             weight(i) == Weight(items[i], items)
         IN  \/ \A i \in own : weight(i) = None
             \/ \A i \in own :
                  /\ weight(i) # None /\ 0 <= weight(i)[1] /\ weight(i)[1] <= 100 * weight(i)[2]
                  /\ SumFunction([j \in own |-> weight(j)[1]]) = 100 * weight(i)[2]
<1> DEFINE D == DOMAIN items
           own == {i \in D : items[i].market = market}
           f == [i \in D |-> items[i]["value"]]
           total == Total(items, market, "value")
           weight(i) == Weight(items[i], items)
           g == [j \in own |-> weight(j)[1]]
<1>1. IsFiniteSet(D) /\ \A i \in D : items[i].value \in Int
  BY PortfolioTyped DEF Amounts
<1>2. own = SameCurrency(items, market) /\ IsFiniteSet(own) /\ own \subseteq D
  <2>1. own = SameCurrency(items, market) /\ own \subseteq D
    BY DEF SameCurrency
  <2>2. QED BY <1>1, <2>1, FS_Subset
<1>3. total = SumFunctionOnSet(f, own)
  BY <1>2 DEF Total
<1>4. \A i \in own : f[i] = items[i].value /\ f[i] \in Int
  BY <1>1
<1>5. total \in Int
  BY <1>2, <1>3, <1>4, SumInt
<1>6. \A i \in own : weight(i) = IF items[i].value < 0 \/ total <= 0 \/ \E j \in own : items[j].value < 0
                               THEN None ELSE <<100 * items[i].value, total>>
  BY <1>2 DEF Weight
<1>7. SumFunction(g) = SumFunctionOnSet(g, own)
  BY DEF SumFunction
<1>8. g = [j \in own |-> weight(j)[1]]
  OBVIOUS
<1> HIDE DEF own, f, total, weight, g
<1>9. CASE total <= 0 \/ \E j \in own : items[j].value < 0
  BY <1>6, <1>9 DEF own, weight
<1>10. CASE ~(total <= 0 \/ \E j \in own : items[j].value < 0)
  <2>1. \A i \in own : f[i] \in Nat
    BY <1>4, <1>10
  <2>2. \A i \in own : weight(i) = <<100 * f[i], total>>
    BY <1>4, <1>6, <1>10, <2>1
  <2>3. ASSUME NEW i \in own PROVE f[i] <= total
    <3>1. total = f[i] + SumFunctionOnSet(f, own \ {i})
      BY <1>2, <1>3, <1>4, SumAny
    <3>2. SumFunctionOnSet(f, own \ {i}) \in Nat
      BY <1>2, <2>1, FS_RemoveElement, SumNat
    <3>3. f[i] \in Nat
      BY <2>1
    <3>4. QED BY <3>1, <3>2, <3>3
  <2>4. SumFunction(g) = 100 * total
    <3>1. \A i \in own : g[i] = 100 * f[i] /\ f[i] \in Int
      BY <1>8, <2>1, <2>2
    <3>2. SumFunctionOnSet(g, own) = 100 * SumFunctionOnSet(f, own)
      BY <1>2, <3>1, SumScaled
    <3>3. QED BY <1>3, <1>7, <3>2
  <2>5. ASSUME NEW i \in own
        PROVE  /\ weight(i) # None /\ 0 <= weight(i)[1] /\ weight(i)[1] <= 100 * weight(i)[2]
               /\ SumFunction(g) = 100 * weight(i)[2]
    <3>1. weight(i)[1] = 100 * f[i] /\ weight(i)[2] = total /\ weight(i) \in Int \X Int
      BY <1>5, <2>1, <2>2
    <3>2. weight(i) # None
      BY <3>1, InputsAreTyped
    <3>3. f[i] \in Nat /\ f[i] <= total
      BY <2>1, <2>3
    <3>4. QED BY <1>5, <2>4, <3>1, <3>2, <3>3
  <2>6. QED BY <2>5 DEF own, weight, g, D
<1>11. QED BY <1>9, <1>10

(* What two fractions miss of being in order, as a positive number.        *)
LEMMA Difference ==
  ASSUME NEW p \in Int, NEW C \in Int, NEW P \in Int, NEW c \in Int
  PROVE  /\ ~(p * C <= P * c) => C * p + (-P) * c \in Nat \ {0}
         /\ ~(P * c <= p * C) => (-C) * p + P * c \in Nat \ {0}
<1>1. p * C \in Int /\ P * c \in Int
  OBVIOUS
<1>2. C * p = p * C /\ (-P) * c = -(P * c) /\ (-C) * p = -(p * C)
  OBVIOUS
<1>3. QED BY <1>1, <1>2

(* The rate of profit of all lies between those of single holdings.        *)
LEMMA RateOfAll ==
  ASSUME NEW items \in Portfolios, NEW market \in {items[i].market : i \in DOMAIN items},
         \A i \in DOMAIN items : items[i].market = market => items[i].purchase # 0
  PROVE  LET own == {i \in DOMAIN items : items[i].market = market}
             all == TotalRate(items, market)
         IN  /\ all[1] \in Int /\ all[2] \in Int
             /\ \E i \in own : items[i].profit * all[2] * 100 <= all[1] * items[i].purchase
             /\ \E i \in own : all[1] * items[i].purchase <= items[i].profit * all[2] * 100
<1> DEFINE D == DOMAIN items
           own == {i \in D : items[i].market = market}
           p == [i \in D |-> items[i]["profit"]]
           c == [i \in D |-> items[i]["purchase"]]
           P == Total(items, market, "profit")
           C == Total(items, market, "purchase")
<1>1. /\ IsFiniteSet(D)
      /\ \A i \in D : items[i].profit \in Int /\ items[i].purchase \in Nat
  BY PortfolioTyped DEF Amounts
<1>2. own = SameCurrency(items, market) /\ IsFiniteSet(own) /\ own \subseteq D /\ own # {}
  <2>1. own = SameCurrency(items, market) /\ own \subseteq D /\ own # {}
    BY DEF SameCurrency
  <2>2. QED BY <1>1, <2>1, FS_Subset
<1>3. P = SumFunctionOnSet(p, own) /\ C = SumFunctionOnSet(c, own)
  BY <1>2 DEF Total
<1>4. \A i \in own : /\ p[i] = items[i].profit /\ p[i] \in Int
                     /\ c[i] = items[i].purchase /\ c[i] \in Nat \ {0}
  BY <1>1
<1> HIDE DEF own, p, c, D
<1>5. P \in Int /\ C \in Nat \ {0}
  <2>1. \A i \in own : p[i] \in Int /\ c[i] \in Nat \ {0}
    BY <1>4
  <2>2. QED BY <1>2, <1>3, <2>1, SumInt, SumPositive
<1>6. TotalRate(items, market) = <<100 * P, C>>
  BY <1>5 DEF TotalRate, Totals, Amounts
<1> HIDE DEF P, C
<1>7. ASSUME NEW a \in Int, NEW b \in Int, a * P + b * C = 0,
             \A i \in own : a * p[i] + b * c[i] \in Nat \ {0}
      PROVE  FALSE
  <2> DEFINE d == [i \in own |-> a * p[i] + b * c[i]]
  <2>1. \A i \in own : d[i] \in Nat \ {0} /\ d[i] = a * p[i] + b * c[i]
    BY <1>7
  <2> HIDE DEF d
  <2>2. SumFunctionOnSet(d, own) \in Nat \ {0}
    BY <1>2, <2>1, SumPositive
  <2>3. SumFunctionOnSet(d, own) = a * P + b * C
    <3>1. Combined(p, c, d, own, a, b)
      BY <1>4, <2>1 DEF Combined
    <3>2. QED BY <1>2, <1>3, <3>1, SumLinear
  <2>4. QED BY <1>7, <2>2, <2>3
<1>8. \E i \in own : p[i] * C <= P * c[i]
  <2> SUFFICES ASSUME \A i \in own : ~(p[i] * C <= P * c[i]) PROVE FALSE
    OBVIOUS
  <2>1. ASSUME NEW i \in own PROVE C * p[i] + (-P) * c[i] \in Nat \ {0}
    <3>1. p[i] \in Int /\ c[i] \in Int /\ ~(p[i] * C <= P * c[i])
      BY <1>4
    <3>2. QED BY ONLY <1>5, <3>1, Difference
  <2>2. C \in Int /\ -P \in Int /\ C * P + (-P) * C = 0
    BY <1>5
  <2>3. QED BY <1>7, <2>1, <2>2
<1>9. \E i \in own : P * c[i] <= p[i] * C
  <2> SUFFICES ASSUME \A i \in own : ~(P * c[i] <= p[i] * C) PROVE FALSE
    OBVIOUS
  <2>1. ASSUME NEW i \in own PROVE (-C) * p[i] + P * c[i] \in Nat \ {0}
    <3>1. p[i] \in Int /\ c[i] \in Int /\ ~(P * c[i] <= p[i] * C)
      BY <1>4
    <3>2. QED BY ONLY <1>5, <3>1, Difference
  <2>2. -C \in Int /\ P \in Int /\ (-C) * P + P * C = 0
    BY <1>5
  <2>3. QED BY <1>7, <2>1, <2>2
<1>10. QED BY <1>4, <1>5, <1>6, <1>8, <1>9 DEF own, D

(* The rate of profit of one holding. *)
LEMMA RateOfOne ==
  ASSUME NEW item, item.profit \in Int, item.purchase \in Nat
  PROVE  TotalRate(<<item>>, item.market) =
           IF item.purchase = 0 THEN None ELSE <<100 * item.profit, item.purchase>>
<1>1. /\ Total(<<item>>, item.market, "profit") = item["profit"]
      /\ Total(<<item>>, item.market, "purchase") = item["purchase"]
  BY TotalOfOne
<1>2. QED BY <1>1 DEF TotalRate, Totals, Amounts

(* Every holding of a portfolio is counted once, in its own currency. *)
LEMMA PortfolioCounts ==
  ASSUME NEW items \in Portfolios
  PROVE  HoldingsAddUp(items, Rate)
<1> DEFINE own(market) == {i \in DOMAIN items : items[i].market = market}
           weight(i) == Weight(items[i], items)
           rates(market) == {TotalRate(<<items[i]>>, market) : i \in own(market)}
           NoGreater(a, b) == a[1] * b[2] <= b[1] * a[2]
<1>1. ASSUME NEW market \in {items[i].market : i \in DOMAIN items}
      PROVE  \/ \A i \in own(market) : weight(i) = None
             \/ \A i \in own(market) :
                  /\ weight(i) # None /\ 0 <= weight(i)[1] /\ weight(i)[1] <= 100 * weight(i)[2]
                  /\ SumFunction([j \in own(market) |-> weight(j)[1]]) = 100 * weight(i)[2]
  BY WeightsAddUp
<1>2. ASSUME NEW market \in {items[i].market : i \in DOMAIN items}, None \notin rates(market)
      PROVE  /\ \E r \in rates(market) : NoGreater(r, TotalRate(items, market))
             /\ \E r \in rates(market) : NoGreater(TotalRate(items, market), r)
  <2> DEFINE all == TotalRate(items, market)
  <2>1. \A i \in own(market) : items[i].profit \in Int /\ items[i].purchase \in Nat
    BY PortfolioTyped DEF Amounts
  <2>2. \A i \in own(market) :
          TotalRate(<<items[i]>>, market) =
            IF items[i].purchase = 0 THEN None ELSE <<100 * items[i].profit, items[i].purchase>>
    BY <2>1, RateOfOne
  <2>3. \A i \in own(market) : items[i].purchase # 0
    BY <1>2, <2>2
  <2>4. /\ all[1] \in Int /\ all[2] \in Int
        /\ \E i \in own(market) : items[i].profit * all[2] * 100 <= all[1] * items[i].purchase
        /\ \E i \in own(market) : all[1] * items[i].purchase <= items[i].profit * all[2] * 100
    BY <2>3, RateOfAll
  <2>5. ASSUME NEW i \in own(market)
        PROVE  \E r \in rates(market) : /\ r[1] * all[2] = items[i].profit * all[2] * 100
                                        /\ all[1] * r[2] = all[1] * items[i].purchase
    <3> DEFINE r == <<100 * items[i].profit, items[i].purchase>>
    <3>1. r \in rates(market)
      BY <2>2, <2>3
    <3>2. r[1] * all[2] = items[i].profit * all[2] * 100
      <4>1. items[i].profit \in Int /\ r[1] = 100 * items[i].profit
        BY <2>1
      <4> HIDE DEF all, r
      <4>2. QED BY <2>4, <4>1
    <3>3. QED BY <3>1, <3>2
  <2> HIDE DEF all, rates, own
  <2>6. QED BY <2>4, <2>5 DEF all
<1>3. ASSUME NEW a \in DOMAIN InWon(items, Rate)
      PROVE  InWon(items, Rate)[a] = SumFunction([i \in DOMAIN items |-> InWon(<<items[i]>>, Rate)[a]])
  <2>1. a \in Amounts \ {"purchase"}
    BY DEF InWon
  <2>2. QED BY <2>1, WonAddsUp
<1>4. QED BY <1>1, <1>2, <1>3 DEF HoldingsAddUp

(* The portfolio and a ticket agree on what can be sold of a holding. *)
LEMMA SellableIsOne ==
  ASSUME NEW item \in Holdings, NEW orders \in SUBSET OpenOrders
  PROVE  SellableAgreesWithTheTicket(item, orders)
<1> SUFFICES ASSUME NEW n \in 1 .. item.quantity
             PROVE  LET intent == [symbol |-> item.symbol, market |-> item.market, side |-> "SELL",
                                   quantity |-> n, holding |-> item.quantity]
                    IN  SellRow(intent, orders, "PAPER") = "PASS" <=> n <= SellableQuantity(item, orders)
  BY DEF SellableAgreesWithTheTicket
<1> DEFINE intent == [symbol |-> item.symbol, market |-> item.market, side |-> "SELL",
                      quantity |-> n, holding |-> item.quantity]
<1>1. item.quantity \in Nat /\ n \in Nat /\ n <= item.quantity
  BY InputsAreTyped DEF Holding, Amount
<1>2. intent.symbol = item.symbol /\ intent.quantity = n /\ intent.holding = item.quantity
  OBVIOUS
<1> HIDE DEF intent
<1>3. SellableQuantity(item, orders) = Sellable(intent, orders)
  BY <1>2 DEF SellableQuantity, Sellable, Reserved
<1>4. Sellable(intent, orders) \in Nat
  BY <1>1, <1>2, PassOfSale
<1>5. orders # None
  BY InputsAreTyped
<1>6. SellRow(intent, orders, "PAPER") = "PASS" <=> ~(n > Sellable(intent, orders))
  BY <1>1, <1>2, <1>5 DEF SellRow, ForMode
<1>7. QED BY <1>1, <1>3, <1>4, <1>6 DEF intent

(* Some natural numbers have a least one.                                  *)
LEMMA LeastNumber ==
  ASSUME NEW S \in SUBSET Nat, S # {}
  PROVE  \E m \in S : \A k \in S : m <= k
<1> DEFINE R == OpToRel(<, Nat)
<1>1. IsWellFoundedOn(R, Nat)
  BY NatLessThanWellFounded
<1>2. \A m, n \in Nat : m < n => <<m, n>> \in R
  BY DEF OpToRel
<1>3. \E m \in S : \A k \in S : <<k, m>> \notin R
  <2> HIDE DEF R
  <2> QED BY <1>1, WFMin
<1>4. PICK m \in S : \A k \in S : ~(k < m)
  BY <1>2, <1>3
<1>5. QED BY <1>4

(* Every number has an integer square root. *)
LEMMA SquareRoot ==
  ASSUME NEW n \in Nat
  PROVE  \E r \in 0 .. n : r * r <= n /\ (r + 1) * (r + 1) > n
<1> DEFINE S == {s \in Nat : s * s > n}
<1>1. n + 1 \in S
  <2>1. (n + 1) * (n + 1) = n * n + 2 * n + 1 /\ n * n \in Nat
    OBVIOUS
  <2>2. QED BY <2>1
<1>2. PICK s \in S : \A k \in S : s <= k
  <2>1. S \in SUBSET Nat /\ S # {}
    BY <1>1
  <2> HIDE DEF S
  <2> QED BY <2>1, LeastNumber
<1>3. s \in Nat /\ s * s > n /\ s # 0 /\ s <= n + 1
  BY <1>1, <1>2
<1>4. s - 1 \in 0 .. n /\ s - 1 \notin S
  BY <1>2, <1>3
<1>5. (s - 1) * (s - 1) <= n
  <2>1. s - 1 \in Nat /\ (s - 1) * (s - 1) \in Nat
    BY <1>4
  <2> QED BY <1>4, <2>1
<1>6. ((s - 1) + 1) * ((s - 1) + 1) > n
  BY <1>3
<1>7. QED BY <1>4, <1>5, <1>6

(* The neighbours asked are an odd number from 7 to 15. *)
LEMMA NeighboursAsked ==
  ASSUME NEW n \in Nat
  PROVE  Neighbours(n) \in 7 .. 15 /\ Neighbours(n) % 2 = 1
<1> DEFINE Fits(r) == r * r <= n /\ (r + 1) * (r + 1) > n
           root == CHOOSE r \in 0 .. n : Fits(r)
           k == LargerOf(7, SmallerOf(15, root))
<1>1. root \in Nat
  <2>1. \E r \in 0 .. n : Fits(r)
    BY SquareRoot
  <2> HIDE DEF Fits
  <2>2. root \in 0 .. n
    BY <2>1
  <2>3. QED BY <2>2
<1>2. Neighbours(n) = IF k % 2 = 0 THEN k - 1 ELSE k
  BY DEF Neighbours
<1> HIDE DEF root
<1>3. k \in 7 .. 15
  BY <1>1 DEF LargerOf, SmallerOf
<1> HIDE DEF k
<1>4. QED BY <1>2, <1>3

(* The examples known at a step, and how many they are.                    *)
LEMMA TrainingSize ==
  ASSUME NEW e \in Int, NEW h \in Nat
  PROVE  /\ TrainingFor(e, h) = 0 .. e - h
         /\ Cardinality(TrainingFor(e, h)) = IF e < h THEN 0 ELSE e - h + 1
BY FS_Interval DEF TrainingFor

(* Validation starts when the training is at least as long as asked.       *)
LEMMA ValidationRange ==
  ASSUME NEW n \in Nat, NEW h \in Nat \ {0}
  PROVE  /\ NumExamples(n, h) \in Nat
         /\ ValidationStart(n, h) \in Nat /\ ValidationStart(n, h) >= MinTraining + h
         /\ MinTraining \in Nat /\ MinTraining >= 15
BY DirectionAssumption, RoomAssumption DEF NumExamples, ValidationStart, LargerOf

(* Whatever the numbers, a validation step learns up to its own candle. *)
LEMMA NoLookAhead ==
  ASSUME NEW mode \in DOMAIN Horizon, NEW n \in Nat, NEW in
  PROVE  LearnsFromThePast(mode, n, in)
<1> DEFINE h == Horizon[mode]
           steps == Validated(n, h, in.firstChange)
<1>1. h \in Nat \ {0} /\ Lookback \in Nat
  BY DirectionAssumption
<1> HIDE DEF h
<1>2. /\ NumExamples(n, h) \in Nat
      /\ ValidationStart(n, h) \in Nat /\ ValidationStart(n, h) >= MinTraining + h
      /\ MinTraining \in Nat /\ MinTraining >= 15
  BY <1>1, ValidationRange
<1>3. ASSUME NEW e \in steps
      PROVE  /\ \A t \in TrainingFor(e, h) : LabelCandle(t, h) <= FeatureCandle(e)
             /\ \E t \in TrainingFor(e, h) : LabelCandle(t, h) = FeatureCandle(e)
  <2>1. e \in Int /\ e - h >= MinTraining
    BY <1>1, <1>2 DEF Validated
  <2>2. e - h \in TrainingFor(e, h) /\ LabelCandle(e - h, h) = FeatureCandle(e)
    BY <1>1, <1>2, <2>1 DEF TrainingFor, LabelCandle, FeatureCandle
  <2>3. \A t \in TrainingFor(e, h) : LabelCandle(t, h) <= FeatureCandle(e)
    BY <1>1, <2>1 DEF TrainingFor, LabelCandle, FeatureCandle
  <2>4. QED BY <2>2, <2>3
<1>4. ASSUME Signal(mode, n, in).direction # "INSUFFICIENT"
      PROVE  /\ \A t \in 0 .. NumExamples(n, h) - 1 : LabelCandle(t, h) <= n - 1
             /\ Neighbours(NumExamples(n, h)) <= Cardinality(TrainingFor(ValidationStart(n, h), h))
             /\ Neighbours(NumExamples(n, h)) % 2 = 1
  <2>1. ASSUME NEW t \in 0 .. NumExamples(n, h) - 1 PROVE LabelCandle(t, h) <= n - 1
    BY <1>1 DEF NumExamples, LargerOf, LabelCandle
  <2>2. Neighbours(NumExamples(n, h)) \in 7 .. 15 /\ Neighbours(NumExamples(n, h)) % 2 = 1
    BY <1>2, NeighboursAsked
  <2> DEFINE e == ValidationStart(n, h)
  <2>3. Cardinality(TrainingFor(e, h)) >= 15 /\ Cardinality(TrainingFor(e, h)) \in Nat
    <3>1. e \in Int /\ h \in Nat /\ e >= h + 15
      BY <1>1, <1>2
    <3> HIDE DEF e
    <3>2. Cardinality(TrainingFor(e, h)) = IF e < h THEN 0 ELSE e - h + 1
      BY <3>1, TrainingSize
    <3>3. QED BY <3>1, <3>2
  <2>4. QED BY <2>1, <2>2, <2>3
<1>5. QED BY <1>3, <1>4 DEF LearnsFromThePast, h

(* A full history leaves enough steps for a validation.                    *)
LEMMA HistorySuffices ==
  ASSUME NEW mode \in DOMAIN Horizon, NEW n \in Nat, NEW in
  PROVE  FullHistoryIsEnough(mode, n, in)
<1> SUFFICES ASSUME n = MaxCandles
             PROVE  Cardinality(Validated(n, Horizon[mode], 1)) >= MinValidation
  BY DEF FullHistoryIsEnough
<1> DEFINE h == Horizon[mode]
           first == ValidationStart(n, h)
           last == NumExamples(n, h) - 1
<1>1. /\ h \in Nat \ {0} /\ {Lookback, MinTraining, MinValidation, ValidationWindow} \subseteq Nat \ {0}
      /\ Lookback + 2 * h + MinTraining + MinValidation <= n
      /\ ValidationWindow >= MinValidation /\ MinTraining >= 15
  BY DirectionAssumption, RoomAssumption
<1> HIDE DEF h
<1>2. NumExamples(n, h) = n - h - Lookback
  BY <1>1 DEF NumExamples, LargerOf
<1>3. first \in Nat /\ first >= MinTraining + h /\ last - first + 1 >= MinValidation /\ last \in Int
  BY <1>1, <1>2 DEF ValidationStart, LargerOf
<1>4. Validated(n, h, 1) = first .. last
  <2>1. ASSUME NEW e \in first .. last
        PROVE  Cardinality(TrainingFor(e, h)) >= MinTraining /\ 1 \in TrainingFor(e, h)
    <3>1. e \in Int /\ e >= MinTraining + h
      BY <1>1, <1>3
    <3>2. /\ TrainingFor(e, h) = 0 .. e - h
          /\ Cardinality(TrainingFor(e, h)) = IF e < h THEN 0 ELSE e - h + 1
      BY <1>1, <3>1, TrainingSize
    <3>3. QED BY <1>1, <3>1, <3>2
  <2>2. QED BY <2>1 DEF Validated
<1> HIDE DEF first, last
<1>5. Cardinality(first .. last) = last - first + 1
  <2>1. Cardinality(first .. last) = IF first > last THEN 0 ELSE last - first + 1
    BY <1>3, FS_Interval
  <2>2. QED BY <1>1, <1>3, <2>1
<1>6. QED BY <1>1, <1>3, <1>4, <1>5 DEF h

(* A product of integers is an integer.                                    *)
LEMMA ProductInt ==
  ASSUME NEW a \in Int, NEW b \in Int
  PROVE  a * b \in Int
OBVIOUS

(* Two percentages whose product reaches a share reach it both.            *)
LEMMA EarnedProduct ==
  ASSUME NEW s \in 0 .. 100, NEW a \in 0 .. 100, NEW c \in 0 .. 100, s * a >= 100 * c
  PROVE  s >= c /\ a >= c
<1>1. s * a <= s * 100 /\ s * a <= 100 * a
  OBVIOUS
<1>2. QED BY <1>1

(* A direction is given only with the score and agreement it needs.        *)
LEMMA DirectionEarned ==
  ASSUME NEW mode \in DOMAIN Horizon, NEW n \in Nat, NEW in,
         in.score \in 0 .. 100, in.agreement \in 0 .. 100
  PROVE  SignalIsEarned(mode, n, in)
<1> SUFFICES ASSUME Signal(mode, n, in).direction \in {"BUY", "SELL"}
             PROVE  SignalIsEarned(mode, n, in)
  BY DEF SignalIsEarned
<1> DEFINE h == Horizon[mode]
<1>1. /\ ~in.stale /\ HasScore(n, h, in)
      /\ Signal(mode, n, in).direction = IF Predicted(in) \in {"BUY", "SELL"} /\ WeaklyConfirmed(in)
                                         THEN "HOLD" ELSE Predicted(in)
  BY DEF Signal, Insufficient
<1>2. ~WeaklyConfirmed(in) /\ Predicted(in) \in {"BUY", "SELL"}
  BY <1>1
<1>3. in.agreement * in.score >= 100 * MinConfidence /\ MinConfidence \in 0 .. 100
  <2>1. MinConfidence \in 0 .. 100
    BY DirectionAssumption
  <2>2. in.agreement * in.score \in Int /\ 100 * MinConfidence \in Int
    <3>1. in.agreement \in Int /\ in.score \in Int /\ 100 * MinConfidence \in Int
      BY <2>1
    <3>2. QED BY ONLY <3>1, ProductInt
  <2>3. QED BY <1>2, <2>1, <2>2 DEF WeaklyConfirmed
<1>4. in.score * in.agreement = in.agreement * in.score
  OBVIOUS
<1>5. in.score >= MinConfidence /\ in.agreement >= MinConfidence
  BY <1>3, <1>4, EarnedProduct
<1>6. Predicted(in) = in.label
  BY <1>2 DEF Predicted
<1>7. QED BY <1>1, <1>2, <1>3, <1>4, <1>5, <1>6 DEF SignalIsEarned, HasScore, h

-----------------------------------------------------------------------------
(* The larger and the smaller of two numbers. *)
LEMMA OfTwo ==
  ASSUME NEW a \in Int, NEW b \in Int
  PROVE  /\ Max({a, b}) = IF a >= b THEN a ELSE b
         /\ Min({a, b}) = IF a <= b THEN a ELSE b
<1> DEFINE m == IF a >= b THEN a ELSE b
           l == IF a <= b THEN a ELSE b
<1>1. m \in {a, b} /\ (\A y \in {a, b} : m >= y) /\ l \in {a, b} /\ \A y \in {a, b} : l <= y
  OBVIOUS
<1>2. \A x \in {a, b} : /\ (\A y \in {a, b} : x >= y) => x = m
                        /\ (\A y \in {a, b} : x <= y) => x = l
  OBVIOUS
<1>3. QED BY <1>1, <1>2 DEF Max, Min

Has(S, x) == IF x \in S THEN 1 ELSE 0
Is(x, y) == IF x = y THEN 1 ELSE 0

(* One more element counts if it is in the set. *)
LEMMA CountOneMore ==
  ASSUME NEW S, NEW T, IsFiniteSet(T), NEW x, x \notin T
  PROVE  /\ IsFiniteSet(T \cup {x})
         /\ Cardinality(S \cap (T \cup {x})) = Cardinality(S \cap T) + Has(S, x)
<1>1. IsFiniteSet(T \cup {x}) /\ IsFiniteSet(S \cap T)
  BY FS_AddElement, FS_Intersection
<1>2. CASE x \in S
  <2>1. S \cap (T \cup {x}) = (S \cap T) \cup {x} /\ x \notin S \cap T
    BY <1>2
  <2>2. QED BY <1>1, <1>2, <2>1, FS_AddElement DEF Has
<1>3. CASE x \notin S
  <2>1. Cardinality(S \cap (T \cup {x})) = Cardinality(S \cap T) /\ Cardinality(S \cap T) \in Nat
    <3>1. S \cap (T \cup {x}) = S \cap T
      BY <1>3
    <3>2. Cardinality(S \cap T) \in Nat
      BY <1>1, FS_CardinalityType
    <3>3. QED BY <3>1, <3>2, Zenon
  <2>2. Has(S, x) = 0
    BY <1>3 DEF Has
  <2>3. QED BY <1>1, <2>1, <2>2
<1>4. QED BY <1>2, <1>3

(* Voters are counted one by one. *)
LEMMA CountVoters ==
  ASSUME NEW S \in SUBSET Voters
  PROVE  /\ IsFiniteSet(Voters)
         /\ Cardinality(S) = Has(S, "ema") + Has(S, "location") + Has(S, "vwap")
                             + Has(S, "book") + Has(S, "tape")
<1> DEFINE A == {"ema"}
           B == {"ema", "location"}
           C == {"ema", "location", "vwap"}
           D == {"ema", "location", "vwap", "book"}
<1>1. Cardinality(S \cap Voters) = Cardinality(S) /\ Cardinality(S \cap {}) = Cardinality({})
  <2>1. S \cap Voters = S /\ S \cap {} = {}
    OBVIOUS
  <2>2. QED BY <2>1, Zenon
<1>2. /\ A = {} \cup {"ema"} /\ B = A \cup {"location"} /\ C = B \cup {"vwap"} /\ D = C \cup {"book"}
      /\ Voters = D \cup {"tape"}
      /\ "ema" \notin {} /\ "location" \notin A /\ "vwap" \notin B /\ "book" \notin C /\ "tape" \notin D
  BY DEF Voters
<1> HIDE DEF A, B, C, D
<1>3. IsFiniteSet(A) /\ Cardinality(S \cap A) = Cardinality(S \cap {}) + Has(S, "ema")
  BY <1>2, FS_EmptySet, CountOneMore
<1>4. IsFiniteSet(B) /\ Cardinality(S \cap B) = Cardinality(S \cap A) + Has(S, "location")
  BY <1>2, <1>3, CountOneMore
<1>5. IsFiniteSet(C) /\ Cardinality(S \cap C) = Cardinality(S \cap B) + Has(S, "vwap")
  BY <1>2, <1>4, CountOneMore
<1>6. IsFiniteSet(D) /\ Cardinality(S \cap D) = Cardinality(S \cap C) + Has(S, "book")
  BY <1>2, <1>5, CountOneMore
<1>7. IsFiniteSet(Voters) /\ Cardinality(S \cap Voters) = Cardinality(S \cap D) + Has(S, "tape")
  BY <1>2, <1>6, CountOneMore
<1>8. Cardinality(S \cap {}) = 0
  BY <1>1, FS_EmptySet
<1>9. /\ Has(S, "ema") \in Nat /\ Has(S, "location") \in Nat /\ Has(S, "vwap") \in Nat
      /\ Has(S, "book") \in Nat /\ Has(S, "tape") \in Nat
  BY DEF Has
<1>10. QED BY <1>1, <1>3, <1>4, <1>5, <1>6, <1>7, <1>8, <1>9

(* The votes of a reading, one by one. *)
LEMMA VotesOfReading ==
  ASSUME NEW r \in Reading, NEW sign
  PROVE  /\ Votes(r, sign) = Is(r.ema, sign) + Is(r.location, sign) + Is(r.vwap, sign)
                             + Is(r.book, sign) + Is(r.tape, sign)
         /\ Votes(r, sign) \in Nat
         /\ Votes(r, sign) = 0 => \A v \in Voters : r[v] # sign
<1> DEFINE S == {v \in Voters : r[v] = sign}
<1>1. S \in SUBSET Voters /\ \A v \in Voters : v \in S <=> r[v] = sign
  OBVIOUS
<1>2. Votes(r, sign) = Cardinality(S)
  BY DEF Votes
<1>3. {"ema", "location", "vwap", "book", "tape"} = Voters
  BY DEF Voters
<1> HIDE DEF S
<1>4. Cardinality(S) = Has(S, "ema") + Has(S, "location") + Has(S, "vwap")
                       + Has(S, "book") + Has(S, "tape")
  BY <1>1, CountVoters
<1>5. /\ Has(S, "ema") = Is(r.ema, sign) /\ Has(S, "location") = Is(r.location, sign)
      /\ Has(S, "vwap") = Is(r.vwap, sign) /\ Has(S, "book") = Is(r.book, sign)
      /\ Has(S, "tape") = Is(r.tape, sign)
  BY <1>1, <1>3 DEF Has, Is
<1>6. Cardinality(S) \in Nat /\ (Cardinality(S) = 0 => S = {})
  <2>1. IsFiniteSet(Voters)
    BY <1>1, CountVoters
  <2>2. IsFiniteSet(S)
    BY <1>1, <2>1, FS_Subset
  <2>3. QED BY <2>2, FS_CardinalityType, FS_EmptySet
<1>7. QED BY <1>1, <1>2, <1>4, <1>5, <1>6

(* A reading turned round has its signs turned round. *)
LEMMA MirroredReading ==
  ASSUME NEW r \in Reading
  PROVE  LET m == Mirrored(r)
         IN  /\ \A v \in Voters : /\ r[v] \in {-1, 0, 1, None}
                                  /\ m[v] = IF r[v] = None THEN None ELSE -r[v]
             /\ m.volume = r.volume
<1>1. DOMAIN r = {"ema", "location", "vwap", "book", "tape", "volume"}
  BY DEF Reading
<1>2. \A v \in Voters : r[v] \in {-1, 0, 1, None}
  BY DEF Reading, Signs, Voters
<1>3. \A v \in Voters : Mirrored(r)[v] = IF r[v] = None THEN None ELSE -r[v]
  BY <1>1 DEF Mirrored, Voters
<1>4. Mirrored(r).volume = r.volume
  BY <1>1 DEF Mirrored, Voters
<1>5. QED BY <1>2, <1>3, <1>4

(* Turned round, the votes change sides. *)
LEMMA MirroredVotes ==
  ASSUME NEW r \in Reading
  PROVE  LET m == Mirrored(r)
         IN  /\ Votes(m, 1) = Votes(r, -1) /\ Votes(m, -1) = Votes(r, 1)
             /\ {v \in Voters : m[v] # None} = {v \in Voters : r[v] # None}
             /\ HasPriceContext(m) <=> HasPriceContext(r)
             /\ BookTapeConflict(m) <=> BookTapeConflict(r)
             /\ TrendFlowConflict(m) <=> TrendFlowConflict(r)
             /\ m.ema = 1 <=> r.ema = -1
             /\ m.ema = -1 <=> r.ema = 1
             /\ m.vwap = 1 <=> r.vwap = -1
             /\ m.vwap = -1 <=> r.vwap = 1
             /\ Flow(m) = 1 <=> Flow(r) = -1
             /\ Flow(m) = -1 <=> Flow(r) = 1
<1> DEFINE m == Mirrored(r)
<1>1. \A v \in Voters : /\ r[v] \in {-1, 0, 1, None}
                        /\ m[v] = IF r[v] = None THEN None ELSE -r[v]
  BY MirroredReading
<1>2. None \notin Int
  BY InputsAreTyped
<1>3. \A v \in Voters : /\ m[v] = 1 <=> r[v] = -1
                        /\ m[v] = -1 <=> r[v] = 1
                        /\ m[v] # None <=> r[v] # None
  BY <1>1, <1>2
<1>4. /\ {v \in Voters : m[v] = 1} = {v \in Voters : r[v] = -1}
      /\ {v \in Voters : m[v] = -1} = {v \in Voters : r[v] = 1}
      /\ {v \in Voters : m[v] # None} = {v \in Voters : r[v] # None}
  BY <1>3
<1>5. {"ema", "location", "vwap", "book", "tape"} = Voters
  BY DEF Voters
<1> HIDE DEF m
<1>6. /\ Flow(m) = 1 <=> Flow(r) = -1
      /\ Flow(m) = -1 <=> Flow(r) = 1
  <2>1. /\ m.tape = 1 <=> r.tape = -1
        /\ m.tape = -1 <=> r.tape = 1
        /\ m.book = 1 <=> r.book = -1
        /\ m.book = -1 <=> r.book = 1
    BY <1>3, <1>5
  <2>2. QED BY <2>1 DEF Flow
<1>7. /\ BookTapeConflict(m) <=> BookTapeConflict(r)
      /\ TrendFlowConflict(m) <=> TrendFlowConflict(r)
  BY <1>3, <1>5, <1>6 DEF BookTapeConflict, TrendFlowConflict, Opposed
<1>8. HasPriceContext(m) <=> HasPriceContext(r)
  BY <1>3, <1>5 DEF HasPriceContext
<1>9. QED BY <1>3, <1>4, <1>5, <1>6, <1>7, <1>8 DEF Votes, m

(* Turned round, a reading says the opposite, and is as sure. *)
LEMMA OppositeReading ==
  ASSUME NEW r \in Reading
  PROVE  /\ Headline(Mirrored(r)) = Opposite(Headline(r))
         /\ Confidence(Mirrored(r)) = Confidence(r)
<1> DEFINE m == Mirrored(r)
           u == Votes(r, 1)
           d == Votes(r, -1)
<1>1. u \in Nat /\ d \in Nat /\ Votes(m, 1) = d /\ Votes(m, -1) = u
  BY VotesOfReading, MirroredVotes
<1>2. Cardinality({v \in Voters : m[v] # None}) = Cardinality({v \in Voters : r[v] # None})
  <2>1. {v \in Voters : m[v] # None} = {v \in Voters : r[v] # None}
    BY MirroredVotes
  <2>2. QED BY <2>1, Zenon
<1>3. /\ HasPriceContext(m) <=> HasPriceContext(r)
      /\ BookTapeConflict(m) <=> BookTapeConflict(r)
      /\ TrendFlowConflict(m) <=> TrendFlowConflict(r)
      /\ m.ema = 1 <=> r.ema = -1
      /\ m.ema = -1 <=> r.ema = 1
      /\ m.vwap = 1 <=> r.vwap = -1
      /\ m.vwap = -1 <=> r.vwap = 1
      /\ Flow(m) = 1 <=> Flow(r) = -1
      /\ Flow(m) = -1 <=> Flow(r) = 1
      /\ m.volume = r.volume
  BY MirroredVotes, MirroredReading
<1> HIDE DEF m, u, d
<1>4. Headline(m) = Opposite(Headline(r)) /\ Headline(r) \in Headlines
  <2> DEFINE a == Cardinality({v \in Voters : r[v] # None})
  <2>1. Headline(m) =
          IF ~HasPriceContext(r) THEN "none"
          ELSE IF d + u < 2 THEN IF a >= 2 /\ d + u = 0 THEN "range" ELSE "none"
          ELSE IF r.ema = 1 /\ r.vwap = -1 /\ Flow(r) = -1 THEN "rebound"
          ELSE IF r.ema = -1 /\ r.vwap = 1 /\ Flow(r) = 1 THEN "correction"
          ELSE IF d >= u + 2 THEN "up"
          ELSE IF u >= d + 2 THEN "down"
          ELSE IF BookTapeConflict(r) \/ TrendFlowConflict(r) \/ (d > 0 /\ u > 0) THEN "conflict"
          ELSE "range"
    BY <1>1, <1>2, <1>3 DEF Headline
  <2>2. Headline(r) =
          IF ~HasPriceContext(r) THEN "none"
          ELSE IF u + d < 2 THEN IF a >= 2 /\ u + d = 0 THEN "range" ELSE "none"
          ELSE IF r.ema = -1 /\ r.vwap = 1 /\ Flow(r) = 1 THEN "rebound"
          ELSE IF r.ema = 1 /\ r.vwap = -1 /\ Flow(r) = -1 THEN "correction"
          ELSE IF u >= d + 2 THEN "up"
          ELSE IF d >= u + 2 THEN "down"
          ELSE IF BookTapeConflict(r) \/ TrendFlowConflict(r) \/ (u > 0 /\ d > 0) THEN "conflict"
          ELSE "range"
    BY DEF Headline, u, d
  <2> HIDE DEF a
  <2>3. QED BY <1>1, <2>1, <2>2 DEF Opposite, Headlines
<1>5. Confidence(m) = Confidence(r)
  <2>1. /\ Max({Votes(m, 1), Votes(m, -1)}) = Max({u, d})
        /\ Min({Votes(m, 1), Votes(m, -1)}) = Min({u, d})
    BY <1>1, OfTwo
  <2>2. /\ Headline(m) = "none" <=> Headline(r) = "none"
        /\ Headline(m) = "conflict" <=> Headline(r) = "conflict"
    BY <1>4 DEF Opposite, Headlines
  <2>3. QED BY <1>3, <2>1, <2>2 DEF Confidence, u, d
<1>6. QED BY <1>4, <1>5 DEF m

(* More than low confidence is given only to what the majority says, high  *)
(* confidence never against a vote.                                        *)
LEMMA ConfidentReading ==
  ASSUME NEW r \in Reading, Confidence(r) \in {"moderate", "high"}
  PROVE  LET u == Votes(r, 1)
             d == Votes(r, -1)
         IN  /\ \/ Heading(Headline(r)) = 1 /\ u > d
                \/ Heading(Headline(r)) = -1 /\ d > u
             /\ Confidence(r) = "high" => u = 0 \/ d = 0
<1> DEFINE u == Votes(r, 1)
           d == Votes(r, -1)
<1>1. u \in Nat /\ d \in Nat
  BY VotesOfReading
<1>2. /\ u = Is(r.ema, 1) + Is(r.location, 1) + Is(r.vwap, 1) + Is(r.book, 1) + Is(r.tape, 1)
      /\ d = Is(r.ema, -1) + Is(r.location, -1) + Is(r.vwap, -1) + Is(r.book, -1) + Is(r.tape, -1)
  BY VotesOfReading
<1>3. /\ Max({u, d}) = IF u >= d THEN u ELSE d
      /\ Min({u, d}) = IF u <= d THEN u ELSE d
  BY <1>1, OfTwo
<1> HIDE DEF u, d
<1>4. /\ Headline(r) # "none" /\ Headline(r) # "conflict" /\ ~BookTapeConflict(r)
      /\ u + d >= 2 /\ u # d
      /\ Confidence(r) = "high" => u = 0 \/ d = 0
  BY <1>1, <1>3 DEF Confidence, NoVoteAgainst, u, d
<1>5. CASE r.ema = -1 /\ r.vwap = 1 /\ Flow(r) = 1
  <2>1. Headline(r) = "rebound"
    BY <1>1, <1>4, <1>5 DEF Headline, u, d
  <2>2. u >= 2
    BY <1>2, <1>5 DEF Flow, Is
  <2>3. d <= 2
    BY <1>2, <1>4, <1>5 DEF Flow, Is, BookTapeConflict, Opposed
  <2>4. QED BY <1>1, <1>4, <2>1, <2>2, <2>3 DEF Heading, u, d
<1>6. CASE r.ema = 1 /\ r.vwap = -1 /\ Flow(r) = -1
  <2>1. Headline(r) = "correction"
    BY <1>1, <1>4, <1>6 DEF Headline, u, d
  <2>2. d >= 2
    BY <1>2, <1>6 DEF Flow, Is
  <2>3. u <= 2
    BY <1>2, <1>4, <1>6 DEF Flow, Is, BookTapeConflict, Opposed
  <2>4. QED BY <1>1, <1>4, <2>1, <2>2, <2>3 DEF Heading, u, d
<1>7. CASE ~(r.ema = -1 /\ r.vwap = 1 /\ Flow(r) = 1) /\ ~(r.ema = 1 /\ r.vwap = -1 /\ Flow(r) = -1)
  <2>1. \/ Headline(r) = "up" /\ u >= d + 2
        \/ Headline(r) = "down" /\ d >= u + 2
    BY <1>1, <1>4, <1>7 DEF Headline, u, d
  <2>2. QED BY <1>1, <1>4, <2>1 DEF Heading, u, d
<1>8. QED BY <1>5, <1>6, <1>7

(* Whatever the signals: the reading follows the votes and takes no side. *)
LEMMA ReadingIsEven ==
  ASSUME NEW r \in Reading
  PROVE  ReadingFollowsTheVotes(r)
<1>1. /\ Headline(Mirrored(r)) = Opposite(Headline(r))
      /\ Confidence(Mirrored(r)) = Confidence(r)
  BY OppositeReading
<1>2. /\ Votes(r, 1) \in Nat /\ Votes(r, -1) \in Nat
      /\ \A v \in Voters : r[v] \in {-1, 0, 1, None}
      /\ Votes(r, 1) = 0 => \A v \in Voters : r[v] # 1
      /\ Votes(r, -1) = 0 => \A v \in Voters : r[v] # -1
  BY VotesOfReading, MirroredReading
<1>3. Confidence(r) \in {"moderate", "high"} => Heading(Headline(r)) * (Votes(r, 1) - Votes(r, -1)) > 0
  BY <1>2, ConfidentReading
<1>4. Confidence(r) = "high" => \A v \in Voters : r[v] \in {None, 0, Heading(Headline(r))}
  <2>1. ASSUME Confidence(r) = "high", Votes(r, -1) = 0
        PROVE  \A v \in Voters : r[v] \in {None, 0, Heading(Headline(r))}
    <3>1. Heading(Headline(r)) = 1
      BY <1>2, <2>1, ConfidentReading
    <3>2. QED BY <1>2, <2>1, <3>1
  <2>2. ASSUME Confidence(r) = "high", Votes(r, 1) = 0
        PROVE  \A v \in Voters : r[v] \in {None, 0, Heading(Headline(r))}
    <3>1. Heading(Headline(r)) = -1
      BY <1>2, <2>2, ConfidentReading
    <3>2. QED BY <1>2, <2>2, <3>1
  <2>3. QED BY <2>1, <2>2, ConfidentReading
<1>5. r.ema = None /\ r.vwap = None => Heading(Headline(r)) = 0
  BY DEF Headline, HasPriceContext, Heading
<1>6. QED BY <1>1, <1>3, <1>4, <1>5 DEF ReadingFollowsTheVotes

-----------------------------------------------------------------------------
(* A headline turned round heads the other way. *)
LEMMA OppositeHeading ==
  ASSUME NEW h \in Headlines
  PROVE  /\ Heading(h) \in {-1, 0, 1}
         /\ Heading(Opposite(h)) = 1 <=> Heading(h) = -1
         /\ Heading(Opposite(h)) = -1 <=> Heading(h) = 1
<1>1. /\ Opposite("up") = "down" /\ Opposite("down") = "up"
      /\ Opposite("rebound") = "correction" /\ Opposite("correction") = "rebound"
      /\ \A x \in {"range", "conflict", "none"} : Opposite(x) = x
  BY DEF Opposite
<1>2. /\ \A x \in {"up", "rebound"} : Heading(x) = 1
      /\ \A x \in {"down", "correction"} : Heading(x) = -1
      /\ \A x \in {"range", "conflict", "none"} : Heading(x) = 0
  BY DEF Heading
<1>3. QED BY <1>1, <1>2 DEF Headlines

(* How many of the intraday timeframes head some way. *)
Headed(intraday, sign) == Cardinality({m \in DOMAIN intraday : Heading(intraday[m]) = sign})

(* When the day and some intraday timeframes are known to head anywhere.   *)
KnownHeadings(intraday, day) ==
  Cardinality({m \in DOMAIN intraday : Heading(intraday[m]) # 0}) + IF Heading(day) # 0 THEN 1 ELSE 0

Heads(intraday, day, sign) ==
  Heading(day) = sign \/ \E m \in DOMAIN intraday : Heading(intraday[m]) = sign

(* An alignment from the headings it depends on. *)
LEMMA AlignmentOfHeadings ==
  ASSUME NEW intraday, NEW day
  PROVE  Alignment(intraday, day) =
           IF KnownHeadings(intraday, day) < 2 THEN "unknown"
           ELSE IF ~Heads(intraday, day, -1) THEN "aligned up"
           ELSE IF ~Heads(intraday, day, 1) THEN "aligned down"
           ELSE IF Heading(day) = -1 /\ Headed(intraday, 1) >= 2 THEN "short rebound"
           ELSE IF Heading(day) = 1 /\ Headed(intraday, -1) >= 2 THEN "short correction"
           ELSE "mixed"
<1> DEFINE all == {Heading(intraday[m]) : m \in DOMAIN intraday} \cup {Heading(day)}
<1>1. -1 \in all <=> Heads(intraday, day, -1)
  BY DEF Heads
<1>2. 1 \in all <=> Heads(intraday, day, 1)
  BY DEF Heads
<1> HIDE DEF all
<1>3. Alignment(intraday, day) =
        IF KnownHeadings(intraday, day) < 2 THEN "unknown"
        ELSE IF -1 \notin all THEN "aligned up"
        ELSE IF 1 \notin all THEN "aligned down"
        ELSE IF Heading(day) = -1 /\ Headed(intraday, 1) >= 2 THEN "short rebound"
        ELSE IF Heading(day) = 1 /\ Headed(intraday, -1) >= 2 THEN "short correction"
        ELSE "mixed"
  BY DEF Alignment, KnownHeadings, Headed, all
<1>4. QED BY <1>1, <1>2, <1>3

(* What is known of some headings: a number, and nothing without any. *)
LEMMA KnownOfHeadings ==
  ASSUME NEW S \in {{"1m", "5m", "15m"}, MultiTimeframes \ {"1d"}},
         NEW intraday \in [S -> Headlines], NEW day \in Headlines
  PROVE  /\ KnownHeadings(intraday, day) \in Nat
         /\ KnownHeadings(intraday, day) >= 2 => Heads(intraday, day, 1) \/ Heads(intraday, day, -1)
<1> DEFINE K == {m \in DOMAIN intraday : Heading(intraday[m]) # 0}
<1>1. IsFiniteSet(S)
  <2>1. S = {"1m", "5m", "15m"}
    BY DEF MultiTimeframes
  <2>2. {"1m", "5m", "15m"} = (({} \cup {"1m"}) \cup {"5m"}) \cup {"15m"}
    OBVIOUS
  <2>3. IsFiniteSet((({} \cup {"1m"}) \cup {"5m"}) \cup {"15m"})
    BY FS_EmptySet, FS_AddElement
  <2>4. QED BY <2>1, <2>2, <2>3, Zenon
<1>2. K \in SUBSET S /\ DOMAIN intraday = S
  OBVIOUS
<1>3. \A m \in S : Heading(intraday[m]) \in {-1, 0, 1}
  <2>1. \A m \in S : intraday[m] \in Headlines
    OBVIOUS
  <2>2. QED BY <2>1, OppositeHeading
<1>4. Heading(day) \in {-1, 0, 1}
  BY OppositeHeading
<1>5. Cardinality(K) \in Nat /\ (K = {} => Cardinality(K) = 0)
  BY <1>1, <1>2, FS_Subset, FS_CardinalityType, FS_EmptySet
<1>6. KnownHeadings(intraday, day) = Cardinality(K) + IF Heading(day) # 0 THEN 1 ELSE 0
  BY DEF KnownHeadings
<1>7. K # {} => Heads(intraday, day, 1) \/ Heads(intraday, day, -1)
  BY <1>2, <1>3 DEF Heads
<1> HIDE DEF K
<1>8. QED BY <1>4, <1>5, <1>6, <1>7 DEF Heads

(* No timeframe is outvoted, and turned round the timeframes align the     *)
(* other way.                                                              *)
LEMMA AlignmentIsEven ==
  ASSUME NEW intraday \in [{"1m", "5m", "15m"} -> Headlines], NEW day \in Headlines
  PROVE  AlignmentIsUnanimous(intraday, day)
<1> DEFINE turned == [m \in DOMAIN intraday |-> Opposite(intraday[m])]
           D == {"1m", "5m", "15m"}
<1>1. /\ DOMAIN intraday = D /\ DOMAIN turned = D
      /\ \A m \in D : intraday[m] \in Headlines /\ turned[m] = Opposite(intraday[m])
  OBVIOUS
<1>2. \A m \in D : /\ Heading(intraday[m]) \in {-1, 0, 1}
                   /\ Heading(turned[m]) = 1 <=> Heading(intraday[m]) = -1
                   /\ Heading(turned[m]) = -1 <=> Heading(intraday[m]) = 1
  BY <1>1, OppositeHeading
<1>3. /\ Heading(day) \in {-1, 0, 1}
      /\ Heading(Opposite(day)) = 1 <=> Heading(day) = -1
      /\ Heading(Opposite(day)) = -1 <=> Heading(day) = 1
  BY OppositeHeading
<1>4. Opposite(day) \in Headlines /\ \A m \in D : turned[m] \in Headlines
  BY <1>1 DEF Opposite, Headlines
<1>5. \A m \in D : Heading(turned[m]) \in {-1, 0, 1} /\ Heading(Opposite(day)) \in {-1, 0, 1}
  BY <1>4, OppositeHeading
<1>6. KnownHeadings(turned, Opposite(day)) = KnownHeadings(intraday, day)
  <2>1. {m \in DOMAIN turned : Heading(turned[m]) # 0} = {m \in DOMAIN intraday : Heading(intraday[m]) # 0}
    BY <1>1, <1>2, <1>5
  <2>2. Heading(Opposite(day)) # 0 <=> Heading(day) # 0
    BY <1>3, <1>5
  <2>3. Cardinality({m \in DOMAIN turned : Heading(turned[m]) # 0}) =
          Cardinality({m \in DOMAIN intraday : Heading(intraday[m]) # 0})
    BY <2>1, Zenon
  <2>4. QED BY <2>2, <2>3 DEF KnownHeadings
<1>7. /\ Headed(turned, 1) = Headed(intraday, -1)
      /\ Headed(turned, -1) = Headed(intraday, 1)
  <2>1. /\ {m \in DOMAIN turned : Heading(turned[m]) = 1} = {m \in DOMAIN intraday : Heading(intraday[m]) = -1}
        /\ {m \in DOMAIN turned : Heading(turned[m]) = -1} = {m \in DOMAIN intraday : Heading(intraday[m]) = 1}
    BY <1>1, <1>2
  <2>2. QED BY <2>1, Zenon DEF Headed
<1>8. /\ Heads(turned, Opposite(day), 1) <=> Heads(intraday, day, -1)
      /\ Heads(turned, Opposite(day), -1) <=> Heads(intraday, day, 1)
  BY <1>1, <1>2, <1>3 DEF Heads
<1>9. /\ KnownHeadings(intraday, day) \in Nat
      /\ KnownHeadings(intraday, day) >= 2 => Heads(intraday, day, 1) \/ Heads(intraday, day, -1)
  BY KnownOfHeadings
<1> HIDE DEF turned
<1>10. Alignment(turned, Opposite(day)) = Opposite(Alignment(intraday, day))
  <2>1. Alignment(turned, Opposite(day)) =
          IF KnownHeadings(intraday, day) < 2 THEN "unknown"
          ELSE IF ~Heads(intraday, day, 1) THEN "aligned up"
          ELSE IF ~Heads(intraday, day, -1) THEN "aligned down"
          ELSE IF Heading(day) = 1 /\ Headed(intraday, -1) >= 2 THEN "short rebound"
          ELSE IF Heading(day) = -1 /\ Headed(intraday, 1) >= 2 THEN "short correction"
          ELSE "mixed"
    BY <1>3, <1>6, <1>7, <1>8, AlignmentOfHeadings
  <2>2. /\ Opposite("aligned up") = "aligned down" /\ Opposite("aligned down") = "aligned up"
        /\ Opposite("short rebound") = "short correction" /\ Opposite("short correction") = "short rebound"
        /\ Opposite("unknown") = "unknown" /\ Opposite("mixed") = "mixed"
    BY DEF Opposite
  <2>3. Heading(day) \in {-1, 0, 1}
    BY <1>3
  <2>4. Alignment(intraday, day) =
          IF KnownHeadings(intraday, day) < 2 THEN "unknown"
          ELSE IF ~Heads(intraday, day, -1) THEN "aligned up"
          ELSE IF ~Heads(intraday, day, 1) THEN "aligned down"
          ELSE IF Heading(day) = -1 /\ Headed(intraday, 1) >= 2 THEN "short rebound"
          ELSE IF Heading(day) = 1 /\ Headed(intraday, -1) >= 2 THEN "short correction"
          ELSE "mixed"
    BY AlignmentOfHeadings
  <2> DEFINE known == KnownHeadings(intraday, day)
             up == Heads(intraday, day, 1)
             down == Heads(intraday, day, -1)
             all == Alignment(intraday, day)
             other == Alignment(turned, Opposite(day))
             dayUp == Heading(day) = 1
             dayDown == Heading(day) = -1
             someUp == Headed(intraday, 1) >= 2
             someDown == Headed(intraday, -1) >= 2
  <2>5. /\ known < 2 => all = "unknown" /\ other = "unknown"
        /\ ~(known < 2) =>
             /\ up \/ down
             /\ all = IF ~down THEN "aligned up"
                      ELSE IF ~up THEN "aligned down"
                      ELSE IF dayDown /\ someUp THEN "short rebound"
                      ELSE IF dayUp /\ someDown THEN "short correction" ELSE "mixed"
             /\ other = IF ~up THEN "aligned up"
                        ELSE IF ~down THEN "aligned down"
                        ELSE IF dayUp /\ someDown THEN "short rebound"
                        ELSE IF dayDown /\ someUp THEN "short correction" ELSE "mixed"
        /\ ~(dayUp /\ dayDown)
    <3>1. ~(known < 2) => up \/ down
      BY <1>9
    <3>2. ~(dayUp /\ dayDown)
      OBVIOUS
    <3> HIDE DEF all, other
    <3>3. QED BY <2>1, <2>4, <3>1, <3>2, Zenon DEF all, other
  <2> HIDE DEF known, up, down, all, other, dayUp, dayDown, someUp, someDown
  <2>6. \/ all = "unknown" /\ other = "unknown"
        \/ all = "aligned up" /\ other = "aligned down"
        \/ all = "aligned down" /\ other = "aligned up"
        \/ all = "short rebound" /\ other = "short correction"
        \/ all = "short correction" /\ other = "short rebound"
        \/ all = "mixed" /\ other = "mixed"
    BY ONLY <2>5
  <2>7. QED BY <2>2, <2>6 DEF all, other
<1>11. Alignment(intraday, day) = "aligned up" => \A m \in DOMAIN intraday : Heading(intraday[m]) # -1
  BY AlignmentOfHeadings DEF Heads
<1>12. QED BY <1>10, <1>11 DEF AlignmentIsUnanimous, turned

(* Without book and tape a reading keeps the rest. *)
LEMMA WithoutFlowKeeps ==
  ASSUME NEW r \in Reading
  PROVE  /\ WithoutFlow(r) \in Reading
         /\ WithoutFlow(WithoutFlow(r)) = WithoutFlow(r)
         /\ HasPriceContext(WithoutFlow(r)) <=> HasPriceContext(r)
<1>1. WithoutFlow(r).ema = r.ema /\ WithoutFlow(r).vwap = r.vwap
  BY DEF WithoutFlow, Reading
<1>2. WithoutFlow(WithoutFlow(r)) = WithoutFlow(r)
  BY DEF WithoutFlow, Reading
<1>3. WithoutFlow(r) \in Reading
  BY DEF WithoutFlow, Reading
<1>4. QED BY <1>1, <1>2, <1>3 DEF HasPriceContext

(* Any reading has one of the headlines, and heads nowhere without a price *)
(* context.                                                                *)
LEMMA HeadlineOfReading ==
  ASSUME NEW r
  PROVE  /\ Headline(r) \in Headlines
         /\ Heading(Headline(r)) # 0 => HasPriceContext(r)
<1>1. Headline(r) \in Headlines
  BY DEF Headline, Headlines
<1>2. ~HasPriceContext(r) => Headline(r) = "none"
  BY DEF Headline
<1>3. QED BY <1>1, <1>2 DEF Heading

(* The headline of one timeframe depends on nothing else. *)
LEMMA HeadlineAlone ==
  ASSUME NEW data, NEW other, NEW n, NEW selected, other[n] = data[n]
  PROVE  HeadlineIn(other, n, selected) = HeadlineIn(data, n, selected)
BY DEF HeadlineIn

(* The timeframes beside the one shown know nothing of book and tape, and  *)
(* the failure of one leaves the others alone.                             *)
LEMMA TimeframesAreAlone ==
  ASSUME NEW data \in [Modes -> Timeframes], NEW selected \in Modes, NEW stale \in BOOLEAN
  PROVE  TimeframesStandAlone(data, selected, stale)
<1> DEFINE read == MarketReading(data, selected, stale)
           Changed(m, entry) == MarketReading([data EXCEPT ![m] = entry], selected, stale)
<1> SUFFICES ASSUME read # None PROVE TimeframesStandAlone(data, selected, stale)
  BY DEF TimeframesStandAlone
<1>0. /\ \A m \in Modes : data[m] \in Timeframe
      /\ DOMAIN data = Modes /\ MultiTimeframes \subseteq Modes
  <2>1. \A m \in Modes : data[m] \in Timeframe
    BY InputsAreTyped
  <2>2. QED BY <2>1 DEF Modes
<1>1. CASE stale
  <2>1. \A other : MarketReading(other, selected, stale) =
          [selected |-> "none", timeframes |-> [m \in MultiTimeframes |-> "none"], alignment |-> "unknown"]
    BY <1>1 DEF MarketReading
  <2>2. QED BY <2>1 DEF TimeframesStandAlone
<1>2. CASE ~stale
  <2> DEFINE lines(other) == [m \in MultiTimeframes |-> HeadlineIn(other, m, selected)]
             Read(other) ==
               [selected |-> HeadlineIn(other, selected, selected), timeframes |-> lines(other),
                alignment |-> Alignment([m \in MultiTimeframes \ {"1d"} |-> lines(other)[m]], lines(other)["1d"])]
  <2>1. \A other : MarketReading(other, selected, stale) =
                     IF other[selected].state = "raises" THEN None ELSE Read(other)
    BY <1>2 DEF MarketReading
  <2>2. data[selected].state # "raises" /\ read = Read(data)
    BY <2>1
  <2>3. ASSUME NEW m \in MultiTimeframes \ {selected}
        PROVE  Changed(m, [data[m] EXCEPT !.reading = WithoutFlow(@)]) = read
    <3> DEFINE other == [data EXCEPT ![m] = [data[m] EXCEPT !.reading = WithoutFlow(@)]]
    <3>1. other[selected] = data[selected]
      BY <1>0, <2>3
    <3>2. HeadlineIn(other, m, selected) = HeadlineIn(data, m, selected)
      <4>1. /\ other[m].state = data[m].state
            /\ other[m].reading = WithoutFlow(data[m].reading)
            /\ data[m].reading \in Reading
        BY <1>0, <2>3 DEF Timeframe
      <4>2. WithoutFlow(other[m].reading) = WithoutFlow(data[m].reading)
        BY <4>1, WithoutFlowKeeps
      <4> HIDE DEF other
      <4>3. QED BY <2>3, <4>1, <4>2 DEF HeadlineIn
    <3>3. \A n \in MultiTimeframes \cup {selected} : HeadlineIn(other, n, selected) = HeadlineIn(data, n, selected)
      <4>1. ASSUME NEW n \in MultiTimeframes \cup {selected}, n # m PROVE other[n] = data[n]
        BY <1>0, <2>3, <4>1
      <4> HIDE DEF other
      <4>2. QED BY <3>2, <4>1, HeadlineAlone
    <3> HIDE DEF other
    <3>4. lines(other) = lines(data)
      BY <3>3
    <3>5. Read(other) = Read(data)
      <4> HIDE DEF lines
      <4> QED BY <3>3, <3>4
    <3>6. QED BY <2>1, <2>2, <3>1, <3>5 DEF other
  <2>4. ASSUME NEW m \in MultiTimeframes \ {selected}, NEW n \in MultiTimeframes \ {m}
        PROVE  Changed(m, [data[m] EXCEPT !.state = "raises"]).timeframes[n] = read.timeframes[n]
    <3> DEFINE other == [data EXCEPT ![m] = [data[m] EXCEPT !.state = "raises"]]
    <3>1. other[selected] = data[selected] /\ other[n] = data[n]
      BY <1>0, <2>4
    <3> HIDE DEF other
    <3>2. MarketReading(other, selected, stale) = Read(other)
      BY <2>1, <2>2, <3>1
    <3>3. HeadlineIn(other, n, selected) = HeadlineIn(data, n, selected)
      BY <3>1, HeadlineAlone
    <3>4. Read(other).timeframes[n] = Read(data).timeframes[n]
      BY <3>3
    <3> HIDE DEF Read, read
    <3>5. MarketReading(other, selected, stale).timeframes[n] = read.timeframes[n]
      BY <2>2, <3>2, <3>4
    <3>6. QED BY <3>5 DEF other, read
  <2>5. ASSUME read.alignment # "unknown"
        PROVE  Cardinality({m \in MultiTimeframes : data[m].state = "valid"
                                                   /\ HasPriceContext(data[m].reading)}) >= 2
    <3> DEFINE intraday == [m \in MultiTimeframes \ {"1d"} |-> lines(data)[m]]
               day == lines(data)["1d"]
               K == {m \in DOMAIN intraday : Heading(intraday[m]) # 0}
               H == {m \in MultiTimeframes : Heading(lines(data)[m]) # 0}
               V == {m \in MultiTimeframes : data[m].state = "valid" /\ HasPriceContext(data[m].reading)}
    <3>1. \A m \in MultiTimeframes :
            /\ lines(data)[m] \in Headlines
            /\ Heading(lines(data)[m]) # 0 => data[m].state = "valid" /\ HasPriceContext(data[m].reading)
      <4>1. ASSUME NEW m \in MultiTimeframes
            PROVE  /\ HeadlineIn(data, m, selected) \in Headlines
                   /\ Heading(HeadlineIn(data, m, selected)) # 0 =>
                        data[m].state = "valid" /\ HasPriceContext(data[m].reading)
        <5>1. data[m].reading \in Reading
          BY <1>0 DEF Timeframe
        <5>2. Heading("none") = 0 /\ "none" \in Headlines
          BY DEF Heading, Headlines
        <5>3. QED BY <5>1, <5>2, HeadlineOfReading, WithoutFlowKeeps DEF HeadlineIn
      <4>2. QED BY <4>1
    <3> HIDE DEF lines
    <3>2. "1d" \in MultiTimeframes /\ day \in Headlines
          /\ intraday \in [MultiTimeframes \ {"1d"} -> Headlines]
      <4>1. "1d" \in MultiTimeframes
        BY DEF MultiTimeframes
      <4>2. QED BY <3>1, <4>1
    <3>3. KnownHeadings(intraday, day) \in Nat /\ ~(KnownHeadings(intraday, day) < 2)
      <4>1. Alignment(intraday, day) # "unknown"
        BY <2>2, <2>5
      <4> HIDE DEF intraday, day
      <4>2. QED BY <3>2, <4>1, AlignmentOfHeadings, KnownOfHeadings
    <3>4. KnownHeadings(intraday, day) = Cardinality(K) + IF Heading(day) # 0 THEN 1 ELSE 0
      BY DEF KnownHeadings
    <3>5. H \subseteq V /\ V \subseteq MultiTimeframes /\ K \subseteq MultiTimeframes \ {"1d"}
          /\ H = IF Heading(day) # 0 THEN K \cup {"1d"} ELSE K
      BY <3>1, <3>2
    <3> HIDE DEF intraday, day, K, H
    <3>6. IsFiniteSet(MultiTimeframes)
      <4>1. MultiTimeframes = ((({} \cup {"1m"}) \cup {"5m"}) \cup {"15m"}) \cup {"1d"}
        BY DEF MultiTimeframes
      <4>2. IsFiniteSet(((({} \cup {"1m"}) \cup {"5m"}) \cup {"15m"}) \cup {"1d"})
        BY FS_EmptySet, FS_AddElement
      <4>3. QED BY <4>1, <4>2, Zenon
    <3>7. IsFiniteSet(V) /\ IsFiniteSet(K) /\ IsFiniteSet(H) /\ Cardinality(K) \in Nat
      BY <3>5, <3>6, FS_Subset, FS_CardinalityType
    <3>8. Cardinality(H) = KnownHeadings(intraday, day)
      <4>1. CASE Heading(day) # 0
        <5>1. "1d" \notin K /\ H = K \cup {"1d"}
          BY <3>5, <4>1
        <5>2. Cardinality(K \cup {"1d"}) = Cardinality(K) + 1
          BY <3>7, <5>1, FS_AddElement
        <5>3. Cardinality(H) = Cardinality(K) + 1
          BY <5>1, <5>2, Zenon
        <5>4. QED BY <3>4, <4>1, <5>3
      <4>2. CASE Heading(day) = 0
        <5>1. Cardinality(H) = Cardinality(K)
          BY <3>5, <4>2, Zenon
        <5>2. QED BY <3>4, <3>7, <4>2, <5>1
      <4>3. QED BY <4>1, <4>2
    <3>9. Cardinality(H) <= Cardinality(V) /\ Cardinality(V) \in Nat
      BY <3>5, <3>7, FS_Subset, FS_CardinalityType
    <3>10. QED BY <3>3, <3>8, <3>9
  <2>6. selected \in MultiTimeframes => read.timeframes[selected] = read.selected
    BY <2>2
  <2> HIDE DEF lines, Read
  <2>7. QED BY <1>2, <2>3, <2>4, <2>5, <2>6 DEF TimeframesStandAlone
<1>3. QED BY <1>1, <1>2

-----------------------------------------------------------------------------
(* The volume of entries is a natural number. *)
LEMMA VolumeIsNat ==
  ASSUME NEW R, NEW entries \in Seq(R), \A i \in DOMAIN entries : entries[i].volume \in Nat
  PROVE  Volume(entries) \in Nat /\ IsFiniteSet(DOMAIN entries)
<1> DEFINE D == DOMAIN entries
           f == [i \in D |-> entries[i].volume]
<1>1. D = 1 .. Len(entries) /\ Len(entries) \in Nat
  OBVIOUS
<1>2. IsFiniteSet(D)
  BY <1>1, FS_Interval
<1>3. \A i \in D : f[i] \in Nat
  OBVIOUS
<1>4. Volume(entries) = SumFunctionOnSet(f, D)
  BY DEF Volume, SumFunction
<1> HIDE DEF f, D
<1>5. QED BY <1>2, <1>3, <1>4, SumNat DEF D

(* Two parts of a whole add up to 100 percent, or both are unknown. *)
LEMMA PartsAddUp ==
  ASSUME NEW a \in Nat, NEW b \in Nat
  PROVE  Complementary(Percent(a, a + b), Percent(b, b + a))
<1>1. CASE a + b > 0
  <2>1. Percent(a, a + b) = <<100 * a, a + b>> /\ Percent(b, b + a) = <<100 * b, b + a>>
    BY <1>1 DEF Percent
  <2>2. <<100 * a, a + b>> # None
    <3>1. <<100 * a, a + b>> \in Int \X Int
      OBVIOUS
    <3>2. QED BY <3>1, InputsAreTyped
  <2>3. (100 * a) * (b + a) + (100 * b) * (a + b) = 100 * (a + b) * (b + a)
    <3> DEFINE s == a + b
    <3>1. s \in Nat /\ b + a = s
      OBVIOUS
    <3>2. (100 * a) * s = 100 * (a * s) /\ (100 * b) * s = 100 * (b * s) /\ 100 * s * s = 100 * (s * s)
      OBVIOUS
    <3>3. s * s = s * a + s * b /\ s * a = a * s /\ s * b = b * s
      <4> HIDE DEF s
      <4>1. s * (a + b) = s * a + s * b /\ s * a = a * s /\ s * b = b * s
        BY <3>1, Distributed
      <4>2. QED BY <4>1 DEF s
    <3>4. a * s \in Int /\ b * s \in Int /\ s * s \in Int
      OBVIOUS
    <3> HIDE DEF s
    <3>5. QED BY <3>1, <3>2, <3>3, <3>4 DEF s
  <2>4. QED BY <2>1, <2>2, <2>3 DEF Complementary
<1>2. CASE ~(a + b > 0)
  BY <1>2 DEF Percent, Complementary
<1>3. QED BY <1>1, <1>2

(* The best levels of a side are entries of it, and have no better ones. *)
LEMMA BestLevels ==
  ASSUME NEW side \in Seq([volume : Nat]), NEW depth \in Nat
  PROVE  /\ Best(side, depth) \in Seq([volume : Nat])
         /\ Best(Best(side, depth), depth) = Best(side, depth)
<1> DEFINE k == Min({depth, Len(side)})
           best == SubSeq(side, 1, k)
<1>1. Len(side) \in Nat
  OBVIOUS
<1>2. k = IF depth <= Len(side) THEN depth ELSE Len(side)
  <2> DEFINE n == Len(side)
  <2>1. depth \in Int /\ n \in Int
    BY <1>1
  <2> HIDE DEF n
  <2>2. Min({depth, n}) = IF depth <= n THEN depth ELSE n
    BY <2>1, OfTwo
  <2>3. QED BY <2>2 DEF n
<1>3. k \in Nat /\ k <= Len(side) /\ k <= depth
  BY <1>1, <1>2
<1>4. Best(side, depth) = best
  BY DEF Best
<1> HIDE DEF k
<1>5. best \in Seq([volume : Nat]) /\ Len(best) = k
  <2>1. \A i \in 1 .. k : side[i] \in [volume : Nat]
    <3>1. ASSUME NEW i \in 1 .. k PROVE i \in 1 .. Len(side)
      BY <1>1, <1>3
    <3>2. QED BY <3>1, ElementOfSeq
  <2>2. 1 \in Int /\ k \in Int /\ (IF 1 <= k THEN k - 1 + 1 ELSE 0) = k
    BY <1>3
  <2>3. QED BY <2>1, <2>2, SubSeqProperties
<1>6. Min({depth, Len(best)}) = k
  <2>1. Min({depth, k}) = IF depth <= k THEN depth ELSE k
    <3>1. depth \in Int /\ k \in Int
      BY <1>3
    <3>2. QED BY <3>1, OfTwo
  <2>2. Min({depth, k}) = k
    BY <1>3, <2>1
  <2> HIDE DEF best
  <2>3. QED BY <1>5, <2>2, Zenon
<1>7. SubSeq(best, 1, k) = best
  BY <1>5, SubSeqFull
<1>8. Best(best, depth) = best
  <2> HIDE DEF best
  <2> QED BY <1>6, <1>7 DEF Best
<1>9. QED BY <1>4, <1>5, <1>8, Zenon

(* The sides of a book weigh alike, and levels below the depth say nothing.*)
LEMMA BookWeighsAlike ==
  ASSUME NEW book, book.bids \in Seq([volume : Nat]), book.asks \in Seq([volume : Nat]),
         NEW depth \in Nat
  PROVE  BookIsEven(book, depth)
<1> DEFINE b == Volume(Best(book.bids, depth))
           a == Volume(Best(book.asks, depth))
<1>1. ASSUME NEW side \in Seq([volume : Nat]) PROVE Volume(Best(side, depth)) \in Nat
  <2>1. Best(side, depth) \in Seq([volume : Nat])
    BY BestLevels
  <2>2. \A i \in DOMAIN Best(side, depth) : Best(side, depth)[i].volume \in Nat
    <3> DEFINE s == Best(side, depth)
    <3> HIDE DEF s
    <3>1. s \in Seq([volume : Nat])
      BY <2>1 DEF s
    <3>2. \A i \in DOMAIN s : s[i] \in [volume : Nat]
      BY <3>1, ElementOfSeq, LenProperties
    <3>3. QED BY <3>2 DEF s
  <2>3. QED BY <2>1, <2>2, VolumeIsNat
<1>2. a \in Nat /\ b \in Nat
  BY <1>1
<1>3. /\ Imbalance(book, depth) = Percent(b, b + a)
      /\ Imbalance([bids |-> book.asks, asks |-> book.bids], depth) = Percent(a, a + b)
  BY DEF Imbalance
<1>4. Imbalance([bids |-> Best(book.bids, depth), asks |-> Best(book.asks, depth)], depth) = Imbalance(book, depth)
  <2>1. Best(Best(book.bids, depth), depth) = Best(book.bids, depth) /\ Best(Best(book.asks, depth), depth) = Best(book.asks, depth)
    BY BestLevels
  <2>2. QED BY <2>1, Zenon DEF Imbalance
<1> HIDE DEF a, b
<1>5. Complementary(Percent(b, b + a), Percent(a, a + b))
  BY <1>2, PartsAddUp
<1>6. QED BY <1>3, <1>4, <1>5 DEF BookIsEven

(* A finite set of numbers has a greatest and a least one, and Max and Min *)
(* give them.                                                              *)
LEMMA Extremes ==
  ASSUME NEW S \in SUBSET Int, IsFiniteSet(S), S # {}
  PROVE  /\ Max(S) \in S /\ \A x \in S : x <= Max(S)
         /\ Min(S) \in S /\ \A x \in S : Min(S) <= x
<1> DEFINE Bounded(T) == /\ \E m \in T : \A x \in T : x <= m
                         /\ \E m \in T : \A x \in T : m <= x
           F == {T \in SUBSET S : T = {} \/ Bounded(T)}
<1>1. {} \in F
  OBVIOUS
<1>2. ASSUME NEW T \in SUBSET S, T # {}, \A x \in T : T \ {x} \in F
      PROVE  T \in F
  <2>1. PICK y \in T : TRUE
    BY <1>2
  <2>2. T \ {y} = {} \/ Bounded(T \ {y})
    BY <1>2
  <2>3. CASE T \ {y} = {}
    <3>1. \A x \in T : x = y
      BY <2>3
    <3>2. y \in Int
      OBVIOUS
    <3>3. QED BY <2>1, <3>1, <3>2
  <2>4. CASE Bounded(T \ {y})
    <3>1. PICK m \in T \ {y} : \A x \in T \ {y} : x <= m
      BY <2>4
    <3>2. PICK l \in T \ {y} : \A x \in T \ {y} : l <= x
      BY <2>4
    <3>3. T \subseteq Int /\ \A x \in T : x = y \/ x \in T \ {y}
      OBVIOUS
    <3>4. \E k \in T : \A x \in T : x <= k
      <4>1. CASE m <= y
        BY <3>1, <3>3, <4>1
      <4>2. CASE ~(m <= y)
        BY <3>1, <3>3, <4>2
      <4>3. QED BY <4>1, <4>2
    <3>5. \E k \in T : \A x \in T : k <= x
      <4>1. CASE l <= y
        BY <3>2, <3>3, <4>1
      <4>2. CASE ~(l <= y)
        BY <3>2, <3>3, <4>2
      <4>3. QED BY <4>1, <4>2
    <3>6. QED BY <3>4, <3>5
  <2>5. QED BY <2>2, <2>3, <2>4
<1> HIDE DEF F
<1>3. S \in F
  BY <1>1, <1>2, EverySubset
<1>4. Bounded(S)
  BY <1>3 DEF F
<1>5. /\ \E m \in S : \A x \in S : m >= x
      /\ \E m \in S : \A x \in S : m <= x
  BY <1>4
<1>6. /\ Max(S) \in S /\ \A x \in S : Max(S) >= x
      /\ Min(S) \in S /\ \A x \in S : Min(S) <= x
  BY <1>5 DEF Max, Min
<1>7. QED BY <1>6

(* The parts of g lie between l and h times those of f. *)
Ranged(l, h, f, g, S) ==
  \A x \in S : f[x] \in Int /\ g[x] \in Int /\ l * f[x] <= 1 * g[x] /\ 1 * g[x] <= h * f[x]

(* Then so do their sums. *)
LEMMA SumRanged ==
  ASSUME NEW f, NEW g, NEW S, IsFiniteSet(S), NEW l \in Int, NEW h \in Int, Ranged(l, h, f, g, S)
  PROVE  /\ SumFunctionOnSet(g, S) \in Int
         /\ l * SumFunctionOnSet(f, S) <= 1 * SumFunctionOnSet(g, S)
         /\ 1 * SumFunctionOnSet(g, S) <= h * SumFunctionOnSet(f, S)
<1> DEFINE one == 1
<1>1. /\ \A x \in S : f[x] \in Int /\ g[x] \in Int /\ l * f[x] <= one * g[x]
      /\ \A x \in S : g[x] \in Int /\ f[x] \in Int /\ one * g[x] <= h * f[x]
  BY DEF Ranged
<1>2. one \in Int /\ SumFunctionOnSet(g, S) \in Int
  BY <1>1, SumInt
<1> HIDE DEF one
<1>3. l * SumFunctionOnSet(f, S) <= one * SumFunctionOnSet(g, S)
  BY <1>1, <1>2, SumCompare
<1>4. one * SumFunctionOnSet(g, S) <= h * SumFunctionOnSet(f, S)
  BY <1>1, <1>2, SumCompare
<1>5. QED BY <1>2, <1>3, <1>4 DEF one

(* The last trades. *)
TapeTrade == [price : Amount, volume : Nat]

(* Turned round, what rose has fallen. *)
LEMMA TurnedTape ==
  ASSUME NEW trades \in Seq(TapeTrade)
  PROVE  LET turned == [i \in DOMAIN trades |-> [trades[i] EXCEPT !.price = -@]]
             rises == {i \in 1 .. Len(trades) - 1 : trades[i].price > trades[i + 1].price}
             falls == {i \in 1 .. Len(trades) - 1 : trades[i].price < trades[i + 1].price}
             f == [i \in DOMAIN trades |-> trades[i].volume]
         IN  /\ Pressure(trades) =
                  Percent(SumFunctionOnSet(f, rises), SumFunctionOnSet(f, rises) + SumFunctionOnSet(f, falls))
             /\ Pressure(turned) =
                  Percent(SumFunctionOnSet(f, falls), SumFunctionOnSet(f, falls) + SumFunctionOnSet(f, rises))
<1> DEFINE turned == [i \in DOMAIN trades |-> [trades[i] EXCEPT !.price = -@]]
           L == 1 .. Len(trades) - 1
           rises == {i \in L : trades[i].price > trades[i + 1].price}
           falls == {i \in L : trades[i].price < trades[i + 1].price}
           f == [i \in DOMAIN trades |-> trades[i].volume]
<1>1. /\ Len(trades) \in Nat /\ DOMAIN trades = 1 .. Len(trades)
      /\ \A i \in 1 .. Len(trades) : trades[i] \in TapeTrade
  BY LenProperties, ElementOfSeq
<1>2. /\ turned \in [1 .. Len(trades) -> [price : Int, volume : Nat]]
      /\ \A i \in 1 .. Len(trades) : turned[i].price = -trades[i].price /\ turned[i].volume = trades[i].volume
                                     /\ trades[i].price \in Int
  BY <1>1 DEF TapeTrade, Amount
<1>3. Len(turned) = Len(trades) /\ DOMAIN turned = DOMAIN trades
  BY <1>1, <1>2
<1>4. /\ {i \in 1 .. Len(turned) - 1 : turned[i].price > turned[i + 1].price} = falls
      /\ {i \in 1 .. Len(turned) - 1 : turned[i].price < turned[i + 1].price} = rises
  <2>1. ASSUME NEW i \in L
        PROVE  /\ turned[i].price > turned[i + 1].price <=> trades[i].price < trades[i + 1].price
               /\ turned[i].price < turned[i + 1].price <=> trades[i].price > trades[i + 1].price
    <3>1. i \in 1 .. Len(trades) /\ i + 1 \in 1 .. Len(trades)
      BY <1>1
    <3> HIDE DEF turned
    <3>2. /\ turned[i].price = -trades[i].price /\ trades[i].price \in Int
          /\ turned[i + 1].price = -trades[i + 1].price /\ trades[i + 1].price \in Int
      BY <1>2, <3>1
    <3>3. \A a, b \in Int : (-a > -b <=> a < b) /\ (-a < -b <=> a > b)
      OBVIOUS
    <3>4. QED BY ONLY <3>2, <3>3
  <2>2. 1 .. Len(turned) - 1 = L
    BY <1>3, Zenon
  <2> HIDE DEF turned, L
  <2>3. QED BY <2>1, <2>2
<1>5. [i \in DOMAIN turned |-> turned[i].volume] = f
  BY <1>1, <1>2, <1>3
<1> HIDE DEF turned
<1>6. /\ TradedWhere(turned, >) = SumFunctionOnSet(f, falls)
      /\ TradedWhere(turned, <) = SumFunctionOnSet(f, rises)
  BY <1>4, <1>5, Zenon DEF TradedWhere
<1>7. /\ TradedWhere(trades, >) = SumFunctionOnSet(f, rises)
      /\ TradedWhere(trades, <) = SumFunctionOnSet(f, falls)
  BY Zenon DEF TradedWhere
<1>8. QED BY <1>6, <1>7, Zenon DEF Pressure, turned

(* Rising and falling trades weigh alike, and the average price of the     *)
(* tape lies between prices that something was traded at.                  *)
LEMMA TapeWeighsAlike ==
  ASSUME NEW trades \in Seq(TapeTrade)
  PROVE  TapeIsEven(trades)
<1> DEFINE turned == [i \in DOMAIN trades |-> [trades[i] EXCEPT !.price = -@]]
           D == DOMAIN trades
           rises == {i \in 1 .. Len(trades) - 1 : trades[i].price > trades[i + 1].price}
           falls == {i \in 1 .. Len(trades) - 1 : trades[i].price < trades[i + 1].price}
           f == [i \in D |-> trades[i].volume]
           g == [i \in D |-> trades[i].price * trades[i].volume]
           traded == {t.price : t \in {s \in ToSet(trades) : s.volume > 0}}
<1>1. /\ Len(trades) \in Nat /\ D = 1 .. Len(trades)
      /\ \A i \in D : trades[i] \in TapeTrade
  BY LenProperties, ElementOfSeq
<1>2. IsFiniteSet(D) /\ \A i \in D : /\ f[i] = trades[i].volume /\ f[i] \in Nat
                                     /\ g[i] = trades[i].price * f[i] /\ trades[i].price \in Nat
  <2>1. IsFiniteSet(D)
    BY <1>1, FS_Interval
  <2>2. \A i \in D : trades[i].volume \in Nat /\ trades[i].price \in Nat
    BY <1>1 DEF TapeTrade, Amount
  <2>3. \A i \in D : f[i] = trades[i].volume /\ g[i] = trades[i].price * trades[i].volume
    OBVIOUS
  <2> HIDE DEF D, f, g
  <2>4. QED BY <2>1, <2>2, <2>3
<1>3. rises \subseteq D /\ falls \subseteq D
  BY <1>1
<1>4. Complementary(Pressure(trades), Pressure(turned))
  <2>1. SumFunctionOnSet(f, rises) \in Nat /\ SumFunctionOnSet(f, falls) \in Nat
    <3>1. IsFiniteSet(rises) /\ IsFiniteSet(falls)
      BY <1>2, <1>3, FS_Subset
    <3>2. (\A i \in rises : f[i] \in Nat) /\ (\A i \in falls : f[i] \in Nat)
      BY <1>2, <1>3
    <3> HIDE DEF f, rises, falls
    <3>3. QED BY <3>1, <3>2, SumNat
  <2> DEFINE a == SumFunctionOnSet(f, rises)
             b == SumFunctionOnSet(f, falls)
  <2>2. Pressure(trades) = Percent(a, a + b) /\ Pressure(turned) = Percent(b, b + a)
    BY TurnedTape
  <2> HIDE DEF a, b, turned
  <2>3. Complementary(Percent(a, a + b), Percent(b, b + a))
    BY <2>1, PartsAddUp DEF a, b
  <2>4. QED BY <2>2, <2>3, Zenon
<1>5. ASSUME RecentVwap(trades) # None
      PROVE  /\ Min(traded) * RecentVwap(trades)[2] <= RecentVwap(trades)[1]
             /\ RecentVwap(trades)[1] <= Max(traded) * RecentVwap(trades)[2]
  <2> DEFINE v == SumFunctionOnSet(f, D)
             p == SumFunctionOnSet(g, D)
  <2>1. Volume(trades) = v /\ RecentVwap(trades) = <<p, v>> /\ v # 0
    <3>1. Volume(trades) = v
      BY Zenon DEF Volume, SumFunction
    <3>2. SumFunction([i \in DOMAIN trades |-> trades[i].price * trades[i].volume]) = p
      BY Zenon DEF SumFunction
    <3> HIDE DEF v, p
    <3>3. QED BY <1>5, <3>1, <3>2 DEF RecentVwap
  <2>2. \A i \in D : f[i] > 0 => trades[i].price \in traded
    BY <1>1, <1>2 DEF ToSet
  <2>3. traded \in SUBSET Int /\ IsFiniteSet(traded)
    <3>1. traded \subseteq {trades[i].price : i \in D}
      BY DEF ToSet
    <3>2. IsFiniteSet({trades[i].price : i \in D})
      <4> DEFINE price == [i \in D |-> trades[i].price]
                 P == {trades[i].price : i \in D}
      <4>1. price \in Surjection(D, P)
        BY DEF Surjection
      <4>2. IsFiniteSet(D)
        BY <1>2
      <4> HIDE DEF price, P
      <4>3. IsFiniteSet(P)
        BY ONLY <4>1, <4>2, FS_Surjection
      <4>4. QED BY <4>3 DEF P
    <3>3. \A i \in D : trades[i].price \in Int
      BY <1>2
    <3> HIDE DEF traded
    <3>4. QED BY <3>1, <3>2, <3>3, FS_Subset
  <2> HIDE DEF f, g, traded, D
  <2>4. traded # {}
    <3> SUFFICES ASSUME traded = {} PROVE v = 0
      BY <2>1
    <3>1. \A i \in D : f[i] = 0
      BY <1>2, <2>2
    <3>2. \A i \in D : f[i] \in Int /\ f[i] = 0 * f[i]
      BY <3>1
    <3>3. v \in Int
      BY <1>2, <3>2, SumInt
    <3>4. v = 0 * v
      BY <1>2, <3>2, SumScaled
    <3>5. QED BY <3>3, <3>4
  <2> DEFINE l == Min(traded)
             h == Max(traded)
  <2>5. l \in Int /\ h \in Int /\ \A x \in traded : l <= x /\ x <= h
    BY <2>3, <2>4, Extremes
  <2>6. ASSUME NEW i \in D
        PROVE  f[i] \in Int /\ g[i] \in Int /\ l * f[i] <= 1 * g[i] /\ 1 * g[i] <= h * f[i]
    <3> DEFINE x == trades[i].price
               y == f[i]
    <3>1. x \in Nat /\ y \in Nat /\ g[i] = x * y
      BY <1>2
    <3>2. y > 0 => l <= x /\ x <= h
      BY <2>2, <2>5
    <3> HIDE DEF x, y, l, h
    <3>3. l * y <= x * y /\ x * y <= h * y
      <4>1. CASE y = 0
        BY <2>5, <3>1, <4>1
      <4>2. CASE y > 0
        BY <2>5, <3>1, <3>2, <4>2
      <4>3. QED BY <3>1, <4>1, <4>2
    <3>4. x * y \in Int
      BY <3>1
    <3>5. QED BY <3>1, <3>3, <3>4 DEF y
  <2> HIDE DEF l, h, v, p
  <2>7. l * v <= 1 * p /\ 1 * p <= h * v /\ p \in Int
    <3>1. Ranged(l, h, f, g, D)
      BY <2>6 DEF Ranged
    <3>2. QED BY <1>2, <2>5, <3>1, SumRanged DEF v, p
  <2>8. QED BY <2>1, <2>7 DEF l, h
<1>6. QED BY <1>4, <1>5 DEF TapeIsEven

-----------------------------------------------------------------------------
(* Induction over an interval, for a set of numbers. *)
LEMMA EveryNumber ==
  ASSUME NEW lo \in Int, NEW hi \in Int, NEW F, lo \in F,
         ASSUME NEW n \in lo .. hi - 1, n \in F PROVE n + 1 \in F
  PROVE  \A n \in lo .. hi : n \in F
<1> SUFFICES ASSUME NEW n \in lo .. hi, n \notin F PROVE FALSE
  OBVIOUS
<1> DEFINE S == {k \in Nat : lo + k \in (lo .. hi) \ F}
<1>1. S \in SUBSET Nat /\ S # {}
  <2>1. n - lo \in Nat /\ lo + (n - lo) = n
    OBVIOUS
  <2>2. n - lo \in S
    BY <2>1
  <2>3. QED BY <2>2
<1>2. PICK m \in S : \A k \in S : m <= k
  <2> HIDE DEF S
  <2> QED BY <1>1, LeastNumber
<1>3. m \in Nat /\ lo + m \in lo .. hi /\ lo + m \notin F
  OBVIOUS
<1>4. m # 0
  BY <1>3
<1>5. m - 1 \in Nat /\ lo + (m - 1) \in lo .. hi - 1 /\ (lo + (m - 1)) + 1 = lo + m
  BY <1>3, <1>4
<1>6. lo + (m - 1) \in F
  <2>1. m - 1 \notin S
    BY <1>2, <1>5
  <2>2. lo + (m - 1) \in lo .. hi
    BY <1>5
  <2>3. QED BY <1>5, <2>1, <2>2
<1>7. (lo + (m - 1)) + 1 \in F
  BY <1>5, <1>6
<1>8. QED BY <1>3, <1>5, <1>7

(* it holds a first value, and at each later number the value that a step  *)
(* makes of the one before.                                                *)
Iterates(lo, hi, first, step, it) ==
  it = [n \in lo .. hi |-> IF n = lo THEN first ELSE step[n][it[n - 1]]]

(* There is such a function, with values in the set that the steps keep.   *)
LEMMA IterationExists ==
  ASSUME NEW lo \in Int, NEW hi \in Int, lo <= hi, NEW X, NEW first \in X,
         NEW step \in [lo + 1 .. hi -> [X -> X]]
  PROVE  \E it \in [lo .. hi -> X] : Iterates(lo, hi, first, step, it)
<1> DEFINE F == {h \in lo .. hi : \E it \in [lo .. h -> X] : Iterates(lo, h, first, step, it)}
<1>1. lo \in F
  <2> DEFINE it == [n \in lo .. lo |-> first]
  <2>1. it \in [lo .. lo -> X]
    OBVIOUS
  <2>2. Iterates(lo, lo, first, step, it)
    <3>1. \A n \in lo .. lo : n = lo
      OBVIOUS
    <3>2. it = [n \in lo .. lo |-> IF n = lo THEN first ELSE step[n][it[n - 1]]]
      BY <3>1
    <3>3. QED BY <3>2 DEF Iterates
  <2> HIDE DEF it
  <2>3. QED BY <2>1, <2>2
<1>2. ASSUME NEW h \in lo .. hi - 1, h \in F PROVE h + 1 \in F
  <2>1. PICK it \in [lo .. h -> X] : Iterates(lo, h, first, step, it)
    BY <1>2
  <2>2. h + 1 \in lo + 1 .. hi /\ h + 1 \in lo .. hi /\ h + 1 # lo /\ h \in lo .. h /\ (h + 1) - 1 = h
    OBVIOUS
  <2> DEFINE new == [n \in lo .. h + 1 |-> IF n = h + 1 THEN step[h + 1][it[h]] ELSE it[n]]
  <2>3. \A n \in lo .. h + 1 : n = h + 1 \/ n \in lo .. h
    OBVIOUS
  <2>4. step[h + 1][it[h]] \in X
    BY <2>2
  <2>5. new \in [lo .. h + 1 -> X]
    BY <2>3, <2>4
  <2>6. ASSUME NEW n \in lo .. h + 1
        PROVE  new[n] = IF n = lo THEN first ELSE step[n][new[n - 1]]
    <3>1. CASE n = h + 1
      <4>1. n - 1 = h /\ n # lo /\ h # h + 1 /\ h \in lo .. h + 1
        BY <2>2, <3>1
      <4>2. new[h] = it[h] /\ new[n] = step[h + 1][it[h]]
        BY <3>1, <4>1
      <4> HIDE DEF new
      <4>3. QED BY <3>1, <4>1, <4>2
    <3>2. CASE n # h + 1
      <4>1. n \in lo .. h /\ new[n] = it[n]
        BY <2>3, <3>2
      <4>2. it[n] = IF n = lo THEN first ELSE step[n][it[n - 1]]
        BY <2>1, <4>1 DEF Iterates
      <4>3. n # lo => n - 1 \in lo .. h + 1 /\ n - 1 # h + 1
        BY <4>1
      <4>4. n # lo => new[n - 1] = it[n - 1]
        BY <4>3
      <4> HIDE DEF new
      <4>5. QED BY <4>1, <4>2, <4>4
    <3>3. QED BY <3>1, <3>2
  <2>7. Iterates(lo, h + 1, first, step, new)
    <3>1. new = [n \in lo .. h + 1 |-> new[n]]
      OBVIOUS
    <3> HIDE DEF new
    <3>2. QED BY <2>6, <3>1 DEF Iterates
  <2> HIDE DEF new
  <2>8. QED BY <2>2, <2>5, <2>7
<1>3. hi \in lo .. hi
  OBVIOUS
<1> HIDE DEF F
<1>4. \A n \in lo .. hi : n \in F
  BY <1>1, <1>2, EveryNumber
<1>5. QED BY <1>3, <1>4 DEF F

-----------------------------------------------------------------------------
(* Products keep an order. *)
LEMMA ProductOrder ==
  ASSUME NEW a \in Nat, NEW x \in Int, NEW y \in Int, x <= y
  PROVE  a * x <= a * y
<1>1. y - x \in Nat
  OBVIOUS
<1>2. a * (y - x) \in Nat
  BY <1>1
<1>3. a * y = a * x + a * (y - x)
  OBVIOUS
<1>4. a * x \in Int
  OBVIOUS
<1>5. QED BY <1>2, <1>3, <1>4

(* A weighted mean of two fractions is no less, and no greater, than both. *)
LEMMA WeightedMean ==
  ASSUME NEW b \in Int, NEW c \in Int, NEW e \in Int, NEW d \in Nat, NEW p \in Nat \ {0}
  PROVE  /\ b <= c /\ b * d <= e => b * ((p + 1) * d) <= 2 * c * d + (p - 1) * e
         /\ c <= b /\ e <= b * d => 2 * c * d + (p - 1) * e <= b * ((p + 1) * d)
<1>1. b * d \in Int /\ d * b = b * d /\ d * c = c * d /\ c * d \in Int
  OBVIOUS
<1>2. b * ((p + 1) * d) = 2 * (b * d) + (p - 1) * (b * d)
  OBVIOUS
<1>3. 2 * c * d = 2 * (c * d)
  OBVIOUS
<1>4. p - 1 \in Nat
  OBVIOUS
<1>5. (p - 1) * e \in Int /\ (p - 1) * (b * d) \in Int
  BY <1>1, <1>4
<1>6. ASSUME b <= c, b * d <= e PROVE b * ((p + 1) * d) <= 2 * c * d + (p - 1) * e
  <2>1. d * b <= d * c
    BY <1>6, ProductOrder
  <2>2. (p - 1) * (b * d) <= (p - 1) * e
    BY <1>1, <1>4, <1>6, ProductOrder
  <2>3. QED BY <1>1, <1>2, <1>3, <1>5, <2>1, <2>2
<1>7. ASSUME c <= b, e <= b * d PROVE 2 * c * d + (p - 1) * e <= b * ((p + 1) * d)
  <2>1. d * c <= d * b
    BY <1>7, ProductOrder
  <2>2. (p - 1) * e <= (p - 1) * (b * d)
    BY <1>1, <1>4, <1>7, ProductOrder
  <2>3. QED BY <1>1, <1>2, <1>3, <1>5, <2>1, <2>2
<1>8. QED BY <1>6, <1>7

(* A sum of ones counts them. *)
LEMMA SumOfOnes ==
  ASSUME NEW S, IsFiniteSet(S), NEW f, \A x \in S : f[x] = 1
  PROVE  SumFunctionOnSet(f, S) = Cardinality(S)
<1> DEFINE F == {T \in SUBSET S : SumFunctionOnSet(f, T) = Cardinality(T)}
<1>1. {} \in F
  BY SumEmpty, FS_EmptySet
<1>2. ASSUME NEW T \in SUBSET S, T # {}, \A x \in T : T \ {x} \in F
      PROVE  T \in F
  <2>1. PICK y \in T : TRUE
    BY <1>2
  <2>2. IsFiniteSet(T) /\ \A x \in T : f[x] \in Int
    BY FS_Subset
  <2>3. SumFunctionOnSet(f, T) = f[y] + SumFunctionOnSet(f, T \ {y})
    BY <2>2, SumAny
  <2>4. Cardinality(T \ {y}) = Cardinality(T) - 1 /\ Cardinality(T) \in Nat
    BY <2>2, FS_RemoveElement, FS_CardinalityType
  <2>5. SumFunctionOnSet(f, T \ {y}) = Cardinality(T \ {y}) /\ f[y] = 1
    BY <1>2
  <2>6. QED BY <2>3, <2>4, <2>5
<1> HIDE DEF F
<1>3. S \in F
  BY <1>1, <1>2, EverySubset
<1>4. QED BY <1>3 DEF F

(* Candles of a chart. *)
Charted == Seq(Candle("session"))

(* What a candle of a chart is. *)
LEMMA ChartTyped ==
  ASSUME NEW candles \in Charted
  PROVE  /\ Len(candles) \in Nat /\ DOMAIN candles = 1 .. Len(candles)
         /\ \A i \in 1 .. Len(candles) :
              LET c == candles[i]
              IN  /\ c.open \in Nat /\ c.close \in Nat /\ c.high \in Nat /\ c.low \in Nat \ {0}
                  /\ c.volume \in Nat /\ c.session \in Nat
                  /\ c.low <= c.open /\ c.open <= c.high /\ c.low <= c.close /\ c.close <= c.high
<1>1. Len(candles) \in Nat /\ DOMAIN candles = 1 .. Len(candles)
  BY DEF Charted
<1>2. ASSUME NEW c \in Candle("session")
      PROVE  /\ c.open \in Nat /\ c.close \in Nat /\ c.high \in Nat /\ c.low \in Nat \ {0}
             /\ c.volume \in Nat /\ c.session \in Nat
             /\ c.low <= c.open /\ c.open <= c.high /\ c.low <= c.close /\ c.close <= c.high
  <2>1. c \in [{"open", "close", "high", "low", "volume", "session"} -> Nat]
    BY DEF Candle
  <2>2. c.open \in Nat /\ c.close \in Nat /\ c.high \in Nat /\ c.low \in Nat /\ c.volume \in Nat
        /\ c.session \in Nat
    BY <2>1
  <2>3. c.low > 0 /\ c.open \in c.low .. c.high /\ c.close \in c.low .. c.high
    BY DEF Candle
  <2>4. QED BY <2>2, <2>3
<1>3. \A i \in 1 .. Len(candles) : candles[i] \in Candle("session")
  BY ElementOfSeq DEF Charted
<1>4. QED BY <1>1, <1>2, <1>3

(* The places of candles in the order of time. *)
LEMMA Chronology ==
  ASSUME NEW candles, Len(candles) \in Nat, NEW n \in 1 .. Len(candles)
  PROVE  /\ Position(candles, n) \in 1 .. Len(candles)
         /\ Chronological(candles)[n] = candles[Position(candles, n)]
         /\ Chronological(candles)[Position(candles, n)] = candles[n]
         /\ Position(candles, Position(candles, n)) = n
<1>1. Position(candles, n) \in 1 .. Len(candles) /\ Position(candles, Position(candles, n)) = n
  BY DEF Position
<1>2. \A m \in 1 .. Len(candles) : Chronological(candles)[m] = candles[Position(candles, m)]
  BY DEF Chronological, Reverse, Position
<1>3. QED BY <1>1, <1>2

(* The closes up to a candle, and the least and the greatest of them. *)
LEMMA ClosesUntil ==
  ASSUME NEW candles \in Charted, NEW i \in 1 .. Len(candles)
  PROVE  /\ IsFiniteSet(Closes(Until(candles, i)))
         /\ Closes(Until(candles, i)) = {candles[j].close : j \in i .. Len(candles)}
         /\ ToSet(Until(candles, i)) = {candles[j] : j \in i .. Len(candles)}
<1> DEFINE N == Len(candles)
           u == Until(candles, i)
<1>1. N \in Nat /\ i \in 1 .. N /\ \A j \in 1 .. N : candles[j] \in Candle("session")
  BY ElementOfSeq, LenProperties DEF Charted
<1>2. u = SubSeq(candles, i, N)
  BY DEF Until
<1>3. \A j \in i .. N : candles[j] \in Candle("session")
  BY <1>1
<1>4. /\ Len(u) = N - i + 1 /\ u \in Seq(Candle("session"))
      /\ \A j \in 1 .. N - i + 1 : u[j] = candles[i + j - 1]
  <2>1. i \in Int /\ N \in Int /\ i <= N
    BY <1>1
  <2> HIDE DEF N
  <2>2. QED BY <1>2, <1>3, <2>1, SubSeqProperties
<1>5. DOMAIN u = 1 .. N - i + 1
  <2> HIDE DEF u
  <2>1. DOMAIN u = 1 .. Len(u)
    BY <1>4, LenProperties
  <2>2. QED BY <1>4, <2>1
<1> HIDE DEF u
<1>6. ToSet(u) = {candles[j] : j \in i .. N}
  <2>1. ToSet(u) = {u[j] : j \in 1 .. N - i + 1}
    BY <1>5 DEF ToSet
  <2>2. ASSUME NEW j \in 1 .. N - i + 1 PROVE \E k \in i .. N : u[j] = candles[k]
    <3>1. i + j - 1 \in i .. N
      BY <1>1
    <3>2. QED BY <1>4, <3>1
  <2>3. ASSUME NEW k \in i .. N PROVE \E j \in 1 .. N - i + 1 : candles[k] = u[j]
    <3>1. k - i + 1 \in 1 .. N - i + 1 /\ i + (k - i + 1) - 1 = k
      BY <1>1
    <3>2. QED BY <1>4, <3>1
  <2> DEFINE A == {u[j] : j \in 1 .. N - i + 1}
             B == {candles[j] : j \in i .. N}
  <2>4. A \subseteq B
    BY <2>2
  <2>5. B \subseteq A
    BY <2>3
  <2>6. ToSet(u) = A
    BY <2>1
  <2> HIDE DEF A
  <2>7. QED BY <2>4, <2>5, <2>6
<1>7. Closes(u) = {candles[j].close : j \in i .. N}
  <2> HIDE DEF N
  <2> QED BY <1>6 DEF Closes
<1>8. IsFiniteSet({candles[j].close : j \in i .. N})
  <2> DEFINE f == [j \in i .. N |-> candles[j].close]
             R == {candles[j].close : j \in i .. N}
  <2>1. f \in Surjection(i .. N, R)
    <3>1. f \in [i .. N -> R] /\ \A c \in R : \E j \in i .. N : f[j] = c
      OBVIOUS
    <3> HIDE DEF f, R
    <3>2. QED BY <3>1 DEF Surjection
  <2>2. IsFiniteSet(i .. N)
    BY <1>1, FS_Interval
  <2>3. QED BY <2>1, <2>2, FS_Surjection
<1>9. QED BY <1>6, <1>7, <1>8, Zenon DEF u

(* it are the moving averages, from the first one on. *)
EmaSteps(candles, period, it) ==
  it = [n \in period .. Len(candles) |->
          IF n = period
          THEN <<SumFunction([m \in 1 .. period |-> Chronological(candles)[m].close]), period>>
          ELSE <<2 * Chronological(candles)[n].close * it[n - 1][2] + (period - 1) * it[n - 1][1],
                 (period + 1) * it[n - 1][2]>>]

(* The moving average of a candle. *)
LEMMA EmaOf ==
  ASSUME NEW candles, NEW period
  PROVE  Ema(candles, period) =
           [i \in DOMAIN candles |->
              IF Position(candles, i) < period THEN None
              ELSE (CHOOSE it : EmaSteps(candles, period, it))[Position(candles, i)]]
BY DEF Ema, EmaSteps

(* There are moving averages, for enough candles. *)
LEMMA EmaExists ==
  ASSUME NEW candles \in Charted, NEW period \in Nat \ {0}, period <= Len(candles)
  PROVE  EmaSteps(candles, period, CHOOSE it : EmaSteps(candles, period, it))
<1> DEFINE N == Len(candles)
           line == Chronological(candles)
           X == Int \X Int
           start == SumFunction([m \in 1 .. period |-> line[m].close])
           first == <<start, period>>
           step == [n \in period + 1 .. N |->
                      [x \in X |-> <<2 * line[n].close * x[2] + (period - 1) * x[1], (period + 1) * x[2]>>]]
<1>1. N \in Nat /\ period <= N /\ \A n \in 1 .. N : line[n].close \in Int
  <2>1. N \in Nat /\ \A n \in 1 .. N : candles[n].close \in Nat
    BY ChartTyped
  <2>2. \A n \in 1 .. N : Position(candles, n) \in 1 .. N /\ line[n] = candles[Position(candles, n)]
    BY <2>1, Chronology
  <2> HIDE DEF line
  <2>3. \A n \in 1 .. N : line[n].close \in Int
    BY <2>1, <2>2
  <2>4. QED BY <2>1, <2>3
<1>2. first \in X
  <2>1. \A m \in 1 .. period : line[m].close \in Int
    BY <1>1
  <2>2. start \in Int
    <3> DEFINE f == [m \in 1 .. period |-> line[m].close]
    <3>1. DOMAIN f = 1 .. period /\ \A m \in 1 .. period : f[m] \in Int
      BY <2>1
    <3>2. IsFiniteSet(1 .. period)
      BY FS_Interval
    <3> HIDE DEF f
    <3>3. SumFunction(f) \in Int
      BY <3>1, <3>2, SumInt DEF SumFunction
    <3>4. QED BY <3>3 DEF f
  <2> HIDE DEF start
  <2>3. QED BY <2>2
<1>3. step \in [period + 1 .. N -> [X -> X]]
  <2>1. ASSUME NEW n \in period + 1 .. N, NEW x \in X
        PROVE  <<2 * line[n].close * x[2] + (period - 1) * x[1], (period + 1) * x[2]>> \in X
    <3>1. line[n].close \in Int /\ x[1] \in Int /\ x[2] \in Int
      BY <1>1
    <3>2. \A a, b, c, p \in Int : 2 * c * b + (p - 1) * a \in Int /\ (p + 1) * b \in Int
      OBVIOUS
    <3>3. period \in Int
      OBVIOUS
    <3>4. QED BY ONLY <3>1, <3>2, <3>3
  <2>2. QED BY <2>1
<1> HIDE DEF first, step, line, N, X
<1>4. PICK it \in [period .. N -> X] : Iterates(period, N, first, step, it)
  <2>1. period \in Int /\ N \in Int /\ period <= N
    BY <1>1
  <2>2. QED BY ONLY <1>2, <1>3, <2>1, IterationExists
<1>5. EmaSteps(candles, period, it)
  <2>1. it = [n \in period .. N |-> IF n = period THEN first ELSE step[n][it[n - 1]]]
    BY <1>4 DEF Iterates
  <2>2. ASSUME NEW n \in period .. N, n # period
        PROVE  step[n][it[n - 1]] =
                 <<2 * line[n].close * it[n - 1][2] + (period - 1) * it[n - 1][1], (period + 1) * it[n - 1][2]>>
    <3>1. n \in period + 1 .. N /\ n - 1 \in period .. N
      BY <1>1, <2>2
    <3>2. it[n - 1] \in X
      BY <3>1
    <3>3. QED BY <3>1, <3>2 DEF step
  <2>3. it = [n \in period .. N |->
                IF n = period THEN first
                ELSE <<2 * line[n].close * it[n - 1][2] + (period - 1) * it[n - 1][1],
                       (period + 1) * it[n - 1][2]>>]
    BY <2>1, <2>2
  <2>4. QED BY <2>3 DEF EmaSteps, first, line, N
<1>6. QED BY <1>5

(* A moving average is a fraction between any bounds of its closes. *)
LEMMA EmaIsBetween ==
  ASSUME NEW candles \in Charted, NEW period \in Nat \ {0}, NEW at \in period .. Len(candles),
         NEW l \in Int, NEW h \in Int,
         \A n \in 1 .. at : l <= Chronological(candles)[n].close /\ Chronological(candles)[n].close <= h
  PROVE  LET it == CHOOSE it : EmaSteps(candles, period, it)
         IN  l * it[at][2] <= it[at][1] /\ it[at][1] <= h * it[at][2]
<1> DEFINE N == Len(candles)
           it == CHOOSE it : EmaSteps(candles, period, it)
           line == Chronological(candles)
           F == {n \in period .. at :
                   /\ it[n][1] \in Int /\ it[n][2] \in Nat
                   /\ l * it[n][2] <= it[n][1] /\ it[n][1] <= h * it[n][2]}
<1>1. /\ N \in Nat /\ period <= N /\ at \in Int
      /\ \A n \in 1 .. at : line[n].close \in Int /\ l <= line[n].close /\ line[n].close <= h
  <2>1. N \in Nat /\ \A n \in 1 .. N : candles[n].close \in Nat
    BY ChartTyped
  <2>2. \A n \in 1 .. N : Position(candles, n) \in 1 .. N /\ line[n] = candles[Position(candles, n)]
    BY <2>1, Chronology
  <2>3. \A n \in 1 .. N : line[n].close \in Int
    <3> HIDE DEF line
    <3> QED BY <2>1, <2>2
  <2>4. at \in 1 .. N /\ \A n \in 1 .. at : n \in 1 .. N
    BY <2>1
  <2>5. QED BY <2>1, <2>3, <2>4
<1>2. EmaSteps(candles, period, it)
  BY <1>1, EmaExists
<1> HIDE DEF it
<1>3. ASSUME NEW n \in period .. at
      PROVE  it[n] = IF n = period THEN <<SumFunction([m \in 1 .. period |-> line[m].close]), period>>
                     ELSE <<2 * line[n].close * it[n - 1][2] + (period - 1) * it[n - 1][1],
                            (period + 1) * it[n - 1][2]>>
  <2>1. n \in period .. N
    BY <1>1
  <2>2. QED BY <1>2, <2>1 DEF EmaSteps
<1> HIDE DEF line
<1>4. period \in F
  <2> DEFINE f == [m \in 1 .. period |-> line[m].close]
             ones == [m \in 1 .. period |-> 1]
             D == 1 .. period
  <2>1. period \in period .. at /\ DOMAIN f = D /\ IsFiniteSet(D) /\ \A m \in D : m \in 1 .. at
    BY <1>1, FS_Interval
  <2>2. Cardinality(D) = period
    BY FS_Interval
  <2>3. \A m \in D : ones[m] = 1 /\ f[m] = line[m].close
    OBVIOUS
  <2>4. \A m \in D : f[m] \in Int /\ l <= f[m] /\ f[m] <= h
    BY <1>1, <2>1, <2>3
  <2> HIDE DEF f, ones, D
  <2>5. SumFunctionOnSet(ones, D) = period
    BY <2>1, <2>2, <2>3, SumOfOnes
  <2>6. Ranged(l, h, ones, f, D)
    BY <2>3, <2>4 DEF Ranged
  <2>7. /\ SumFunctionOnSet(f, D) \in Int
        /\ l * SumFunctionOnSet(ones, D) <= 1 * SumFunctionOnSet(f, D)
        /\ 1 * SumFunctionOnSet(f, D) <= h * SumFunctionOnSet(ones, D)
    BY <2>1, <2>6, SumRanged
  <2>8. SumFunction(f) \in Int /\ l * period <= SumFunction(f) /\ SumFunction(f) <= h * period
    BY <2>1, <2>5, <2>7 DEF SumFunction
  <2>9. it[period] = <<SumFunction(f), period>>
    BY <1>3, <2>1 DEF f
  <2>10. QED BY <2>1, <2>8, <2>9
<1>5. ASSUME NEW n \in period .. at - 1, n \in F PROVE n + 1 \in F
  <2>1. n + 1 \in period .. at /\ n + 1 # period /\ (n + 1) - 1 = n /\ n + 1 \in 1 .. at
    BY <1>1
  <2> DEFINE c == line[n + 1].close
             e == it[n][1]
             d == it[n][2]
  <2>2. c \in Int /\ l <= c /\ c <= h
    BY <1>1, <2>1
  <2>3. e \in Int /\ d \in Nat /\ l * d <= e /\ e <= h * d
    BY <1>5
  <2>4. it[n + 1] = <<2 * c * d + (period - 1) * e, (period + 1) * d>>
    BY <1>3, <2>1
  <2> HIDE DEF c, e, d
  <2>5. /\ l * ((period + 1) * d) <= 2 * c * d + (period - 1) * e
        /\ 2 * c * d + (period - 1) * e <= h * ((period + 1) * d)
    BY <2>2, <2>3, WeightedMean
  <2>6. 2 * c * d + (period - 1) * e \in Int /\ (period + 1) * d \in Nat
    BY <2>2, <2>3
  <2>7. QED BY <2>1, <2>4, <2>5, <2>6
<1>6. at \in period .. at
  OBVIOUS
<1> HIDE DEF F
<1>7. \A n \in period .. at : n \in F
  <2>1. period \in Int /\ at \in Int
    BY <1>1
  <2>2. QED BY ONLY <1>4, <1>5, <2>1, EveryNumber
<1>8. at \in F
  BY <1>6, <1>7
<1>9. QED BY <1>8 DEF F, it

(* A moving average never leaves the closes it averages. *)
LEMMA EmaStays ==
  ASSUME NEW candles \in Charted, NEW period \in Nat \ {0}
  PROVE  EmaStaysInside(candles, period)
<1> SUFFICES ASSUME NEW i \in DOMAIN candles, Ema(candles, period)[i] # None
             PROVE  Between(Min(Closes(Until(candles, i))), Ema(candles, period)[i],
                            Max(Closes(Until(candles, i))))
  BY DEF EmaStaysInside
<1> DEFINE N == Len(candles)
           at == Position(candles, i)
           C == Closes(Until(candles, i))
           it == CHOOSE it : EmaSteps(candles, period, it)
<1>1. N \in Nat /\ i \in 1 .. N /\ \A j \in 1 .. N : candles[j].close \in Nat
  BY ChartTyped
<1>2. at \in 1 .. N /\ at = N - i + 1
  BY <1>1, Chronology DEF Position
<1>3. Ema(candles, period)[i] = IF at < period THEN None ELSE it[at]
  BY EmaOf
<1>4. at \in period .. N /\ Ema(candles, period)[i] = it[at]
  BY <1>2, <1>3
<1>5. IsFiniteSet(C) /\ C = {candles[j].close : j \in i .. N}
  BY <1>1, ClosesUntil
<1>6. C \in SUBSET Int /\ C # {}
  <2>1. i \in i .. N /\ \A j \in i .. N : j \in 1 .. N
    BY <1>1
  <2> HIDE DEF N
  <2>2. QED BY <1>1, <1>5, <2>1
<1> HIDE DEF C
<1>7. Min(C) \in Int /\ Max(C) \in Int /\ \A c \in C : Min(C) <= c /\ c <= Max(C)
  BY <1>5, <1>6, Extremes
<1>8. ASSUME NEW n \in 1 .. at PROVE Chronological(candles)[n].close \in C
  <2>1. n \in 1 .. N /\ Position(candles, n) \in i .. N
    BY <1>1, <1>2 DEF Position
  <2>2. Chronological(candles)[n] = candles[Position(candles, n)]
    BY <1>1, <2>1, Chronology
  <2>3. QED BY <1>5, <2>1, <2>2
<1> HIDE DEF it, at
<1>9. Min(C) * it[at][2] <= it[at][1] /\ it[at][1] <= Max(C) * it[at][2]
  BY <1>4, <1>7, <1>8, EmaIsBetween DEF it
<1>10. QED BY <1>4, <1>9 DEF Between, C

(* it are the sums of a session after every candle. *)
VwapSteps(candles, it) ==
  it = [n \in 0 .. Len(candles) |->
          IF n = 0 THEN [session |-> None, pv |-> 0, volume |-> 0]
          ELSE Summed(it[n - 1], Chronological(candles)[n])]

(* The VWAP of a candle. *)
LEMMA VwapOf ==
  ASSUME NEW candles
  PROVE  Vwap(candles) =
           [i \in DOMAIN candles |->
              LET s == (CHOOSE it : VwapSteps(candles, it))[Position(candles, i)]
              IN  IF s.volume > 0 THEN <<s.pv, 3 * s.volume>> ELSE None]
BY DEF Vwap, VwapSteps

(* Sums of a session. *)
Sums == [session : Nat \cup {None}, pv : Nat, volume : Nat]

(* One candle more keeps sums sums. *)
LEMMA SummedTyped ==
  ASSUME NEW s \in Sums, NEW c, c.high \in Nat, c.low \in Nat, c.close \in Nat, c.volume \in Nat,
         c.session \in Nat
  PROVE  Summed(s, c) \in Sums
<1> DEFINE kept == IF SameSession(s.session, c) THEN s ELSE [session |-> c.session, pv |-> 0, volume |-> 0]
<1>1. kept \in Sums
  BY DEF Sums
<1>2. kept.pv \in Nat /\ kept.volume \in Nat
  BY <1>1 DEF Sums
<1>3. (c.high + c.low + c.close) * c.volume \in Nat
  OBVIOUS
<1>4. Summed(s, c) = [session |-> c.session, pv |-> kept.pv + (c.high + c.low + c.close) * c.volume,
                      volume |-> kept.volume + c.volume]
  BY DEF Summed
<1> HIDE DEF kept
<1>5. QED BY <1>2, <1>3, <1>4 DEF Sums

(* There are sums of the sessions. *)
LEMMA VwapExists ==
  ASSUME NEW candles \in Charted
  PROVE  VwapSteps(candles, CHOOSE it : VwapSteps(candles, it))
<1> DEFINE N == Len(candles)
           line == Chronological(candles)
           first == [session |-> None, pv |-> 0, volume |-> 0]
           step == [n \in 0 + 1 .. N |-> [s \in Sums |-> Summed(s, line[n])]]
<1>1. /\ N \in Nat
      /\ \A n \in 1 .. N : /\ line[n].high \in Nat /\ line[n].low \in Nat /\ line[n].close \in Nat
                           /\ line[n].volume \in Nat /\ line[n].session \in Nat
  <2>1. N \in Nat /\ \A n \in 1 .. N : Position(candles, n) \in 1 .. N /\ line[n] = candles[Position(candles, n)]
    BY ChartTyped, Chronology
  <2> HIDE DEF line
  <2>2. QED BY <2>1, ChartTyped
<1>2. first \in Sums
  BY DEF Sums
<1>3. step \in [0 + 1 .. N -> [Sums -> Sums]]
  <2>1. ASSUME NEW n \in 0 + 1 .. N, NEW s \in Sums PROVE Summed(s, line[n]) \in Sums
    <3>1. n \in 1 .. N
      OBVIOUS
    <3> HIDE DEF line, N
    <3>2. QED BY <1>1, <3>1, SummedTyped
  <2> HIDE DEF line, N
  <2>2. QED BY <2>1
<1> HIDE DEF first, step, line, N
<1>4. PICK it \in [0 .. N -> Sums] : Iterates(0, N, first, step, it)
  <2>1. 0 \in Int /\ N \in Int /\ 0 <= N
    BY <1>1
  <2>2. QED BY ONLY <1>2, <1>3, <2>1, IterationExists
<1>5. VwapSteps(candles, it)
  <2>1. it = [n \in 0 .. N |-> IF n = 0 THEN first ELSE step[n][it[n - 1]]]
    BY <1>4 DEF Iterates
  <2>2. ASSUME NEW n \in 0 .. N, n # 0
        PROVE  step[n][it[n - 1]] = Summed(it[n - 1], line[n])
    <3>1. n \in 0 + 1 .. N /\ n - 1 \in 0 .. N
      BY <1>1, <2>2
    <3>2. it[n - 1] \in Sums
      BY <3>1
    <3>3. QED BY <3>1, <3>2 DEF step
  <2>3. it = [n \in 0 .. N |-> IF n = 0 THEN first ELSE Summed(it[n - 1], line[n])]
    BY <2>1, <2>2
  <2>4. QED BY <2>3 DEF VwapSteps, first, line, N
<1>6. QED BY <1>5

(* Prices above, or below, a bound keep a sum of traded amounts there. *)
LEMMA PricesAdded ==
  ASSUME NEW b \in Int, NEW t \in Int, NEW pv \in Int, NEW v \in Nat, NEW w \in Nat
  PROVE  /\ 3 * b <= t /\ b * (3 * v) <= pv => b * (3 * (v + w)) <= pv + t * w
         /\ t <= 3 * b /\ pv <= b * (3 * v) => pv + t * w <= b * (3 * (v + w))
<1>1. b * (3 * (v + w)) = b * (3 * v) + w * (3 * b) /\ t * w = w * t
  OBVIOUS
<1>2. b * (3 * v) \in Int /\ w * (3 * b) \in Int /\ w * t \in Int /\ 3 * b \in Int
  OBVIOUS
<1>3. ASSUME 3 * b <= t, b * (3 * v) <= pv PROVE b * (3 * (v + w)) <= pv + t * w
  <2>1. w * (3 * b) <= w * t
    BY <1>2, <1>3, ProductOrder
  <2>2. QED BY <1>1, <1>2, <1>3, <2>1
<1>4. ASSUME t <= 3 * b, pv <= b * (3 * v) PROVE pv + t * w <= b * (3 * (v + w))
  <2>1. w * t <= w * (3 * b)
    BY <1>2, <1>4, ProductOrder
  <2>2. QED BY <1>1, <1>2, <1>4, <2>1
<1>5. QED BY <1>3, <1>4

(* The sums of a session lie between any bounds of its prices. *)
LEMMA SumsAreBetween ==
  ASSUME NEW candles \in Charted, NEW at \in 1 .. Len(candles), NEW l \in Int, NEW h \in Int,
         \A n \in 1 .. at :
           Chronological(candles)[n].session = Chronological(candles)[at].session =>
             l <= Chronological(candles)[n].low /\ Chronological(candles)[n].high <= h
  PROVE  LET s == (CHOOSE it : VwapSteps(candles, it))[at]
         IN  s.volume \in Nat /\ l * (3 * s.volume) <= s.pv /\ s.pv <= h * (3 * s.volume)
<1> DEFINE N == Len(candles)
           it == CHOOSE it : VwapSteps(candles, it)
           line == Chronological(candles)
           own == line[at].session
           Inside(s) == l * (3 * s.volume) <= s.pv /\ s.pv <= h * (3 * s.volume)
           F == {n \in 0 .. at : it[n] \in Sums /\ (it[n].session = own => Inside(it[n]))}
<1>1. /\ N \in Nat /\ at \in 1 .. N /\ at \in Int
      /\ \A n \in 1 .. N : /\ line[n].high \in Nat /\ line[n].low \in Nat /\ line[n].close \in Nat
                           /\ line[n].volume \in Nat /\ line[n].session \in Nat
                           /\ line[n].low <= line[n].close /\ line[n].close <= line[n].high
      /\ \A n \in 1 .. at : line[n].session = own => l <= line[n].low /\ line[n].high <= h
  <2>1. N \in Nat /\ \A n \in 1 .. N : Position(candles, n) \in 1 .. N /\ line[n] = candles[Position(candles, n)]
    BY ChartTyped, Chronology
  <2>2. \A n \in 1 .. at : line[n].session = own => l <= line[n].low /\ line[n].high <= h
    OBVIOUS
  <2> HIDE DEF line, own
  <2>3. \A j \in 1 .. N : /\ candles[j].high \in Nat /\ candles[j].low \in Nat /\ candles[j].close \in Nat
                          /\ candles[j].volume \in Nat /\ candles[j].session \in Nat
                          /\ candles[j].low <= candles[j].close /\ candles[j].close <= candles[j].high
    BY ChartTyped
  <2>4. at \in Int
    BY <2>1
  <2>5. QED BY <2>1, <2>2, <2>3, <2>4
<1>2. VwapSteps(candles, it)
  BY VwapExists
<1> HIDE DEF it
<1>3. ASSUME NEW n \in 0 .. at
      PROVE  it[n] = IF n = 0 THEN [session |-> None, pv |-> 0, volume |-> 0]
                     ELSE Summed(it[n - 1], line[n])
  <2>1. n \in 0 .. N
    BY <1>1
  <2>2. QED BY <1>2, <2>1 DEF VwapSteps
<1> HIDE DEF line
<1>4. 0 \in F
  <2>1. 0 \in 0 .. at /\ own # None
    BY <1>1, InputsAreTyped
  <2>2. it[0] = [session |-> None, pv |-> 0, volume |-> 0]
    BY <1>3, <2>1
  <2>3. it[0] \in Sums /\ it[0].session # own
    BY <2>1, <2>2 DEF Sums
  <2>4. QED BY <2>1, <2>3
<1>5. ASSUME NEW n \in 0 .. at - 1, n \in F PROVE n + 1 \in F
  <2> DEFINE c == line[n + 1]
             s == it[n]
             kept == IF SameSession(s.session, c) THEN s
                     ELSE [session |-> c.session, pv |-> 0, volume |-> 0]
             t == c.high + c.low + c.close
  <2>1. n + 1 \in 0 .. at /\ n + 1 # 0 /\ (n + 1) - 1 = n /\ n + 1 \in 1 .. at /\ n + 1 \in 1 .. N
    BY <1>1
  <2>2. /\ c.high \in Nat /\ c.low \in Nat /\ c.close \in Nat /\ c.volume \in Nat /\ c.session \in Nat
        /\ c.low <= c.close /\ c.close <= c.high
        /\ c.session = own => l <= c.low /\ c.high <= h
    BY <1>1, <2>1
  <2>3. s \in Sums /\ (s.session = own => Inside(s))
    BY <1>5
  <2>4. it[n + 1] = Summed(s, c)
    BY <1>3, <2>1
  <2>5. Summed(s, c) = [session |-> c.session, pv |-> kept.pv + t * c.volume, volume |-> kept.volume + c.volume]
    BY DEF Summed
  <2> HIDE DEF c, s
  <2>6. it[n + 1] \in Sums
    BY <2>2, <2>3, <2>4, SummedTyped
  <2>7. ASSUME c.session = own
        PROVE  Inside(Summed(s, c))
    <3>1. 3 * l <= t /\ t <= 3 * h /\ t \in Int
      BY <2>2, <2>7
    <3>2. kept.pv \in Nat /\ kept.volume \in Nat /\ l * (3 * kept.volume) <= kept.pv
          /\ kept.pv <= h * (3 * kept.volume)
      <4>1. CASE SameSession(s.session, c)
        <5>1. kept = s /\ s.session = own
          BY <2>7, <4>1 DEF SameSession
        <5>2. QED BY <2>3, <5>1 DEF Sums
      <4>2. CASE ~SameSession(s.session, c)
        <5>1. kept.pv = 0 /\ kept.volume = 0
          BY <4>2
        <5>2. l * (3 * 0) = 0 /\ h * (3 * 0) = 0
          OBVIOUS
        <5> HIDE DEF kept
        <5>3. QED BY <5>1, <5>2
      <4>3. QED BY <4>1, <4>2
    <3> DEFINE pv == kept.pv
               v == kept.volume
               w == c.volume
    <3>3. pv \in Int /\ v \in Nat /\ w \in Nat /\ l * (3 * v) <= pv /\ pv <= h * (3 * v)
      BY <2>2, <3>2
    <3> HIDE DEF t, kept, pv, v, w
    <3>4. l * (3 * (v + w)) <= pv + t * w /\ pv + t * w <= h * (3 * (v + w))
      BY <3>1, <3>3, PricesAdded
    <3>5. /\ l * (3 * (kept.volume + c.volume)) <= kept.pv + t * c.volume
          /\ kept.pv + t * c.volume <= h * (3 * (kept.volume + c.volume))
      BY <3>4 DEF pv, v, w
    <3>6. /\ Summed(s, c).pv = kept.pv + t * c.volume
          /\ Summed(s, c).volume = kept.volume + c.volume
      BY <2>5
    <3>7. QED BY <3>5, <3>6
  <2>8. Summed(s, c).session = c.session
    BY <2>5
  <2> HIDE DEF kept, t, Inside
  <2>9. QED BY <2>1, <2>4, <2>6, <2>7, <2>8
<1> HIDE DEF F
<1>6. \A n \in 0 .. at : n \in F
  <2>1. 0 \in Int /\ at \in Int
    BY <1>1
  <2>2. QED BY ONLY <1>4, <1>5, <2>1, EveryNumber
<1>7. at \in F /\ at # 0 /\ at \in 0 .. at
  BY <1>1, <1>6
<1>8. it[at].session = own
  <2>1. it[at] = Summed(it[at - 1], line[at])
    BY <1>3, <1>7
  <2>2. QED BY <2>1 DEF Summed
<1>9. it[at].volume \in Nat /\ Inside(it[at])
  BY <1>7, <1>8 DEF F, Sums
<1>10. QED BY <1>9 DEF it

(* A VWAP never leaves the prices of its own session. *)
LEMMA VwapStays ==
  ASSUME NEW candles \in Charted
  PROVE  VwapStaysInSession(candles)
<1> SUFFICES ASSUME NEW i \in DOMAIN candles, Vwap(candles)[i] # None
             PROVE  LET ours == {c \in ToSet(Until(candles, i)) : c.session = candles[i].session}
                    IN  Between(Min({c.low : c \in ours}), Vwap(candles)[i], Max({c.high : c \in ours}))
  BY DEF VwapStaysInSession
<1> DEFINE N == Len(candles)
           at == Position(candles, i)
           ours == {c \in ToSet(Until(candles, i)) : c.session = candles[i].session}
           P == {j \in i .. N : candles[j].session = candles[i].session}
           L == {c.low : c \in ours}
           H == {c.high : c \in ours}
           s == (CHOOSE it : VwapSteps(candles, it))[at]
<1>1. /\ N \in Nat /\ i \in 1 .. N
      /\ \A j \in 1 .. N : candles[j].low \in Nat /\ candles[j].high \in Nat
  BY ChartTyped
<1>2. at \in 1 .. N /\ at = N - i + 1 /\ Chronological(candles)[at] = candles[i]
  BY <1>1, Chronology DEF Position
<1>3. ours = {candles[j] : j \in P}
  <2>1. ToSet(Until(candles, i)) = {candles[j] : j \in i .. N}
    BY <1>1, ClosesUntil
  <2> HIDE DEF N
  <2>2. QED BY <2>1
<1>4. i \in P /\ P \subseteq 1 .. N
  BY <1>1
<1>5. L = {candles[j].low : j \in P} /\ H = {candles[j].high : j \in P}
  <2> HIDE DEF P
  <2>1. QED BY <1>3
<1>6. IsFiniteSet(L) /\ IsFiniteSet(H)
  <2> DEFINE f == [j \in P |-> candles[j].low]
             g == [j \in P |-> candles[j].high]
  <2>1. IsFiniteSet(P)
    <3>1. IsFiniteSet(1 .. N)
      <4>1. 1 \in Int /\ N \in Int
        BY <1>1
      <4>2. QED BY ONLY <4>1, FS_Interval
    <3>2. QED BY <1>4, <3>1, FS_Subset
  <2>2. f \in Surjection(P, L) /\ g \in Surjection(P, H)
    <3> HIDE DEF P, L, H
    <3> QED BY <1>5 DEF Surjection
  <2> HIDE DEF f, g, P, L, H
  <2>3. QED BY ONLY <2>1, <2>2, FS_Surjection
<1>7. L \in SUBSET Int /\ H \in SUBSET Int /\ L # {} /\ H # {}
  <2> HIDE DEF P, L, H
  <2> QED BY <1>1, <1>4, <1>5
<1> HIDE DEF L, H
<1>8. /\ Min(L) \in Int /\ Max(H) \in Int
      /\ \A x \in L : Min(L) <= x
      /\ \A x \in H : x <= Max(H)
  BY <1>6, <1>7, Extremes
<1>9. ASSUME NEW n \in 1 .. at,
             Chronological(candles)[n].session = Chronological(candles)[at].session
      PROVE  Min(L) <= Chronological(candles)[n].low /\ Chronological(candles)[n].high <= Max(H)
  <2>1. n \in 1 .. N /\ Position(candles, n) \in i .. N
    BY <1>1, <1>2 DEF Position
  <2>2. Chronological(candles)[n] = candles[Position(candles, n)]
    BY <1>1, <2>1, Chronology
  <2>3. Position(candles, n) \in P
    BY <1>2, <1>9, <2>1, <2>2
  <2> HIDE DEF P
  <2>4. QED BY <1>5, <1>8, <2>2, <2>3
<1> HIDE DEF s, at
<1>10. s.volume \in Nat /\ Min(L) * (3 * s.volume) <= s.pv /\ s.pv <= Max(H) * (3 * s.volume)
  BY <1>2, <1>8, <1>9, SumsAreBetween DEF s
<1>11. Vwap(candles)[i] = IF s.volume > 0 THEN <<s.pv, 3 * s.volume>> ELSE None
  BY VwapOf DEF s, at
<1>12. Vwap(candles)[i] = <<s.pv, 3 * s.volume>>
  BY <1>11
<1>13. QED BY <1>10, <1>12 DEF Between, L, H

(* Gains and losses, smoothed by one more of each. *)
Gain(candles, n) == Max({Chronological(candles)[n + 1].close - Chronological(candles)[n].close, 0})
Loss(candles, n) == Max({Chronological(candles)[n].close - Chronological(candles)[n + 1].close, 0})

Smoothed(s, gain, loss, period) ==
  [gain |-> s.gain * (period - 1) + gain * s.scale * period,
   loss |-> s.loss * (period - 1) + loss * s.scale * period,
   scale |-> s.scale * period]

FirstStrength(candles, period) ==
  [gain |-> SumFunction([m \in 1 .. period |-> Gain(candles, m)]),
   loss |-> SumFunction([m \in 1 .. period |-> Loss(candles, m)]), scale |-> 1]

(* it are the strengths, from the first on. *)
RsiSteps(candles, period, it) ==
  it = [n \in period .. Len(candles) - 1 |->
          IF n = period THEN FirstStrength(candles, period)
          ELSE Smoothed(it[n - 1], Gain(candles, n), Loss(candles, n), period)]

(* The strengths are what the steps make of the first one.                 *)
LEMMA StrengthsOf ==
  ASSUME NEW candles, NEW period
  PROVE  Strengths(candles, period) = CHOOSE it : RsiSteps(candles, period, it)
BY DEF Strengths, RsiSteps, FirstStrength, Smoothed, Gain, Loss

Strength == [gain : Nat, loss : Nat, scale : Nat]

(* Smoothed strengths are natural numbers.                                 *)
LEMMA SmoothedTyped ==
  ASSUME NEW s \in Strength, NEW gain \in Nat, NEW loss \in Nat, NEW period \in Nat \ {0}
  PROVE  Smoothed(s, gain, loss, period) \in Strength
<1>1. s.gain \in Nat /\ s.loss \in Nat /\ s.scale \in Nat /\ period - 1 \in Nat /\ period \in Nat
  BY DEF Strength
<1>2. \A a, b, c, d, e \in Nat : a * b + c * d * e \in Nat /\ d * e \in Nat
  OBVIOUS
<1>3. /\ s.gain * (period - 1) + gain * s.scale * period \in Nat
      /\ s.loss * (period - 1) + loss * s.scale * period \in Nat
      /\ s.scale * period \in Nat
  BY ONLY gain \in Nat, loss \in Nat, <1>1, <1>2
<1>4. QED BY <1>3 DEF Smoothed, Strength

(* Gains and losses of a line are numbers, the first strength one of them. *)
LEMMA GainsTyped ==
  ASSUME NEW candles, NEW N \in Nat, NEW period \in Nat \ {0}, period <= N - 1,
         \A n \in 1 .. N : Chronological(candles)[n].close \in Int
  PROVE  /\ \A n \in 1 .. N - 1 : Gain(candles, n) \in Nat /\ Loss(candles, n) \in Nat
         /\ FirstStrength(candles, period) \in Strength
<1>1. ASSUME NEW n \in 1 .. N - 1 PROVE Gain(candles, n) \in Nat /\ Loss(candles, n) \in Nat
  <2> DEFINE a == Chronological(candles)[n].close
             b == Chronological(candles)[n + 1].close
  <2>1. n \in 1 .. N /\ n + 1 \in 1 .. N
    OBVIOUS
  <2>2. a \in Int /\ b \in Int
    BY <2>1
  <2>3. b - a \in Int /\ a - b \in Int
    BY <2>2
  <2>4. Max({b - a, 0}) \in Nat /\ Max({a - b, 0}) \in Nat
    <3> HIDE DEF a, b
    <3> DEFINE x == b - a
               y == a - b
    <3>1. x \in Int /\ y \in Int
      BY <2>3
    <3> HIDE DEF x, y
    <3>2. Max({x, 0}) \in Nat /\ Max({y, 0}) \in Nat
      BY <3>1, LargerOfZero
    <3>3. QED BY <3>2 DEF x, y
  <2>5. QED BY <2>4, Zenon DEF Gain, Loss
<1>2. FirstStrength(candles, period) \in Strength
  <2> DEFINE f == [m \in 1 .. period |-> Gain(candles, m)]
             g == [m \in 1 .. period |-> Loss(candles, m)]
             D == 1 .. period
  <2>1. DOMAIN f = D /\ DOMAIN g = D /\ IsFiniteSet(D)
    BY FS_Interval
  <2>2. \A m \in D : f[m] \in Nat /\ g[m] \in Nat
    BY <1>1
  <2> HIDE DEF f, g, D
  <2>3. SumFunction(f) \in Nat /\ SumFunction(g) \in Nat
    BY <2>1, <2>2, SumNat DEF SumFunction
  <2>4. FirstStrength(candles, period) = [gain |-> SumFunction(f), loss |-> SumFunction(g), scale |-> 1]
    BY DEF FirstStrength, f, g
  <2>5. QED BY <2>3, <2>4 DEF Strength
<1>3. QED BY <1>1, <1>2

(* There are strengths, for enough candles. *)
LEMMA StrengthsExist ==
  ASSUME NEW candles, Len(candles) \in Nat, NEW period \in Nat \ {0}, period <= Len(candles) - 1,
         \A n \in 1 .. Len(candles) : Chronological(candles)[n].close \in Int
  PROVE  LET it == Strengths(candles, period)
         IN  /\ RsiSteps(candles, period, it)
             /\ it \in [period .. Len(candles) - 1 -> Strength]
<1> DEFINE N == Len(candles)
           hi == N - 1
           first == FirstStrength(candles, period)
           step == [n \in period + 1 .. hi |->
                      [s \in Strength |-> Smoothed(s, Gain(candles, n), Loss(candles, n), period)]]
<1>1. N \in Nat /\ hi \in Int /\ period \in Int /\ period <= hi
  OBVIOUS
<1>2. first \in Strength /\ \A n \in 1 .. hi : Gain(candles, n) \in Nat /\ Loss(candles, n) \in Nat
  BY GainsTyped
<1>3. step \in [period + 1 .. hi -> [Strength -> Strength]]
  <2>1. ASSUME NEW n \in period + 1 .. hi, NEW s \in Strength
        PROVE  Smoothed(s, Gain(candles, n), Loss(candles, n), period) \in Strength
    <3>1. n \in 1 .. hi
      BY <1>1
    <3>2. QED BY <1>2, <3>1, SmoothedTyped
  <2> HIDE DEF hi
  <2>2. QED BY <2>1
<1> HIDE DEF first, step, hi, N
<1>4. PICK it \in [period .. hi -> Strength] : Iterates(period, hi, first, step, it)
  BY ONLY <1>1, <1>2, <1>3, IterationExists
<1>5. RsiSteps(candles, period, it)
  <2>1. it = [n \in period .. hi |-> IF n = period THEN first ELSE step[n][it[n - 1]]]
    BY <1>4 DEF Iterates
  <2>2. ASSUME NEW n \in period .. hi, n # period
        PROVE  step[n][it[n - 1]] = Smoothed(it[n - 1], Gain(candles, n), Loss(candles, n), period)
    <3>1. n \in period + 1 .. hi /\ n - 1 \in period .. hi
      BY <1>1, <2>2
    <3>2. it[n - 1] \in Strength
      BY <3>1
    <3>3. QED BY <3>1, <3>2 DEF step
  <2>3. it = [n \in period .. hi |->
                IF n = period THEN first
                ELSE Smoothed(it[n - 1], Gain(candles, n), Loss(candles, n), period)]
    BY <2>1, <2>2
  <2>4. QED BY <2>3 DEF RsiSteps, first, hi, N
<1> DEFINE jt == Strengths(candles, period)
<1>6. RsiSteps(candles, period, jt)
  BY <1>5, StrengthsOf
<1> HIDE DEF jt
<1>7. jt \in [period .. hi -> Strength]
  <2> DEFINE F == {n \in period .. hi : jt[n] \in Strength}
  <2>1. \A n \in period .. hi :
          jt[n] = IF n = period THEN first
                  ELSE Smoothed(jt[n - 1], Gain(candles, n), Loss(candles, n), period)
    BY <1>6 DEF RsiSteps, first, hi, N
  <2>2. period \in F
    BY <1>1, <1>2, <2>1
  <2>3. ASSUME NEW n \in period .. hi - 1, n \in F PROVE n + 1 \in F
    <3>1. n + 1 \in period .. hi /\ n + 1 # period /\ (n + 1) - 1 = n /\ n + 1 \in 1 .. hi
      BY <1>1
    <3>2. jt[n + 1] = Smoothed(jt[n], Gain(candles, n + 1), Loss(candles, n + 1), period)
      BY <2>1, <3>1
    <3>3. jt[n] \in Strength /\ Gain(candles, n + 1) \in Nat /\ Loss(candles, n + 1) \in Nat
      BY <1>2, <2>3, <3>1
    <3>4. jt[n + 1] \in Strength
      BY <3>2, <3>3, SmoothedTyped
    <3>5. QED BY <3>1, <3>4
  <2> HIDE DEF F
  <2>4. \A n \in period .. hi : n \in F
    BY ONLY <1>1, <2>2, <2>3, EveryNumber
  <2>5. jt = [n \in period .. hi |-> jt[n]]
    BY <1>6 DEF RsiSteps, hi, N
  <2>6. QED BY <2>4, <2>5 DEF F
<1>8. QED BY <1>6, <1>7 DEF jt, hi, N

(* The closes of a chart turned round. *)
LEMMA TurnedChart ==
  ASSUME NEW candles \in Charted
  PROVE  /\ Len(Turned(candles)) = Len(candles) /\ DOMAIN Turned(candles) = DOMAIN candles
         /\ \A n \in 1 .. Len(candles) :
              /\ Chronological(candles)[n].close \in Int
              /\ Chronological(Turned(candles))[n].close = -Chronological(candles)[n].close
<1> DEFINE N == Len(candles)
           turned == Turned(candles)
<1>1. /\ N \in Nat /\ DOMAIN candles = 1 .. N
      /\ \A i \in 1 .. N : candles[i] \in [{"open", "close", "high", "low", "volume", "session"} -> Nat]
  BY LenProperties, ElementOfSeq DEF Charted, Candle
<1>2. /\ turned = [i \in 1 .. N |-> [candles[i] EXCEPT !.close = -@]]
      /\ \A i \in 1 .. N : turned[i].close = -candles[i].close /\ candles[i].close \in Int
  <2>1. turned = [i \in 1 .. N |-> [candles[i] EXCEPT !.close = -@]]
    BY <1>1 DEF Turned
  <2>2. ASSUME NEW i \in 1 .. N PROVE turned[i].close = -candles[i].close /\ candles[i].close \in Int
    <3>1. candles[i] \in [{"open", "close", "high", "low", "volume", "session"} -> Nat]
      BY <1>1
    <3>2. turned[i] = [candles[i] EXCEPT !.close = -@]
      BY <2>1
    <3>3. QED BY <3>1, <3>2
  <2>3. QED BY <2>1, <2>2
<1>3. Len(turned) = N /\ DOMAIN turned = 1 .. N
  BY <1>1, <1>2
<1> HIDE DEF turned
<1>4. ASSUME NEW n \in 1 .. N
      PROVE  /\ Chronological(candles)[n].close \in Int
             /\ Chronological(turned)[n].close = -Chronological(candles)[n].close
  <2> DEFINE p == N - n + 1
  <2>1. p \in 1 .. N
    BY <1>1
  <2>2. Position(candles, n) = p /\ Position(turned, n) = p
    BY <1>3 DEF Position
  <2>3. Chronological(candles)[n] = candles[p]
    BY <1>1, <2>2, Chronology
  <2>4. Chronological(turned)[n] = turned[p]
    <3>1. Len(turned) \in Nat /\ n \in 1 .. Len(turned)
      BY <1>1, <1>3
    <3>2. QED BY <2>2, <3>1, Chronology
  <2> HIDE DEF p
  <2>5. QED BY <1>2, <2>1, <2>3, <2>4
<1>5. QED BY <1>1, <1>3, <1>4 DEF turned

(* Turned round, gains are losses. *)
LEMMA TurnedGains ==
  ASSUME NEW candles \in Charted, NEW n \in 1 .. Len(candles) - 1
  PROVE  /\ Gain(Turned(candles), n) = Loss(candles, n)
         /\ Loss(Turned(candles), n) = Gain(candles, n)
<1> DEFINE a == Chronological(candles)[n].close
           b == Chronological(candles)[n + 1].close
           c == Chronological(Turned(candles))[n].close
           d == Chronological(Turned(candles))[n + 1].close
<1>1. n \in 1 .. Len(candles) /\ n + 1 \in 1 .. Len(candles)
  BY ChartTyped
<1>2. a \in Int /\ b \in Int /\ c = -a /\ d = -b
  BY <1>1, TurnedChart
<1> HIDE DEF a, b, c, d
<1>3. d - c = a - b /\ c - d = b - a
  BY <1>2
<1>4. Max({d - c, 0}) = Max({a - b, 0}) /\ Max({c - d, 0}) = Max({b - a, 0})
  BY <1>3, Zenon
<1>5. QED BY <1>4, Zenon DEF Gain, Loss, a, b, c, d

(* Turned round, strength is weakness. *)
LEMMA TurnedStrengths ==
  ASSUME NEW candles \in Charted, NEW period \in Nat \ {0}, NEW at \in period .. Len(candles) - 1
  PROVE  LET s == Strengths(candles, period)[at]
             t == Strengths(Turned(candles), period)[at]
         IN  s.gain \in Nat /\ s.loss \in Nat /\ t.gain = s.loss /\ t.loss = s.gain
<1> DEFINE N == Len(candles)
           turned == Turned(candles)
           it == Strengths(candles, period)
           jt == Strengths(turned, period)
           Swapped(s, t) == t.gain = s.loss /\ t.loss = s.gain /\ t.scale = s.scale
           F == {n \in period .. at : it[n] \in Strength /\ Swapped(it[n], jt[n])}
<1>1. N \in Nat /\ period <= N - 1 /\ at \in Int /\ at <= N - 1
  BY ChartTyped
<1>2. /\ Len(turned) = N
      /\ \A n \in 1 .. N : Chronological(candles)[n].close \in Int /\ Chronological(turned)[n].close \in Int
  BY TurnedChart
<1>3. \A n \in 1 .. N - 1 : Gain(turned, n) = Loss(candles, n) /\ Loss(turned, n) = Gain(candles, n)
  BY TurnedGains
<1> HIDE DEF turned
<1>4. RsiSteps(candles, period, it) /\ it \in [period .. N - 1 -> Strength]
  BY <1>1, <1>2, StrengthsExist
<1>5. RsiSteps(turned, period, jt)
  <2>1. Len(turned) \in Nat /\ period <= Len(turned) - 1
        /\ \A n \in 1 .. Len(turned) : Chronological(turned)[n].close \in Int
    BY <1>1, <1>2
  <2>2. QED BY <2>1, StrengthsExist
<1> HIDE DEF it, jt
<1>6. \A n \in period .. at :
        /\ it[n] = IF n = period THEN FirstStrength(candles, period)
                   ELSE Smoothed(it[n - 1], Gain(candles, n), Loss(candles, n), period)
        /\ jt[n] = IF n = period THEN FirstStrength(turned, period)
                   ELSE Smoothed(jt[n - 1], Gain(turned, n), Loss(turned, n), period)
        /\ it[n] \in Strength
  <2>1. \A n \in period .. at : n \in period .. N - 1
    BY <1>1
  <2>2. QED BY <1>2, <1>4, <1>5, <2>1 DEF RsiSteps
<1>7. period \in F
  <2>1. period \in period .. at
    BY <1>1
  <2>2. it[period] = FirstStrength(candles, period) /\ jt[period] = FirstStrength(turned, period)
    BY <1>6, <2>1
  <2>3. Swapped(FirstStrength(candles, period), FirstStrength(turned, period))
    <3>1. /\ [m \in 1 .. period |-> Gain(turned, m)] = [m \in 1 .. period |-> Loss(candles, m)]
          /\ [m \in 1 .. period |-> Loss(turned, m)] = [m \in 1 .. period |-> Gain(candles, m)]
      <4>1. \A m \in 1 .. period : m \in 1 .. N - 1
        BY <1>1
      <4>2. QED BY <1>3, <4>1
    <3>2. QED BY <3>1, Zenon DEF FirstStrength
  <2> HIDE DEF Swapped
  <2>4. Swapped(it[period], jt[period])
    BY <2>2, <2>3
  <2>5. QED BY <1>6, <2>1, <2>4
<1>8. ASSUME NEW n \in period .. at - 1, n \in F PROVE n + 1 \in F
  <2>1. n + 1 \in period .. at /\ n + 1 # period /\ (n + 1) - 1 = n /\ n + 1 \in 1 .. N - 1
    BY <1>1
  <2> DEFINE g == Gain(candles, n + 1)
             l == Loss(candles, n + 1)
  <2>2. it[n + 1] = Smoothed(it[n], g, l, period) /\ it[n + 1] \in Strength
    BY <1>6, <2>1
  <2>3. jt[n + 1] = Smoothed(jt[n], l, g, period)
    <3>1. jt[n + 1] = Smoothed(jt[n], Gain(turned, n + 1), Loss(turned, n + 1), period)
      BY <1>6, <2>1
    <3>2. QED BY <1>3, <2>1, <3>1, Zenon
  <2> HIDE DEF g, l
  <2>4. Swapped(it[n], jt[n])
    BY <1>8
  <2>5. Swapped(it[n + 1], jt[n + 1])
    <3> DEFINE x == it[n]
               y == jt[n]
    <3>1. /\ it[n + 1].gain = x.gain * (period - 1) + g * x.scale * period
          /\ it[n + 1].loss = x.loss * (period - 1) + l * x.scale * period
          /\ it[n + 1].scale = x.scale * period
      BY <2>2 DEF Smoothed
    <3>2. /\ jt[n + 1].gain = y.gain * (period - 1) + l * y.scale * period
          /\ jt[n + 1].loss = y.loss * (period - 1) + g * y.scale * period
          /\ jt[n + 1].scale = y.scale * period
      BY <2>3 DEF Smoothed
    <3>3. y.gain = x.loss /\ y.loss = x.gain /\ y.scale = x.scale
      BY <2>4
    <3> HIDE DEF x, y
    <3>4. QED BY <3>1, <3>2, <3>3, Zenon
  <2>6. QED BY <2>1, <2>2, <2>5
<1> HIDE DEF F
<1>9. \A n \in period .. at : n \in F
  <2>1. period \in Int /\ at \in Int
    BY <1>1
  <2>2. QED BY ONLY <1>7, <1>8, <2>1, EveryNumber
<1>10. at \in period .. at
  BY <1>1
<1>11. it[at] \in Strength /\ Swapped(it[at], jt[at])
  BY <1>9, <1>10 DEF F
<1>12. QED BY <1>11 DEF Strength, it, jt, turned

(* Strength and weakness are measured alike. *)
LEMMA RsiMirrored ==
  ASSUME NEW candles \in Charted, NEW period \in Nat \ {0}
  PROVE  RsiIsMirrored(candles, period)
<1> SUFFICES ASSUME NEW i \in DOMAIN candles
             PROVE  LET up == Rsi(candles, period)[i]
                        down == Rsi(Turned(candles), period)[i]
                    IN  IF up = None THEN down = None
                        ELSE Between(0, up, 100)
                             /\ up[1] * down[2] + down[1] * up[2] = 100 * up[2] * down[2]
  BY DEF RsiIsMirrored
<1> DEFINE N == Len(candles)
           n == Position(candles, i) - 1
           s == Strengths(candles, period)[n]
           t == Strengths(Turned(candles), period)[n]
           up == Rsi(candles, period)[i]
           down == Rsi(Turned(candles), period)[i]
<1>1. N \in Nat /\ i \in 1 .. N /\ n = N - i /\ n \in Int /\ n <= N - 1
  BY ChartTyped DEF Position
<1>2. Position(Turned(candles), i) - 1 = n /\ i \in DOMAIN Turned(candles)
  BY TurnedChart DEF Position
<1> HIDE DEF n
<1>3. up = IF n < period THEN None ELSE RsiValue(s.gain, s.loss)
  BY DEF Rsi, n
<1>4. down = IF n < period THEN None ELSE RsiValue(t.gain, t.loss)
  <2>1. down = IF Position(Turned(candles), i) - 1 < period THEN None
               ELSE RsiValue(Strengths(Turned(candles), period)[Position(Turned(candles), i) - 1].gain,
                             Strengths(Turned(candles), period)[Position(Turned(candles), i) - 1].loss)
    BY <1>2, Zenon DEF Rsi
  <2>2. QED BY <1>2, <2>1, Zenon
<1>5. CASE n < period
  BY <1>3, <1>4, <1>5
<1>6. CASE ~(n < period)
  <2> DEFINE g == s.gain
             l == s.loss
  <2>1. n \in period .. N - 1
    BY <1>1, <1>6
  <2>2. g \in Nat /\ l \in Nat /\ t.gain = l /\ t.loss = g
    BY <2>1, TurnedStrengths
  <2>3. up = RsiValue(g, l) /\ down = RsiValue(l, g)
    BY <1>3, <1>4, <1>6, <2>2
  <2> HIDE DEF g, l, up, down
  <2>4. CASE g = 0 /\ l = 0
    <3>1. up = <<50, 1>> /\ down = <<50, 1>>
      BY <2>3, <2>4 DEF RsiValue
    <3>2. up # None
      BY <3>1, InputsAreTyped
    <3>3. QED BY <3>1, <3>2 DEF Between, up, down
  <2>5. CASE g > 0 \/ l > 0
    <3>1. up = <<100 * g, g + l>> /\ down = <<100 * l, l + g>>
      BY <2>2, <2>3, <2>5 DEF RsiValue
    <3>2. up # None
      <4>1. 100 * g \in Int /\ g + l \in Int
        BY <2>2
      <4>2. QED BY <3>1, <4>1, InputsAreTyped
    <3>3. /\ 0 * (g + l) <= 100 * g /\ 100 * g <= 100 * (g + l)
          /\ (100 * g) * (l + g) + (100 * l) * (g + l) = 100 * (g + l) * (l + g)
      BY <2>2
    <3>4. QED BY <3>1, <3>2, <3>3 DEF Between, up, down
  <2>6. QED BY <2>2, <2>4, <2>5
<1>7. QED BY <1>5, <1>6

(* v is on the k-th rank: not k places hold less, and k hold no more. *)
OnRank(f, P, k, v) ==
  /\ Cardinality({i \in P : f[i] < v}) < k
  /\ Cardinality({i \in P : f[i] <= v}) >= k

(* One of the numbers that some places hold is on the k-th rank. *)
LEMMA RankExists ==
  ASSUME NEW P, IsFiniteSet(P), NEW f \in [P -> Int], NEW k \in Nat, 0 < k, k <= Cardinality(P)
  PROVE  \E v \in {f[i] : i \in P} : OnRank(f, P, k, v)
<1> DEFINE V == {f[i] : i \in P}
           Upto(v) == {i \in P : f[i] <= v}
           Under(v) == {i \in P : f[i] < v}
           W == {v \in V : Cardinality(Upto(v)) >= k}
<1>1. /\ Cardinality(P) \in Nat /\ P # {}
      /\ \A v : /\ Upto(v) \in SUBSET P /\ IsFiniteSet(Upto(v)) /\ Cardinality(Upto(v)) \in Nat
                /\ Under(v) \in SUBSET P /\ IsFiniteSet(Under(v)) /\ Cardinality(Under(v)) \in Nat
  BY FS_CardinalityType, FS_Subset, FS_EmptySet
<1>2. V \in SUBSET Int /\ V # {}
  BY <1>1
<1>3. IsFiniteSet(V)
  <2>1. f \in Surjection(P, V)
    BY DEF Surjection
  <2> HIDE DEF V
  <2>2. QED BY ONLY IsFiniteSet(P), <2>1, FS_Surjection
<1>4. Max(V) \in V /\ \A x \in V : x <= Max(V)
  <2> HIDE DEF V
  <2> QED BY <1>2, <1>3, Extremes
<1>5. Max(V) \in W
  <2>1. Upto(Max(V)) = P
    BY <1>4
  <2>2. QED BY <1>4, <2>1
<1>6. W \in SUBSET Int /\ W # {} /\ IsFiniteSet(W)
  <2>1. W \in SUBSET V
    OBVIOUS
  <2> HIDE DEF W, V
  <2>2. QED BY <1>2, <1>3, <1>5, <2>1, FS_Subset
<1> DEFINE m == Min(W)
<1>7. m \in W /\ \A x \in W : m <= x
  <2> HIDE DEF W
  <2> QED BY <1>6, Extremes
<1> HIDE DEF m
<1>8. m \in V /\ m \in Int /\ Cardinality(Upto(m)) >= k
  BY <1>2, <1>7
<1>9. Cardinality(Under(m)) < k
  <2> DEFINE U == {f[i] : i \in Under(m)}
  <2>1. CASE Under(m) = {}
    <3>1. Cardinality(Under(m)) = 0
      BY <2>1, FS_EmptySet
    <3>2. QED BY <3>1
  <2>2. CASE Under(m) # {}
    <3>1. U \in SUBSET V /\ U # {}
      BY <2>2
    <3>2. U \in SUBSET Int /\ IsFiniteSet(U)
      <4> HIDE DEF U, V
      <4> QED BY <1>2, <1>3, <3>1, FS_Subset
    <3>3. Max(U) \in U /\ \A x \in U : x <= Max(U)
      <4> HIDE DEF U
      <4> QED BY <3>1, <3>2, Extremes
    <3> DEFINE u == Max(U)
    <3> HIDE DEF u
    <3>4. u \in U /\ \A x \in U : x <= u
      BY <3>3 DEF u
    <3>5. u \in V /\ u \in Int /\ u < m
      BY <1>2, <1>8, <3>1, <3>4
    <3>6. u \notin W
      BY <1>7, <1>8, <3>5
    <3>7. Upto(u) = Under(m)
      <4>1. \A i \in P : f[i] <= u => f[i] < m
        BY <1>8, <3>5
      <4>2. \A i \in P : f[i] < m => f[i] <= u
        BY <3>4
      <4>3. QED BY <4>1, <4>2
    <3>8. ~(Cardinality(Upto(u)) >= k)
      BY <3>5, <3>6
    <3> HIDE DEF Upto, Under
    <3>9. QED BY <1>1, <3>7, <3>8
  <2>3. QED BY <2>1, <2>2
<1>10. QED BY <1>8, <1>9 DEF OnRank

(* The volume on a rank is one of the volumes. *)
LEMMA RankedIsOne ==
  ASSUME NEW candles \in Charted, NEW P \in SUBSET (1 .. Len(candles)), NEW k \in Nat,
         0 < k, k <= Cardinality(P)
  PROVE  Ranked(candles, P, k) \in {candles[i].volume : i \in P}
<1> DEFINE f == [i \in P |-> candles[i].volume]
<1>1. IsFiniteSet(P)
  <2>1. 1 \in Int /\ Len(candles) \in Int
    BY ChartTyped
  <2>2. IsFiniteSet(1 .. Len(candles))
    BY ONLY <2>1, FS_Interval
  <2>3. QED BY <2>2, FS_Subset
<1>2. f \in [P -> Int] /\ \A i \in P : f[i] = candles[i].volume
  BY ChartTyped
<1> HIDE DEF f
<1>3. \E v \in {f[i] : i \in P} : OnRank(f, P, k, v)
  BY <1>1, <1>2, RankExists
<1>4. {f[i] : i \in P} = {candles[i].volume : i \in P}
  BY <1>2
<1>5. \A v : /\ {i \in P : f[i] < v} = {i \in P : candles[i].volume < v}
             /\ {i \in P : f[i] <= v} = {i \in P : candles[i].volume <= v}
  BY <1>2
<1>6. \E v \in {candles[i].volume : i \in P} :
         /\ Cardinality({i \in P : candles[i].volume < v}) < k
         /\ Cardinality({i \in P : candles[i].volume <= v}) >= k
  BY <1>3, <1>4, <1>5, Zenon DEF OnRank
<1>7. QED BY <1>6, Zenon DEF Ranked

(* The ratio of volumes compares with a volume there was, or between two. *)
LEMMA VolumeStaysInside ==
  ASSUME NEW candles \in Charted, NEW lookback \in Nat, NEW minimum \in Nat \ {0}
  PROVE  VolumeRatioStaysInside(candles, lookback, minimum)
<1> DEFINE N == Len(candles)
           M == Min({lookback + 1, N})
           B == Baseline(candles, lookback)
           C == Cardinality(B)
           middle == C \div 2
           median == IF C % 2 = 1
                     THEN <<Ranked(candles, B, middle + 1), 1>>
                     ELSE <<Ranked(candles, B, middle) + Ranked(candles, B, middle + 1), 2>>
           ratio == RelativeVolume(candles, lookback, minimum)
           before == {candles[i].volume : i \in 2 .. M} \ {0}
           now == Head(candles).volume
<1> SUFFICES ASSUME ratio # None
             PROVE  Min(before) * ratio[1] <= now * ratio[2] /\ now * ratio[2] <= Max(before) * ratio[1]
  BY DEF VolumeRatioStaysInside
<1>1. N \in Nat /\ \A i \in 1 .. N : candles[i].volume \in Nat
  BY ChartTyped
<1>2. /\ candles # << >> /\ C >= minimum
      /\ ratio = <<now * median[2], median[1]>>
  <2> DEFINE empty == candles = << >>
             few == now = 0 \/ C < minimum
             r == <<now * median[2], median[1]>>
  <2>1. ratio = IF empty THEN None ELSE IF few THEN None ELSE r
    BY Zenon DEF RelativeVolume
  <2>2. (~few) => ~(C < minimum)
    OBVIOUS
  <2> HIDE DEF empty, few, r, ratio, C
  <2>3. ~empty /\ ~few /\ ratio = r
    BY <2>1, Zenon
  <2>4. C \in Nat
    <3>1. B \in SUBSET (1 .. N)
      <4>1. M <= N /\ M \in Int
        <5>1. lookback + 1 \in Int /\ N \in Int
          BY <1>1
        <5> DEFINE a == lookback + 1
        <5> HIDE DEF a, N
        <5>2. Min({a, N}) = IF a <= N THEN a ELSE N
          BY <5>1, OfTwo DEF a
        <5>3. QED BY <5>1, <5>2 DEF a
      <4>2. QED BY <1>1, <4>1 DEF Baseline
    <3>2. IsFiniteSet(1 .. N)
      <4>1. 1 \in Int /\ N \in Int
        BY <1>1
      <4>2. QED BY ONLY <4>1, FS_Interval
    <3>3. IsFiniteSet(B)
      BY <3>1, <3>2, FS_Subset
    <3>4. QED BY <3>3, FS_CardinalityType DEF C
  <2>5. C >= minimum
    BY <2>2, <2>3, <2>4
  <2>6. QED BY <2>3, <2>5 DEF empty, r
<1>3. now \in Nat
  <2>1. N # 0 /\ Head(candles) = candles[1]
    BY <1>1, <1>2 DEF Charted
  <2>2. QED BY <1>1, <2>1
<1>4. M \in Int /\ M <= N
  <2>1. lookback + 1 \in Int /\ N \in Int
    BY <1>1
  <2> DEFINE a == lookback + 1
  <2> HIDE DEF a, N
  <2>2. Min({a, N}) = IF a <= N THEN a ELSE N
    BY <2>1, OfTwo DEF a
  <2>3. QED BY <2>1, <2>2 DEF a
<1>5. B = {i \in 2 .. M : candles[i].volume > 0}
  BY DEF Baseline
<1> HIDE DEF ratio, now, M
<1>6. B \in SUBSET (1 .. N) /\ IsFiniteSet(B) /\ C \in Nat
  <2>1. B \in SUBSET (1 .. N)
    BY <1>1, <1>4, <1>5
  <2>2. IsFiniteSet(1 .. N)
    <3>1. 1 \in Int /\ N \in Int
      BY <1>1
    <3>2. QED BY ONLY <3>1, FS_Interval
  <2>3. QED BY <2>1, <2>2, FS_Subset, FS_CardinalityType
<1>7. before = {candles[i].volume : i \in B}
  <2>1. \A i \in 2 .. M : candles[i].volume \in Nat
    BY <1>1, <1>4
  <2>2. \A i \in 2 .. M : candles[i].volume # 0 <=> i \in B
    BY <1>5, <2>1
  <2>3. B \subseteq 2 .. M
    BY <1>5
  <2> HIDE DEF B
  <2>4. QED BY <2>2, <2>3
<1> HIDE DEF B
<1>8. before \in SUBSET Int /\ before # {} /\ IsFiniteSet(before)
  <2> DEFINE f == [i \in B |-> candles[i].volume]
             R == {candles[i].volume : i \in B}
  <2>1. f \in Surjection(B, R)
    BY DEF Surjection
  <2> HIDE DEF f
  <2>2. IsFiniteSet(R)
    BY <1>6, <2>1, FS_Surjection
  <2>3. B # {}
    BY <1>2, <1>6, FS_EmptySet
  <2>4. R \in SUBSET Int /\ R # {}
    <3>1. \A i \in B : candles[i].volume \in Int
      BY <1>1, <1>6
    <3>2. QED BY <2>3, <3>1
  <2> HIDE DEF R, before
  <2>5. before = R
    BY <1>7 DEF R
  <2>6. QED BY <2>2, <2>4, <2>5
<1> HIDE DEF before
<1> DEFINE l == Min(before)
           h == Max(before)
<1>9. l \in Int /\ h \in Int /\ \A x \in before : l <= x /\ x <= h
  BY <1>8, Extremes
<1> HIDE DEF l, h
<1>10. ASSUME NEW k \in Nat, 0 < k, k <= C
       PROVE  /\ Ranked(candles, B, k) \in Int
              /\ l <= Ranked(candles, B, k) /\ Ranked(candles, B, k) <= h
  <2>1. Ranked(candles, B, k) \in before
    BY <1>6, <1>7, <1>10, RankedIsOne
  <2>2. QED BY <1>8, <1>9, <2>1
<1>11. /\ median[1] \in Int /\ median[2] \in Nat
       /\ l * median[2] <= median[1] /\ median[1] <= h * median[2]
  <2>1. /\ middle \in Nat /\ 0 < middle + 1 /\ middle + 1 <= C
        /\ C % 2 # 1 => 0 < middle
    <3>1. C > 0
      BY <1>2, <1>6
    <3> HIDE DEF C
    <3>2. QED BY <1>6, <3>1
  <2> HIDE DEF middle, C
  <2> DEFINE v == Ranked(candles, B, middle)
             w == Ranked(candles, B, middle + 1)
  <2>2. w \in Int /\ l <= w /\ w <= h
    BY <1>10, <2>1
  <2>3. CASE C % 2 = 1
    <3>1. median = <<w, 1>>
      BY <2>3
    <3>2. QED BY <1>9, <2>2, <3>1
  <2>4. CASE C % 2 # 1
    <3>1. middle <= C
      BY <1>6, <2>1
    <3>2. v \in Int /\ l <= v /\ v <= h
      BY <1>10, <2>1, <2>4, <3>1
    <3>3. median = <<v + w, 2>>
      BY <2>4
    <3> HIDE DEF v, w, median
    <3>4. QED BY <1>9, <2>2, <3>2, <3>3
  <2>5. QED BY <2>3, <2>4
<1> DEFINE a == median[1]
           b == median[2]
<1> HIDE DEF median
<1>12. ratio[1] = now * b /\ ratio[2] = a
  BY <1>2
<1>13. l * (now * b) <= now * a /\ now * a <= h * (now * b)
  <2>1. a \in Int /\ b \in Nat /\ l * b \in Int /\ h * b \in Int /\ l * b <= a /\ a <= h * b
    BY <1>9, <1>11
  <2> HIDE DEF a, b
  <2> DEFINE x == l * b
             y == h * b
  <2>2. x \in Int /\ y \in Int /\ x <= a /\ a <= y
    BY <2>1
  <2>3. l * (now * b) = now * x /\ h * (now * b) = now * y
    BY <1>3, <1>9, <2>1
  <2> HIDE DEF x, y
  <2>4. now * x <= now * a /\ now * a <= now * y
    BY <1>3, <2>1, <2>2, ProductOrder
  <2>5. QED BY <2>3, <2>4
<1>14. QED BY <1>12, <1>13 DEF l, h

-----------------------------------------------------------------------------
(* The least of some numbers is the only one that is no greater than any.  *)
LEMMA LeastOf ==
  ASSUME NEW S \in SUBSET Int, NEW m \in S, \A x \in S : m <= x
  PROVE  Min(S) = m
<1>1. \A x \in S : (\A y \in S : x <= y) => x = m
  OBVIOUS
<1>2. QED BY <1>1 DEF Min

(* The numbers up to some number are finitely many. *)
LEMMA UptoIsFinite ==
  ASSUME NEW n \in Nat, NEW S \in SUBSET (1 .. n)
  PROVE  IsFiniteSet(S) /\ S \in SUBSET Int
<1>1. 1 \in Int /\ n \in Int
  OBVIOUS
<1>2. IsFiniteSet(1 .. n)
  BY ONLY <1>1, FS_Interval
<1>3. IsFiniteSet(S)
  BY <1>2, FS_Subset
<1>4. QED BY <1>3

Nearby(i, window) == {i + d : d \in (-window .. window) \ {0}}

(* The places up to n where v is above all its neighbours. *)
Peaks(v, n, window) ==
  {i \in 1 .. n : /\ Nearby(i, window) \subseteq 1 .. n
                  /\ \A j \in Nearby(i, window) : v[i] > v[j]}

(* Of a place the neighbours are the places near it. *)
LEMMA NearbyOf ==
  ASSUME NEW i \in Int, NEW window \in Nat \ {0}
  PROVE  Nearby(i, window) = (i - window .. i + window) \ {i}
<1>1. ASSUME NEW j \in (i - window .. i + window) \ {i} PROVE j \in Nearby(i, window)
  <2>1. j - i \in (-window .. window) \ {0} /\ j = i + (j - i)
    OBVIOUS
  <2>2. QED BY <2>1 DEF Nearby
<1>2. ASSUME NEW j \in Nearby(i, window) PROVE j \in (i - window .. i + window) \ {i}
  BY DEF Nearby
<1>3. QED BY <1>1, <1>2

(* Peaks have a whole window before them. *)
LEMMA PeaksAreInside ==
  ASSUME NEW n \in Nat, NEW window \in Nat \ {0}, NEW v
  PROVE  \A i \in Peaks(v, n, window) : i \in 1 .. n /\ i >= window + 1
<1> SUFFICES ASSUME NEW i \in Peaks(v, n, window) PROVE i \in 1 .. n /\ i >= window + 1
  OBVIOUS
<1>1. i \in 1 .. n /\ Nearby(i, window) \subseteq 1 .. n
  BY DEF Peaks
<1>2. i - window \in Nearby(i, window)
  <2>1. Nearby(i, window) = (i - window .. i + window) \ {i}
    BY <1>1, NearbyOf
  <2>2. i - window \in (i - window .. i + window) \ {i}
    BY <1>1
  <2>3. QED BY <2>1, <2>2
<1>3. QED BY <1>1, <1>2

(* One place more in front makes at most the place after the first window  *)
(* a new peak.                                                             *)
LEMMA PeaksMove ==
  ASSUME NEW n \in Nat, NEW window \in Nat \ {0}, n > window + 1,
         NEW v \in [1 .. n -> Int], NEW w, \A i \in 1 .. n - 1 : w[i] = v[i + 1]
  PROVE  LET P == Peaks(v, n, window)
             Q == Peaks(w, n - 1, window)
         IN  \/ P # {} /\ Min(P) = window + 1
             \/ P = {} /\ Q = {}
             \/ P # {} /\ Q # {} /\ Min(Q) \in 1 .. n - 1 /\ Min(P) = Min(Q) + 1
<1> DEFINE P == Peaks(v, n, window)
           Q == Peaks(w, n - 1, window)
<1>1. \A i \in P : i \in 1 .. n /\ i >= window + 1
  BY PeaksAreInside
<1>2. \A i \in Q : i \in 1 .. n - 1
  BY DEF Peaks
<1>3. ASSUME NEW i \in 1 .. n - 1, i # window
      PROVE  i + 1 \in P <=> i \in Q
  <2> DEFINE A == (i - window .. i + window) \ {i}
             B == (i + 1 - window .. i + 1 + window) \ {i + 1}
  <2>1. Nearby(i, window) = A /\ Nearby(i + 1, window) = B
    <3> DEFINE k == i + 1
    <3>1. k \in Int /\ i \in Int
      OBVIOUS
    <3> HIDE DEF k
    <3>2. Nearby(i, window) = (i - window .. i + window) \ {i}
          /\ Nearby(k, window) = (k - window .. k + window) \ {k}
      BY <3>1, NearbyOf
    <3>3. QED BY <3>2 DEF k
  <2>2. ASSUME i + 1 \in P PROVE i \in Q
    <3>1. B \subseteq 1 .. n /\ \A j \in B : v[i + 1] > v[j]
      BY <2>1, <2>2 DEF Peaks
    <3>2. i + 1 - window \in B /\ i + 1 + window \in B
      OBVIOUS
    <3>3. i + 1 - window \in 1 .. n /\ i + 1 + window \in 1 .. n
      <4> HIDE DEF B
      <4> QED BY <3>1, <3>2
    <3>4. i - window >= 1 /\ i + window <= n - 1
      BY <1>3, <3>3
    <3>5. A \subseteq 1 .. n - 1
      BY <3>4
    <3>6. ASSUME NEW j \in A PROVE w[i] > w[j]
      <4>1. j + 1 \in B /\ j \in 1 .. n - 1
        <5>1. j + 1 \in B
          OBVIOUS
        <5> HIDE DEF A, B
        <5>2. QED BY <3>5, <5>1
      <4>2. w[i] = v[i + 1] /\ w[j] = v[j + 1]
        BY <4>1
      <4>3. QED BY <3>1, <4>1, <4>2
    <3> HIDE DEF A
    <3>7. QED BY <2>1, <3>6, <3>5 DEF Peaks
  <2>3. ASSUME i \in Q PROVE i + 1 \in P
    <3>1. A \subseteq 1 .. n - 1 /\ \A j \in A : w[i] > w[j]
      BY <2>1, <2>3 DEF Peaks
    <3>2. i - window \in A /\ i + window \in A
      OBVIOUS
    <3>3. i - window \in 1 .. n - 1 /\ i + window \in 1 .. n - 1
      <4> HIDE DEF A
      <4> QED BY <3>1, <3>2
    <3>4. B \subseteq 1 .. n
      BY <3>3
    <3>5. ASSUME NEW j \in B PROVE v[i + 1] > v[j]
      <4>1. j - 1 \in A /\ j - 1 \in 1 .. n - 1 /\ (j - 1) + 1 = j
        BY <3>3
      <4>2. w[i] = v[i + 1] /\ w[j - 1] = v[j]
        BY <4>1
      <4>3. QED BY <3>1, <4>1, <4>2
    <3>6. i + 1 \in 1 .. n
      OBVIOUS
    <3> HIDE DEF B
    <3>7. QED BY <2>1, <3>4, <3>5, <3>6 DEF Peaks
  <2>4. QED BY <2>2, <2>3
<1>4. window \notin Q
  <2>1. ASSUME window \in Q PROVE FALSE
    <3>1. Nearby(window, window) \subseteq 1 .. n - 1
      BY <2>1 DEF Peaks
    <3>2. 0 \in Nearby(window, window)
      <4>1. window \in Int /\ 0 \in (window - window .. window + window) \ {window}
        OBVIOUS
      <4>2. QED BY <4>1, NearbyOf
    <3>3. QED BY <3>1, <3>2
  <2>2. QED BY <2>1
<1> HIDE DEF P, Q
<1>5. P \in SUBSET Int /\ Q \in SUBSET Int /\ IsFiniteSet(Q)
  <2>1. n - 1 \in Nat /\ Q \in SUBSET (1 .. n - 1) /\ P \in SUBSET Int
    BY <1>1, <1>2
  <2> DEFINE k == n - 1
  <2> HIDE DEF k
  <2>2. k \in Nat /\ Q \in SUBSET (1 .. k)
    BY <2>1 DEF k
  <2>3. QED BY <2>1, <2>2, UptoIsFinite
<1>6. CASE window + 1 \in P
  <2> DEFINE m == window + 1
  <2>1. m \in P /\ \A x \in P : m <= x
    BY <1>1, <1>6
  <2> HIDE DEF m
  <2>2. Min(P) = m
    BY <1>5, <2>1, LeastOf
  <2>3. QED BY <1>6, <2>2 DEF m, P
<1>7. CASE window + 1 \notin P /\ Q = {}
  <2>1. ASSUME NEW i \in P PROVE FALSE
    <3>1. i - 1 \in 1 .. n - 1 /\ (i - 1) + 1 = i /\ i - 1 # window
      BY <1>1, <1>7
    <3>2. i - 1 \in Q
      BY <1>3, <3>1
    <3>3. QED BY <1>7, <3>2
  <2>2. QED BY <1>7, <2>1 DEF P, Q
<1>8. CASE window + 1 \notin P /\ Q # {}
  <2> DEFINE q == Min(Q)
  <2>1. q \in Q /\ \A x \in Q : q <= x
    BY <1>5, <1>8, Extremes
  <2> HIDE DEF q
  <2>2. q \in 1 .. n - 1 /\ q # window
    BY <1>2, <1>4, <2>1
  <2> DEFINE p == q + 1
  <2>3. p \in P
    BY <1>3, <2>1, <2>2
  <2>4. ASSUME NEW x \in P PROVE p <= x
    <3>1. x - 1 \in 1 .. n - 1 /\ (x - 1) + 1 = x /\ x - 1 # window
      BY <1>1, <1>8
    <3>2. x - 1 \in Q
      BY <1>3, <3>1
    <3>3. q <= x - 1
      BY <2>1, <3>2
    <3>4. QED BY <2>2, <3>1, <3>3
  <2> HIDE DEF p
  <2>5. Min(P) = p
    BY <1>5, <2>3, <2>4, LeastOf
  <2>6. QED BY <1>8, <2>2, <2>3, <2>5 DEF p, q, P, Q
<1>9. QED BY <1>6, <1>7, <1>8 DEF P, Q

(* Where only the first value rises, only the place after the first window *)
(* can cease to be a peak: as soon as its value is reached.                *)
LEMMA PeaksGrow ==
  ASSUME NEW n \in Nat, NEW window \in Nat \ {0}, n > window + 1,
         NEW v \in [1 .. n -> Int], NEW u \in [1 .. n -> Int],
         v[1] <= u[1], \A i \in 2 .. n : u[i] = v[i]
  PROVE  LET P == Peaks(v, n, window)
             G == Peaks(u, n, window)
         IN  /\ G \subseteq P /\ P \subseteq G \cup {window + 1}
             /\ window + 1 \in G <=> window + 1 \in P /\ u[1] < v[window + 1]
<1> DEFINE P == Peaks(v, n, window)
           G == Peaks(u, n, window)
           edge == window + 1
<1>1. /\ \A i \in P : i \in 1 .. n /\ i >= edge
      /\ \A i \in G : i \in 1 .. n /\ i >= edge
  BY PeaksAreInside
<1>2. ASSUME NEW i \in 1 .. n, i >= edge
      PROVE  /\ i \in G <=> i \in P /\ (i = edge => u[1] < v[edge])
  <2> DEFINE A == Nearby(i, window)
  <2>1. A = (i - window .. i + window) \ {i}
    BY NearbyOf
  <2>2. 1 \in A <=> i = edge
    BY <1>2, <2>1
  <2>3. u[i] = v[i] /\ i # 1 /\ i \in 2 .. n
    BY <1>2
  <2> HIDE DEF A
  <2>4. ASSUME A \subseteq 1 .. n
        PROVE  (\A j \in A : u[i] > u[j]) <=>
                 (\A j \in A : v[i] > v[j]) /\ (i = edge => u[1] < v[edge])
    <3>1. ASSUME \A j \in A : u[i] > u[j]
          PROVE  (\A j \in A : v[i] > v[j]) /\ (i = edge => u[1] < v[edge])
      <4>1. ASSUME NEW j \in A PROVE v[i] > v[j]
        <5>1. j \in 1 .. n /\ u[i] > u[j]
          BY <2>4, <3>1
        <5>2. CASE j = 1
          BY <2>3, <5>1, <5>2
        <5>3. CASE j # 1
          BY <2>3, <5>1, <5>3
        <5>4. QED BY <5>2, <5>3
      <4>2. i = edge => u[1] < v[edge]
        BY <2>2, <2>3, <3>1
      <4>3. QED BY <4>1, <4>2
    <3>2. ASSUME \A j \in A : v[i] > v[j], i = edge => u[1] < v[edge], NEW j \in A
          PROVE  u[i] > u[j]
      <4>1. j \in 1 .. n /\ v[i] > v[j]
        BY <2>4, <3>2
      <4>2. CASE j = 1
        BY <2>2, <2>3, <3>2, <4>2
      <4>3. CASE j # 1
        BY <2>3, <4>1, <4>3
      <4>4. QED BY <4>2, <4>3
    <3>3. QED BY <3>1, <3>2
  <2>5. QED BY <2>4 DEF A, Peaks
<1>3. edge \in 1 .. n /\ edge >= edge
  OBVIOUS
<1>4. edge \in G <=> edge \in P /\ u[1] < v[edge]
  BY <1>2, <1>3
<1> HIDE DEF P, G
<1>5. G \subseteq P /\ P \subseteq G \cup {edge}
  BY <1>1, <1>2
<1>6. QED BY <1>4, <1>5 DEF P, G

(* Values v of which the first rises, with u, and which have w behind it.  *)
FirstRises(n, window, v, u, w) ==
  /\ n \in Nat /\ window \in Nat \ {0} /\ n > window + 1
  /\ v \in [1 .. n -> Int] /\ u \in [1 .. n -> Int]
  /\ v[1] <= u[1] /\ \A i \in 2 .. n : u[i] = v[i]
  /\ \A i \in 1 .. n - 1 : w[i] = v[i + 1]

(* The newest peak after the first value has risen: that of before, while  *)
(* the peak of the edge is higher, else that of the rest.                  *)
LEMMA NewestPeak ==
  ASSUME NEW n, NEW window, NEW v, NEW u, NEW w, FirstRises(n, window, v, u, w)
  PROVE  LET P == Peaks(v, n, window)
             G == Peaks(u, n, window)
             Q == Peaks(w, n - 1, window)
         IN  IF u[1] < v[window + 1]
             THEN G = P /\ (P # {} => Min(P) \in 2 .. n)
             ELSE \/ G = {} /\ Q = {}
                  \/ G # {} /\ Q # {} /\ Min(Q) \in 1 .. n - 1 /\ Min(G) = Min(Q) + 1
<1> DEFINE P == Peaks(v, n, window)
           G == Peaks(u, n, window)
           Q == Peaks(w, n - 1, window)
<1> USE DEF FirstRises
<1>1. /\ G \subseteq P /\ P \subseteq G \cup {window + 1}
      /\ window + 1 \in G <=> window + 1 \in P /\ u[1] < v[window + 1]
  BY PeaksGrow
<1>2. /\ \A i \in P : i \in 1 .. n /\ i >= window + 1
      /\ \A i \in G : i \in 1 .. n /\ i >= window + 1
  BY PeaksAreInside
<1>3. \A i \in 1 .. n - 1 : w[i] = u[i + 1]
  OBVIOUS
<1>4. \/ G # {} /\ Min(G) = window + 1
      \/ G = {} /\ Q = {}
      \/ G # {} /\ Q # {} /\ Min(Q) \in 1 .. n - 1 /\ Min(G) = Min(Q) + 1
  BY <1>3, PeaksMove
<1> HIDE DEF P, G, Q
<1>5. ASSUME NEW S \in {P, G}, S # {} PROVE Min(S) \in S
  <2>1. S \in SUBSET (1 .. n)
    BY <1>2
  <2>2. IsFiniteSet(S) /\ S \in SUBSET Int
    BY <2>1, UptoIsFinite
  <2>3. QED BY <1>5, <2>2, Extremes
<1>6. CASE u[1] < v[window + 1]
  <2>1. G = P
    BY <1>1, <1>6
  <2>2. ASSUME P # {} PROVE Min(P) \in 2 .. n
    BY <1>2, <1>5, <2>2
  <2>3. QED BY <1>6, <2>1, <2>2 DEF P, G
<1>7. CASE ~(u[1] < v[window + 1])
  <2>1. window + 1 \notin G
    BY <1>1, <1>7
  <2>2. G # {} => Min(G) # window + 1
    BY <1>5, <2>1
  <2>3. QED BY <1>4, <1>7, <2>2 DEF P, G, Q
<1>8. QED BY <1>6, <1>7

(* A swing is the value of the newest peak, of the highs or, turned round, *)
(* of the lows.                                                            *)
LEMMA SwingsOf ==
  ASSUME NEW candles \in Charted, NEW window \in Nat \ {0}
  PROVE  LET N == Len(candles)
             tops == Peaks([i \in 1 .. N |-> candles[i].high], N, window)
             bottoms == Peaks([i \in 1 .. N |-> -candles[i].low], N, window)
         IN  /\ SwingHigh(candles, window) = IF tops = {} THEN None ELSE candles[Min(tops)].high
             /\ SwingLow(candles, window) = IF bottoms = {} THEN None ELSE candles[Min(bottoms)].low
<1> DEFINE N == Len(candles)
           highs == [i \in 1 .. N |-> candles[i].high]
           lows == [i \in 1 .. N |-> -candles[i].low]
           tops == {i \in DOMAIN candles :
                      /\ Around(candles, i, window) \subseteq DOMAIN candles
                      /\ \A j \in Around(candles, i, window) : candles[i].high > candles[j].high}
           bottoms == {i \in DOMAIN candles :
                      /\ Around(candles, i, window) \subseteq DOMAIN candles
                      /\ \A j \in Around(candles, i, window) : candles[i].low < candles[j].low}
<1>1. DOMAIN candles = 1 .. N /\ \A i \in 1 .. N : candles[i].high \in Int /\ candles[i].low \in Int
  BY ChartTyped
<1>2. \A i : Around(candles, i, window) = Nearby(i, window)
  BY DEF Around, Nearby
<1>3. tops = Peaks(highs, N, window)
  <2>1. \A i, j \in 1 .. N : candles[i].high > candles[j].high <=> highs[i] > highs[j]
    OBVIOUS
  <2> HIDE DEF highs, N
  <2>2. ASSUME NEW i \in 1 .. N, Nearby(i, window) \subseteq 1 .. N
        PROVE  (\A j \in Nearby(i, window) : candles[i].high > candles[j].high)
                 <=> \A j \in Nearby(i, window) : highs[i] > highs[j]
    BY <2>1, <2>2
  <2>3. QED BY <1>1, <1>2, <2>2, Zenon DEF Peaks
<1>4. bottoms = Peaks(lows, N, window)
  <2>1. \A i, j \in 1 .. N : candles[i].low < candles[j].low <=> lows[i] > lows[j]
    <3>1. \A a, b \in Int : a < b <=> -a > -b
      OBVIOUS
    <3>2. \A i \in 1 .. N : lows[i] = -candles[i].low
      OBVIOUS
    <3> HIDE DEF lows
    <3>3. QED BY <1>1, <3>1, <3>2
  <2> HIDE DEF lows, N
  <2>2. ASSUME NEW i \in 1 .. N, Nearby(i, window) \subseteq 1 .. N
        PROVE  (\A j \in Nearby(i, window) : candles[i].low < candles[j].low)
                 <=> \A j \in Nearby(i, window) : lows[i] > lows[j]
    BY <2>1, <2>2
  <2>3. QED BY <1>1, <1>2, <2>2, Zenon DEF Peaks
<1>5. /\ SwingHigh(candles, window) = IF tops = {} THEN None ELSE candles[Min(tops)].high
      /\ SwingLow(candles, window) = IF bottoms = {} THEN None ELSE candles[Min(bottoms)].low
  BY Zenon DEF SwingHigh, SwingLow, Pivot
<1> HIDE DEF highs, lows, tops, bottoms
<1>6. QED BY <1>3, <1>4, <1>5, Zenon DEF highs, lows

(* A candle more makes the swing of the edge, or none. *)
LEMMA SwingsStand ==
  ASSUME NEW candles \in Charted, NEW window \in Nat \ {0}, Len(candles) > window + 1
  PROVE  /\ SwingHigh(candles, window) \in {SwingHigh(Tail(candles), window), candles[window + 1].high}
         /\ SwingLow(candles, window) \in {SwingLow(Tail(candles), window), candles[window + 1].low}
<1> DEFINE n == Len(candles)
           rest == Tail(candles)
           highs == [i \in 1 .. n |-> candles[i].high]
           lows == [i \in 1 .. n |-> -candles[i].low]
           highs1 == [i \in 1 .. Len(rest) |-> rest[i].high]
           lows1 == [i \in 1 .. Len(rest) |-> -rest[i].low]
<1>1. /\ n \in Nat /\ n > window + 1
      /\ \A i \in 1 .. n : candles[i].high \in Int /\ candles[i].low \in Int
  BY ChartTyped
<1>2. /\ rest \in Charted /\ Len(rest) = n - 1
      /\ \A i \in 1 .. n - 1 : rest[i] = candles[i + 1]
  BY <1>1 DEF Charted
<1> HIDE DEF rest
<1>3. /\ highs \in [1 .. n -> Int] /\ lows \in [1 .. n -> Int]
      /\ \A i \in 1 .. n - 1 : highs1[i] = highs[i + 1] /\ lows1[i] = lows[i + 1]
  <2>1. highs \in [1 .. n -> Int] /\ lows \in [1 .. n -> Int]
    BY <1>1
  <2>2. ASSUME NEW i \in 1 .. n - 1 PROVE highs1[i] = highs[i + 1] /\ lows1[i] = lows[i + 1]
    <3>1. i + 1 \in 1 .. n /\ i \in 1 .. Len(rest) /\ rest[i] = candles[i + 1]
      BY <1>1, <1>2
    <3>2. QED BY <3>1
  <2>3. QED BY <2>1, <2>2
<1> DEFINE tops == Peaks(highs, n, window)
           tops1 == Peaks(highs1, Len(rest), window)
           bottoms == Peaks(lows, n, window)
           bottoms1 == Peaks(lows1, Len(rest), window)
<1>4. /\ SwingHigh(candles, window) = IF tops = {} THEN None ELSE candles[Min(tops)].high
      /\ SwingLow(candles, window) = IF bottoms = {} THEN None ELSE candles[Min(bottoms)].low
  BY SwingsOf
<1>5. /\ SwingHigh(rest, window) = IF tops1 = {} THEN None ELSE rest[Min(tops1)].high
      /\ SwingLow(rest, window) = IF bottoms1 = {} THEN None ELSE rest[Min(bottoms1)].low
  BY <1>2, SwingsOf
<1> HIDE DEF highs, lows, highs1, lows1, n
<1>6. /\ \/ tops # {} /\ Min(tops) = window + 1
         \/ tops = {} /\ tops1 = {}
         \/ tops # {} /\ tops1 # {} /\ Min(tops1) \in 1 .. n - 1 /\ Min(tops) = Min(tops1) + 1
      /\ \/ bottoms # {} /\ Min(bottoms) = window + 1
         \/ bottoms = {} /\ bottoms1 = {}
         \/ bottoms # {} /\ bottoms1 # {} /\ Min(bottoms1) \in 1 .. n - 1 /\ Min(bottoms) = Min(bottoms1) + 1
  <2>1. tops1 = Peaks(highs1, n - 1, window) /\ bottoms1 = Peaks(lows1, n - 1, window)
    BY <1>2
  <2>2. /\ \A i \in 1 .. n - 1 : highs1[i] = highs[i + 1]
        /\ \A i \in 1 .. n - 1 : lows1[i] = lows[i + 1]
    BY <1>3
  <2> HIDE DEF n
  <2>3. \/ tops # {} /\ Min(tops) = window + 1
        \/ tops = {} /\ tops1 = {}
        \/ tops # {} /\ tops1 # {} /\ Min(tops1) \in 1 .. n - 1 /\ Min(tops) = Min(tops1) + 1
    <3>1. LET P == Peaks(highs, n, window)
              Q == Peaks(highs1, n - 1, window)
          IN  \/ P # {} /\ Min(P) = window + 1
              \/ P = {} /\ Q = {}
              \/ P # {} /\ Q # {} /\ Min(Q) \in 1 .. n - 1 /\ Min(P) = Min(Q) + 1
      BY ONLY <1>1, <1>3, <2>2, window \in Nat \ {0}, PeaksMove
    <3>2. QED BY <2>1, <3>1, Zenon
  <2>4. \/ bottoms # {} /\ Min(bottoms) = window + 1
        \/ bottoms = {} /\ bottoms1 = {}
        \/ bottoms # {} /\ bottoms1 # {} /\ Min(bottoms1) \in 1 .. n - 1 /\ Min(bottoms) = Min(bottoms1) + 1
    <3>1. LET P == Peaks(lows, n, window)
              Q == Peaks(lows1, n - 1, window)
          IN  \/ P # {} /\ Min(P) = window + 1
              \/ P = {} /\ Q = {}
              \/ P # {} /\ Q # {} /\ Min(Q) \in 1 .. n - 1 /\ Min(P) = Min(Q) + 1
      BY ONLY <1>1, <1>3, <2>2, window \in Nat \ {0}, PeaksMove
    <3>2. QED BY <2>1, <3>1, Zenon
  <2>5. QED BY <2>3, <2>4
<1> HIDE DEF tops, tops1, bottoms, bottoms1
<1>7. SwingHigh(candles, window) \in {SwingHigh(rest, window), candles[window + 1].high}
  BY <1>2, <1>4, <1>5, <1>6
<1>8. SwingLow(candles, window) \in {SwingLow(rest, window), candles[window + 1].low}
  BY <1>2, <1>4, <1>5, <1>6
<1>9. QED BY <1>7, <1>8 DEF rest

(* A candle that has grown is still a candle of a chart. *)
LEMMA GrownIsCharted ==
  ASSUME NEW candles \in Charted, candles # << >>,
         NEW h \in Nat, candles[1].high <= h, NEW l \in 1 .. candles[1].low
  PROVE  LET grown == Grown(candles, h, l)
         IN  /\ grown \in Charted /\ Len(grown) = Len(candles)
             /\ grown[1].high = h /\ grown[1].low = l
             /\ \A i \in 2 .. Len(candles) : grown[i] = candles[i]
<1> DEFINE c == candles[1]
           g == [c EXCEPT !.high = h, !.low = l]
           grown == Grown(candles, h, l)
<1>1. /\ candles \in Seq(Candle("session")) /\ 1 \in DOMAIN candles /\ Len(candles) \in Nat
      /\ c \in Candle("session")
  BY DEF Charted
<1>2. g \in Candle("session") /\ g.high = h /\ g.low = l
  <2>1. /\ c \in [{"open", "close", "high", "low", "volume", "session"} -> Nat]
        /\ c.low > 0 /\ {c.open, c.close} \subseteq c.low .. c.high
    BY <1>1 DEF Candle
  <2>2. l \in Nat /\ l > 0 /\ l <= c.low /\ c.high <= h
    BY <2>1
  <2> HIDE DEF c
  <2>3. /\ g \in [{"open", "close", "high", "low", "volume", "session"} -> Nat]
        /\ g.high = h /\ g.low = l /\ g.open = c.open /\ g.close = c.close
    BY <2>1, <2>2
  <2>4. c.open \in l .. h /\ c.close \in l .. h
    BY <2>1, <2>2
  <2>5. {g.open, g.close} \subseteq g.low .. g.high
    BY <2>3, <2>4
  <2> HIDE DEF g
  <2>6. QED BY <2>2, <2>3, <2>5 DEF Candle
<1>3. grown = [candles EXCEPT ![1] = g]
  BY DEF Grown
<1> HIDE DEF c, g, grown
<1>4. /\ grown \in Seq(Candle("session")) /\ Len(grown) = Len(candles) /\ grown[1] = g
      /\ \A i \in 2 .. Len(candles) : grown[i] = candles[i]
  BY <1>1, <1>2, <1>3
<1>5. QED BY <1>2, <1>4 DEF grown, Charted

(* While the newest candle grows the highest swing is that of before or,   *)
(* once it has reached the edge, that of the candles before it.            *)
LEMMA SwingsOfGrown ==
  ASSUME NEW candles \in Charted, NEW window \in Nat \ {0}, Len(candles) > window + 1,
         NEW h \in Nat, candles[1].high <= h, NEW l \in 1 .. candles[1].low
  PROVE  LET edge == candles[window + 1]
             grown == Grown(candles, h, l)
         IN  /\ SwingHigh(grown, window) = SwingHigh(IF h < edge.high THEN candles ELSE Tail(candles), window)
             /\ SwingLow(grown, window) = SwingLow(IF l > edge.low THEN candles ELSE Tail(candles), window)
<1> DEFINE n == Len(candles)
           edge == candles[window + 1]
           grown == Grown(candles, h, l)
           rest == Tail(candles)
           highs == [i \in 1 .. n |-> candles[i].high]
           lows == [i \in 1 .. n |-> -candles[i].low]
           highs1 == [i \in 1 .. Len(rest) |-> rest[i].high]
           lows1 == [i \in 1 .. Len(rest) |-> -rest[i].low]
           highs2 == [i \in 1 .. Len(grown) |-> grown[i].high]
           lows2 == [i \in 1 .. Len(grown) |-> -grown[i].low]
<1>1. /\ n \in Nat /\ n > window + 1
      /\ \A i \in 1 .. n : candles[i].high \in Int /\ candles[i].low \in Int
  BY ChartTyped
<1>2. /\ rest \in Charted /\ Len(rest) = n - 1
      /\ \A i \in 1 .. n - 1 : rest[i] = candles[i + 1]
  BY <1>1 DEF Charted
<1>3. /\ grown \in Charted /\ Len(grown) = n
      /\ grown[1].high = h /\ grown[1].low = l
      /\ \A i \in 2 .. n : grown[i] = candles[i]
  <2>1. candles # << >>
    BY <1>1
  <2>2. QED BY <2>1, GrownIsCharted
<1> HIDE DEF rest, grown
<1>4. /\ highs \in [1 .. n -> Int] /\ lows \in [1 .. n -> Int]
      /\ highs[1] <= h /\ lows[1] <= -l
      /\ highs[window + 1] = edge.high /\ lows[window + 1] = -edge.low
  <2>1. highs \in [1 .. n -> Int] /\ lows \in [1 .. n -> Int]
    BY <1>1
  <2>2. 1 \in 1 .. n /\ window + 1 \in 1 .. n
    BY <1>1
  <2>3. highs[1] = candles[1].high /\ lows[1] = -candles[1].low
    BY <2>2
  <2>4. candles[1].low \in Int /\ l \in Int /\ l <= candles[1].low
    BY <1>1, <2>2
  <2>5. highs[window + 1] = edge.high /\ lows[window + 1] = -edge.low
    BY <2>2
  <2>6. QED BY <2>1, <2>3, <2>4, <2>5
<1>5. \A i \in 1 .. n - 1 : highs1[i] = highs[i + 1] /\ lows1[i] = lows[i + 1]
  <2> SUFFICES ASSUME NEW i \in 1 .. n - 1
               PROVE  highs1[i] = highs[i + 1] /\ lows1[i] = lows[i + 1]
    OBVIOUS
  <2>1. i + 1 \in 1 .. n /\ i \in 1 .. Len(rest) /\ rest[i] = candles[i + 1]
    BY <1>1, <1>2
  <2>2. QED BY <2>1
<1>6. /\ highs2 \in [1 .. n -> Int] /\ lows2 \in [1 .. n -> Int]
      /\ highs2[1] = h /\ lows2[1] = -l
      /\ \A i \in 2 .. n : highs2[i] = highs[i] /\ lows2[i] = lows[i]
  <2>1. \A i \in 1 .. n : grown[i].high \in Int /\ grown[i].low \in Int
    BY <1>3, ChartTyped
  <2>2. highs2 \in [1 .. n -> Int] /\ lows2 \in [1 .. n -> Int]
    BY <1>3, <2>1
  <2>3. highs2[1] = h /\ lows2[1] = -l
    BY <1>1, <1>3
  <2>4. ASSUME NEW i \in 2 .. n PROVE highs2[i] = highs[i] /\ lows2[i] = lows[i]
    BY <1>1, <1>3
  <2>5. QED BY <2>2, <2>3, <2>4
<1> DEFINE tops == Peaks(highs, n, window)
           tops1 == Peaks(highs1, Len(rest), window)
           tops2 == Peaks(highs2, Len(grown), window)
           bottoms == Peaks(lows, n, window)
           bottoms1 == Peaks(lows1, Len(rest), window)
           bottoms2 == Peaks(lows2, Len(grown), window)
<1>7. /\ SwingHigh(candles, window) = IF tops = {} THEN None ELSE candles[Min(tops)].high
      /\ SwingLow(candles, window) = IF bottoms = {} THEN None ELSE candles[Min(bottoms)].low
  BY SwingsOf
<1>8. /\ SwingHigh(rest, window) = IF tops1 = {} THEN None ELSE rest[Min(tops1)].high
      /\ SwingLow(rest, window) = IF bottoms1 = {} THEN None ELSE rest[Min(bottoms1)].low
  BY <1>2, SwingsOf
<1>9. /\ SwingHigh(grown, window) = IF tops2 = {} THEN None ELSE grown[Min(tops2)].high
      /\ SwingLow(grown, window) = IF bottoms2 = {} THEN None ELSE grown[Min(bottoms2)].low
  BY <1>3, SwingsOf
<1> HIDE DEF highs, lows, highs1, lows1, highs2, lows2, n, edge
<1>10. IF h < edge.high
       THEN tops2 = tops /\ (tops # {} => Min(tops) \in 2 .. n)
       ELSE \/ tops2 = {} /\ tops1 = {}
            \/ tops2 # {} /\ tops1 # {} /\ Min(tops1) \in 1 .. n - 1 /\ Min(tops2) = Min(tops1) + 1
  <2>1. tops1 = Peaks(highs1, n - 1, window) /\ tops2 = Peaks(highs2, n, window)
    BY <1>2, <1>3
  <2>2. /\ highs[1] <= highs2[1] /\ \A i \in 2 .. n : highs2[i] = highs[i]
        /\ \A i \in 1 .. n - 1 : highs1[i] = highs[i + 1]
        /\ h < edge.high <=> highs2[1] < highs[window + 1]
    BY <1>4, <1>5, <1>6
  <2>3. LET P == Peaks(highs, n, window)
            G == Peaks(highs2, n, window)
            Q == Peaks(highs1, n - 1, window)
        IN  IF highs2[1] < highs[window + 1]
            THEN G = P /\ (P # {} => Min(P) \in 2 .. n)
            ELSE \/ G = {} /\ Q = {}
                 \/ G # {} /\ Q # {} /\ Min(Q) \in 1 .. n - 1 /\ Min(G) = Min(Q) + 1
    <3>1. FirstRises(n, window, highs, highs2, highs1)
      BY <1>1, <1>4, <1>6, <2>2 DEF FirstRises
    <3>2. QED BY <3>1, NewestPeak
  <2>4. QED BY <2>1, <2>2, <2>3, Zenon
<1>11. IF l > edge.low
       THEN bottoms2 = bottoms /\ (bottoms # {} => Min(bottoms) \in 2 .. n)
       ELSE \/ bottoms2 = {} /\ bottoms1 = {}
            \/ /\ bottoms2 # {} /\ bottoms1 # {}
               /\ Min(bottoms1) \in 1 .. n - 1 /\ Min(bottoms2) = Min(bottoms1) + 1
  <2>1. bottoms1 = Peaks(lows1, n - 1, window) /\ bottoms2 = Peaks(lows2, n, window)
    BY <1>2, <1>3
  <2>2. /\ lows[1] <= lows2[1] /\ \A i \in 2 .. n : lows2[i] = lows[i]
        /\ \A i \in 1 .. n - 1 : lows1[i] = lows[i + 1]
    BY <1>4, <1>5, <1>6
  <2>3. l > edge.low <=> lows2[1] < lows[window + 1]
    <3>1. edge.low \in Int /\ l \in Int
      BY <1>1 DEF edge
    <3>2. QED BY <1>4, <1>6, <3>1
  <2>4. LET P == Peaks(lows, n, window)
            G == Peaks(lows2, n, window)
            Q == Peaks(lows1, n - 1, window)
        IN  IF lows2[1] < lows[window + 1]
            THEN G = P /\ (P # {} => Min(P) \in 2 .. n)
            ELSE \/ G = {} /\ Q = {}
                 \/ G # {} /\ Q # {} /\ Min(Q) \in 1 .. n - 1 /\ Min(G) = Min(Q) + 1
    <3>1. FirstRises(n, window, lows, lows2, lows1)
      BY <1>1, <1>4, <1>6, <2>2 DEF FirstRises
    <3>2. QED BY <3>1, NewestPeak
  <2>5. QED BY <2>1, <2>3, <2>4, Zenon
<1> HIDE DEF tops, tops1, tops2, bottoms, bottoms1, bottoms2
<1>12. SwingHigh(grown, window) = SwingHigh(IF h < edge.high THEN candles ELSE rest, window)
  <2>1. CASE h < edge.high
    BY <1>3, <1>7, <1>9, <1>10, <2>1
  <2>2. CASE ~(h < edge.high)
    <3>1. \A i \in 1 .. n - 1 : grown[i + 1] = rest[i]
      BY <1>1, <1>2, <1>3
    <3>2. SwingHigh(grown, window) = SwingHigh(rest, window)
      BY <1>8, <1>9, <1>10, <2>2, <3>1
    <3>3. QED BY <2>2, <3>2
  <2>3. QED BY <2>1, <2>2
<1>13. SwingLow(grown, window) = SwingLow(IF l > edge.low THEN candles ELSE rest, window)
  <2>1. CASE l > edge.low
    BY <1>3, <1>7, <1>9, <1>11, <2>1
  <2>2. CASE ~(l > edge.low)
    <3>1. \A i \in 1 .. n - 1 : grown[i + 1] = rest[i]
      BY <1>1, <1>2, <1>3
    <3>2. SwingLow(grown, window) = SwingLow(rest, window)
      BY <1>8, <1>9, <1>11, <2>2, <3>1
    <3>3. QED BY <2>2, <3>2
  <2>3. QED BY <2>1, <2>2
<1>14. QED BY <1>12, <1>13 DEF rest, grown, edge

(* The highs, and the lows, of some candles of a chart: their extremes are *)
(* numbers.                                                                *)
LEMMA HighsAndLows ==
  ASSUME NEW candles \in Charted, NEW P \in SUBSET (1 .. Len(candles)), P # {}
  PROVE  LET H == {c.high : c \in {candles[i] : i \in P}}
             L == {c.low : c \in {candles[i] : i \in P}}
         IN  /\ H \in SUBSET Int /\ IsFiniteSet(H) /\ H # {} /\ Max(H) \in Int
             /\ L \in SUBSET Int /\ IsFiniteSet(L) /\ L # {} /\ Min(L) \in Int
<1> DEFINE H == {c.high : c \in {candles[i] : i \in P}}
           L == {c.low : c \in {candles[i] : i \in P}}
           f == [i \in P |-> candles[i].high]
           g == [i \in P |-> candles[i].low]
<1>1. /\ Len(candles) \in Nat
      /\ \A i \in 1 .. Len(candles) : candles[i].high \in Int /\ candles[i].low \in Int
  BY ChartTyped
<1>2. IsFiniteSet(P) /\ \A i \in P : candles[i].high \in Int /\ candles[i].low \in Int
  <2> DEFINE n == Len(candles)
  <2>1. n \in Nat /\ P \in SUBSET (1 .. n)
    BY <1>1
  <2> HIDE DEF n
  <2>2. IsFiniteSet(P)
    BY <2>1, UptoIsFinite
  <2>3. QED BY <1>1, <2>2
<1>3. H \in SUBSET Int /\ L \in SUBSET Int /\ H # {} /\ L # {}
  BY <1>2
<1>4. f \in Surjection(P, H) /\ g \in Surjection(P, L)
  <2>1. H = {candles[i].high : i \in P} /\ L = {candles[i].low : i \in P}
    OBVIOUS
  <2> HIDE DEF H, L
  <2>2. QED BY <2>1 DEF Surjection
<1> HIDE DEF H, L, f, g
<1>5. IsFiniteSet(H) /\ IsFiniteSet(L)
  BY ONLY <1>2, <1>4, FS_Surjection
<1>6. Max(H) \in Int /\ Min(L) \in Int
  BY <1>3, <1>5, Extremes
<1>7. QED BY <1>3, <1>5, <1>6 DEF H, L

(* Only the swing of the edge depends on the newest candle. *)
LEMMA SwingsAreOfTheEdge ==
  ASSUME NEW candles \in Charted, NEW window \in Nat \ {0}
  PROVE  SwingsRepaintAtTheEdgeOnly(candles, window)
<1> SUFFICES ASSUME Len(candles) > window + 1,
                    NEW h \in Head(candles).high .. Max({c.high : c \in ToSet(candles)}) + 1,
                    NEW l \in 1 .. Head(candles).low
             PROVE  LET edge == candles[window + 1]
                        before == Tail(candles)
                    IN  /\ SwingHigh(candles, window) \in {SwingHigh(before, window), edge.high}
                        /\ SwingLow(candles, window) \in {SwingLow(before, window), edge.low}
                        /\ SwingHigh(Grown(candles, h, l), window) =
                             SwingHigh(IF h < edge.high THEN candles ELSE before, window)
                        /\ SwingLow(Grown(candles, h, l), window) =
                             SwingLow(IF l > edge.low THEN candles ELSE before, window)
  <2>1. TRUE
    OBVIOUS
  <2>2. QED BY SwingsStand DEF SwingsRepaintAtTheEdgeOnly
<1>1. Len(candles) \in Nat /\ Head(candles) = candles[1] /\ candles[1].high \in Nat
  BY ChartTyped DEF Charted
<1>2. h \in Nat /\ candles[1].high <= h /\ l \in 1 .. candles[1].low
  BY <1>1
<1>3. QED BY <1>2, SwingsStand, SwingsOfGrown

Figure == Int \cup {None}

(* Swings are numbers, where there are some. *)
LEMMA SwingsTyped ==
  ASSUME NEW candles \in Charted, NEW window \in Nat \ {0}
  PROVE  SwingHigh(candles, window) \in Figure /\ SwingLow(candles, window) \in Figure
<1> DEFINE n == Len(candles)
           tops == Peaks([i \in 1 .. n |-> candles[i].high], n, window)
           bottoms == Peaks([i \in 1 .. n |-> -candles[i].low], n, window)
<1>1. n \in Nat /\ \A i \in 1 .. n : candles[i].high \in Int /\ candles[i].low \in Int
  BY ChartTyped
<1>2. /\ SwingHigh(candles, window) = IF tops = {} THEN None ELSE candles[Min(tops)].high
      /\ SwingLow(candles, window) = IF bottoms = {} THEN None ELSE candles[Min(bottoms)].low
  BY SwingsOf
<1>3. tops \in SUBSET (1 .. n) /\ bottoms \in SUBSET (1 .. n)
  BY DEF Peaks
<1> HIDE DEF tops, bottoms, n
<1>4. IsFiniteSet(tops) /\ tops \in SUBSET Int /\ IsFiniteSet(bottoms) /\ bottoms \in SUBSET Int
  BY <1>1, <1>3, UptoIsFinite
<1>5. (tops # {} => Min(tops) \in tops) /\ (bottoms # {} => Min(bottoms) \in bottoms)
  BY <1>4, Extremes
<1>6. QED BY <1>1, <1>2, <1>3, <1>5 DEF Figure

LevelNames ==
  {"recentHigh", "recentLow", "sessionHigh", "sessionLow", "previousClose", "swingHigh", "swingLow"}

(* Levels are numbers, where there are some, and the recent ones are.      *)
LEMMA LevelsTyped ==
  ASSUME NEW candles \in Charted, candles # << >>, NEW dailies \in Charted,
         NEW lookback \in Nat \ {0}, NEW window \in Nat \ {0}
  PROVE  LET levels == Levels(candles, dailies, lookback, window)
         IN  /\ DOMAIN levels = LevelNames /\ \A l \in LevelNames : levels[l] \in Figure
             /\ levels.recentHigh \in Int /\ levels.recentLow \in Int
<1> DEFINE n == Len(candles)
           last == Min({lookback, n})
           P == 1 .. last
           recent == {candles[i] : i \in P}
           Q == {i \in P : candles[i].session = Head(candles).session}
           today == {c \in recent : c.session = Head(candles).session}
           previous == IF dailies = << >> THEN None
                       ELSE IF Head(dailies).session = Head(candles).session /\ Len(dailies) > 1
                            THEN dailies[2].close ELSE Head(dailies).close
           levels == Levels(candles, dailies, lookback, window)
<1>1. n \in Nat /\ n # 0 /\ Head(candles) = candles[1]
  BY DEF Charted
<1>2. last \in 1 .. n
  <2>1. lookback \in Int /\ n \in Int
    BY <1>1
  <2> HIDE DEF n
  <2>2. last = IF lookback <= n THEN lookback ELSE n
    BY <2>1, OfTwo
  <2>3. QED BY <1>1, <2>2
<1> HIDE DEF last
<1>3. P \in SUBSET (1 .. n) /\ Q \in SUBSET (1 .. n) /\ 1 \in P /\ 1 \in Q
  BY <1>1, <1>2
<1>4. today = {candles[i] : i \in Q}
  OBVIOUS
<1> HIDE DEF P, Q, today
<1>5. /\ Max({c.high : c \in recent}) \in Int /\ Min({c.low : c \in recent}) \in Int
      /\ Max({c.high : c \in {candles[i] : i \in Q}}) \in Int
      /\ Min({c.low : c \in {candles[i] : i \in Q}}) \in Int
  BY <1>3, HighsAndLows
<1>6. Max({c.high : c \in today}) \in Int /\ Min({c.low : c \in today}) \in Int
  BY <1>4, <1>5, Zenon
<1>7. previous \in Figure
  <2>1. Len(dailies) \in Nat /\ \A i \in 1 .. Len(dailies) : dailies[i].close \in Nat
    BY ChartTyped
  <2>2. dailies # << >> => Len(dailies) # 0 /\ Head(dailies) = dailies[1]
    BY DEF Charted
  <2>3. dailies # << >> => Head(dailies).close \in Int
    BY <2>1, <2>2
  <2>4. Len(dailies) > 1 => dailies[2].close \in Int
    BY <2>1
  <2>5. QED BY <2>3, <2>4 DEF Figure
<1>8. SwingHigh(candles, window) \in Figure /\ SwingLow(candles, window) \in Figure
  BY SwingsTyped
<1>9. levels = [recentHigh |-> Max({c.high : c \in recent}), recentLow |-> Min({c.low : c \in recent}),
                sessionHigh |-> Max({c.high : c \in today}), sessionLow |-> Min({c.low : c \in today}),
                previousClose |-> previous,
                swingHigh |-> SwingHigh(candles, window), swingLow |-> SwingLow(candles, window)]
  BY Zenon DEF Levels, last, P, today
<1> DEFINE rh == Max({c.high : c \in recent})
           rl == Min({c.low : c \in recent})
           sh == Max({c.high : c \in today})
           sl == Min({c.low : c \in today})
           wh == SwingHigh(candles, window)
           wl == SwingLow(candles, window)
<1>10. levels = [recentHigh |-> rh, recentLow |-> rl, sessionHigh |-> sh, sessionLow |-> sl,
                 previousClose |-> previous, swingHigh |-> wh, swingLow |-> wl]
  BY <1>9
<1>11. /\ rh \in Int /\ rl \in Int /\ sh \in Int /\ sl \in Int
       /\ previous \in Figure /\ wh \in Figure /\ wl \in Figure
  BY <1>5, <1>6, <1>7, <1>8
<1> HIDE DEF levels, rh, rl, sh, sl, previous, wh, wl
<1>12. /\ DOMAIN levels = LevelNames /\ \A l \in LevelNames : levels[l] \in Figure
       /\ levels.recentHigh \in Int /\ levels.recentLow \in Int
  BY ONLY <1>10, <1>11 DEF LevelNames, Figure
<1>13. QED BY <1>12 DEF levels

(* The names of the levels are finitely many. *)
LEMMA LevelsAreFew == IsFiniteSet(LevelNames)
<1> DEFINE A == {"recentHigh", "recentLow"}
           B == {"sessionHigh", "sessionLow"}
           C == {"swingHigh", "swingLow"}
           D == {"previousClose"}
<1>1. \A x, y : IsFiniteSet({x, y})
  <2> SUFFICES ASSUME NEW x, NEW y PROVE IsFiniteSet({x, y})
    OBVIOUS
  <2>1. IsFiniteSet({x}) /\ IsFiniteSet({y}) /\ {x, y} = {x} \cup {y}
    BY FS_Singleton
  <2>2. IsFiniteSet({x} \cup {y})
    BY <2>1, FS_Union
  <2>3. QED BY <2>1, <2>2
<1>2. IsFiniteSet(A) /\ IsFiniteSet(B) /\ IsFiniteSet(C) /\ IsFiniteSet(D)
  BY <1>1, FS_Singleton
<1>3. LevelNames = ((A \cup B) \cup C) \cup D
  BY DEF LevelNames
<1> HIDE DEF A, B, C, D
<1>4. IsFiniteSet(A \cup B)
  BY <1>2, FS_Union
<1>5. IsFiniteSet((A \cup B) \cup C)
  BY <1>2, <1>4, FS_Union
<1>6. IsFiniteSet(((A \cup B) \cup C) \cup D)
  BY <1>2, <1>5, FS_Union
<1>7. QED BY <1>3, <1>6

(* A price between the recent low and high has support and resistance, and *)
(* no level lies nearer.                                                   *)
LEMMA LevelsAround ==
  ASSUME NEW levels, DOMAIN levels = LevelNames, \A l \in LevelNames : levels[l] \in Figure,
         levels.recentHigh \in Int, levels.recentLow \in Int,
         NEW price \in levels.recentLow .. levels.recentHigh
  PROVE  LET near == Nearest(levels, price)
         IN  /\ near.support # None /\ near.resistance # None
             /\ \A l \in DOMAIN levels :
                  levels[l] = None \/ levels[l] <= near.support \/ levels[l] >= near.resistance
<1> DEFINE known == {levels[l] : l \in DOMAIN levels} \ {None}
           below == {v \in known : v <= price}
           above == {v \in known : v >= price}
           near == Nearest(levels, price)
<1>1. None \notin Int
  BY InputsAreTyped
<1>2. price \in Int /\ levels.recentLow <= price /\ price <= levels.recentHigh
  OBVIOUS
<1>3. known \in SUBSET Int
  BY DEF Figure
<1>4. IsFiniteSet(known)
  <2> DEFINE f == [l \in LevelNames |-> levels[l]]
             V == {levels[l] : l \in DOMAIN levels}
  <2>1. f \in Surjection(LevelNames, V)
    BY DEF Surjection
  <2>2. known \in SUBSET V
    OBVIOUS
  <2> HIDE DEF f, V, known
  <2>3. IsFiniteSet(V)
    BY ONLY <2>1, LevelsAreFew, FS_Surjection
  <2>4. QED BY <2>2, <2>3, FS_Subset
<1>5. levels.recentLow \in known /\ levels.recentHigh \in known
  <2>1. "recentLow" \in DOMAIN levels /\ "recentHigh" \in DOMAIN levels
    BY DEF LevelNames
  <2>2. QED BY <1>1, <2>1
<1> HIDE DEF known
<1>6. /\ below \in SUBSET Int /\ IsFiniteSet(below) /\ below # {}
      /\ above \in SUBSET Int /\ IsFiniteSet(above) /\ above # {}
  <2>1. below \in SUBSET known /\ above \in SUBSET known
    OBVIOUS
  <2>2. IsFiniteSet(below) /\ IsFiniteSet(above)
    <3> HIDE DEF below, above
    <3> QED BY <1>4, <2>1, FS_Subset
  <2>3. levels.recentLow \in below /\ levels.recentHigh \in above
    BY <1>2, <1>5
  <2> HIDE DEF below, above
  <2>4. QED BY <1>3, <2>1, <2>2, <2>3
<1>7. /\ Max(below) \in Int /\ \A v \in below : v <= Max(below)
      /\ Min(above) \in Int /\ \A v \in above : Min(above) <= v
  <2> HIDE DEF below, above
  <2> QED BY <1>6, Extremes
<1>8. near.support = Max(below) /\ near.resistance = Min(above)
  <2>1. near = [support |-> IF below = {} THEN None ELSE Max(below),
                resistance |-> IF above = {} THEN None ELSE Min(above)]
    BY DEF Nearest, known
  <2> HIDE DEF below, above, near
  <2>2. QED BY <1>6, <2>1
<1>9. ASSUME NEW l \in DOMAIN levels, levels[l] # None
      PROVE  levels[l] <= Max(below) \/ levels[l] >= Min(above)
  <2>1. levels[l] \in known
    BY <1>9 DEF known
  <2>2. levels[l] \in Int
    BY <1>3, <2>1
  <2>3. levels[l] \in below \/ levels[l] \in above
    BY <1>2, <2>1, <2>2
  <2> HIDE DEF below, above
  <2>4. QED BY <1>7, <2>2, <2>3
<1> HIDE DEF below, above, near
<1>10. QED BY <1>1, <1>7, <1>8, <1>9 DEF near

(* Levels enclose the prices of the recent candles. *)
LEMMA LevelsAreAround ==
  ASSUME NEW candles \in Charted, candles # << >>, NEW dailies \in Charted,
         NEW lookback \in Nat \ {0}, NEW window \in Nat \ {0}
  PROVE  LevelsEnclose(candles, dailies, lookback, window)
<1> DEFINE levels == Levels(candles, dailies, lookback, window)
<1>1. /\ DOMAIN levels = LevelNames /\ \A l \in LevelNames : levels[l] \in Figure
      /\ levels.recentHigh \in Int /\ levels.recentLow \in Int
  BY LevelsTyped
<1> HIDE DEF levels
<1>2. ASSUME NEW price \in levels.recentLow .. levels.recentHigh
      PROVE  LET near == Nearest(levels, price)
             IN  /\ near.support # None /\ near.resistance # None
                 /\ \A l \in DOMAIN levels :
                      levels[l] = None \/ levels[l] <= near.support \/ levels[l] >= near.resistance
  BY <1>1, LevelsAround
<1>3. QED BY <1>2, Zenon DEF LevelsEnclose, levels

(* The close before the day is the newest of an earlier day, and stays it  *)
(* when the day gets a candle of its own.                                  *)
LEMMA CloseOfTheDayBefore ==
  ASSUME NEW dailies \in Seq(Candle("day")), dailies # << >>,
         \A i, j \in DOMAIN dailies : i < j => dailies[i].day > dailies[j].day,
         NEW opened \in Candle("day"), NEW price, dailies[1].day <= opened.day
  PROVE  PreviousCloseStands(price, opened.day, dailies, opened)
<1> DEFINE n == Len(dailies)
           day == opened.day
           more == <<opened>> \o dailies
           close(ds) ==
             LET before == IF ds # << >> /\ SameMarketDate(day, Head(ds)) THEN Tail(ds) ELSE ds
             IN  IF before = << >> THEN None ELSE Head(before).close
           earlier == {i \in DOMAIN dailies : dailies[i].day < day}
<1>1. \A c \in Candle("day") : c.day \in Nat
  BY DEF Candle
<1>2. /\ n \in Nat /\ n # 0 /\ DOMAIN dailies = 1 .. n /\ Head(dailies) = dailies[1]
      /\ \A i \in 1 .. n : dailies[i].day \in Nat
  <2>1. n \in Nat /\ DOMAIN dailies = 1 .. n /\ \A i \in 1 .. n : dailies[i] \in Candle("day")
    BY LenProperties, ElementOfSeq
  <2>2. n # 0 /\ Head(dailies) = dailies[1]
    OBVIOUS
  <2>3. QED BY <1>1, <2>1, <2>2
<1>3. /\ Len(more) = n + 1 /\ more # << >> /\ Head(more) = opened
      /\ Len(Tail(more)) = n /\ Tail(more) # << >> /\ Head(Tail(more)) = dailies[1]
  <2>1. more \in Seq(Candle("day")) /\ Len(more) = n + 1 /\ more[1] = opened /\ more[2] = dailies[1]
    BY <1>2
  <2> HIDE DEF more
  <2>2. more # << >> /\ Head(more) = opened
    BY <1>2, <2>1
  <2>3. Tail(more) \in Seq(Candle("day")) /\ Len(Tail(more)) = n /\ Tail(more)[1] = more[2]
    BY <1>2, <2>1
  <2>4. Tail(more) # << >> /\ Head(Tail(more)) = Tail(more)[1]
    BY <1>2, <2>3
  <2>5. QED BY <2>1, <2>2, <2>3, <2>4
<1>4. day \in Nat /\ day # None
  BY <1>1, InputsAreTyped
<1>5. \A ds : DayFigures(price, day, ds).previousClose = close(ds)
  BY DEF DayFigures
<1>6. close(more) = dailies[1].close
  <2>1. SameMarketDate(day, Head(more))
    BY <1>3 DEF SameMarketDate
  <2> HIDE DEF more, day
  <2>2. QED BY <1>3, <2>1
<1> HIDE DEF more
<1>7. CASE dailies[1].day < day
  <2>1. ~SameMarketDate(day, Head(dailies))
    BY <1>2, <1>4, <1>7 DEF SameMarketDate
  <2>2. close(dailies) = dailies[1].close
    BY <1>2, <2>1
  <2>3. 1 \in earlier /\ \A i \in earlier : 1 <= i
    BY <1>2, <1>7
  <2>4. earlier \in SUBSET Int
    BY <1>2
  <2> HIDE DEF earlier
  <2>5. Min(earlier) = 1
    <3> DEFINE m == 1
    <3>1. m \in earlier /\ \A i \in earlier : m <= i
      BY <2>3
    <3> HIDE DEF m
    <3>2. Min(earlier) = m
      BY <2>4, <3>1, LeastOf
    <3>3. QED BY <3>2 DEF m
  <2>6. close(dailies) = IF earlier = {} THEN None ELSE dailies[Min(earlier)].close
    BY <2>2, <2>3, <2>5
  <2> HIDE DEF close
  <2>7. QED BY <1>5, <1>6, <2>2, <2>6 DEF PreviousCloseStands, earlier, more
<1>8. CASE ~(dailies[1].day < day)
  <2>1. dailies[1].day = day
    BY <1>2, <1>4, <1>8
  <2>2. SameMarketDate(day, Head(dailies))
    BY <1>2, <2>1 DEF SameMarketDate
  <2>3. close(dailies) = IF Tail(dailies) = << >> THEN None ELSE Head(Tail(dailies)).close
    BY <2>2
  <2>4. \A i \in 1 .. n : dailies[i].day < day <=> 1 < i
    BY <1>2, <2>1
  <2>5. earlier = 2 .. n
    BY <1>2, <2>4
  <2>6. close(dailies) = IF earlier = {} THEN None ELSE dailies[Min(earlier)].close
    <3>1. CASE n = 1
      <4>1. Tail(dailies) = << >>
        <5>1. Tail(dailies) \in Seq(Candle("day")) /\ Len(Tail(dailies)) = 0
          BY <1>2, <3>1
        <5>2. QED BY <5>1, EmptySeq
      <4>2. earlier = {}
        BY <2>5, <3>1
      <4>3. QED BY <2>3, <4>1, <4>2
    <3>2. CASE n # 1
      <4>1. Tail(dailies) # << >> /\ Head(Tail(dailies)) = dailies[2]
        BY <1>2, <3>2
      <4>2. 2 \in earlier /\ (\A i \in earlier : 2 <= i) /\ earlier \in SUBSET Int
        BY <1>2, <2>5, <3>2
      <4> HIDE DEF earlier, close
      <4>3. Min(earlier) = 2
        <5> DEFINE m == 2
        <5>1. m \in earlier /\ \A i \in earlier : m <= i
          BY <4>2
        <5> HIDE DEF m
        <5>2. Min(earlier) = m
          BY <4>2, <5>1, LeastOf
        <5>3. QED BY <5>2 DEF m
      <4>4. QED BY <2>3, <4>1, <4>2, <4>3
    <3>3. QED BY <3>1, <3>2
  <2> HIDE DEF close
  <2>7. ~(Head(dailies).day < day)
    BY <1>2, <1>8
  <2>8. QED BY <1>5, <2>6, <2>7 DEF PreviousCloseStands, earlier
<1>9. QED BY <1>7, <1>8

-----------------------------------------------------------------------------
(* Where the columns of a chart end. *)
UpTo(N, n, k) == (k * N) \div n

(* A quotient times its divisor is the dividend, but for less than that.   *)
LEMMA Quotient ==
  ASSUME NEW a \in Nat, NEW b \in Nat \ {0}
  PROVE  /\ a \div b \in Nat /\ (a \div b) * b <= a /\ a < (a \div b) * b + b
OBVIOUS

(* What has no greater multiple is no greater. *)
LEMMA ByMultiples ==
  ASSUME NEW p \in Int, NEW q \in Int, NEW b \in Nat \ {0}, p * b < q * b + b
  PROVE  p <= q
<1> SUFFICES ASSUME p >= q + 1 PROVE FALSE
  OBVIOUS
<1>1. q + 1 \in Int /\ b \in Nat
  OBVIOUS
<1> DEFINE r == q + 1
<1> HIDE DEF r
<1>2. r \in Int /\ r <= p /\ b \in Nat
  BY <1>1 DEF r
<1>3. b * r <= b * p
  BY <1>2, ProductOrder
<1>4. b * r = q * b + b /\ b * p = p * b
  BY DEF r
<1>5. q * b + b \in Int /\ p * b \in Int
  OBVIOUS
<1>6. QED BY <1>3, <1>4, <1>5

(* The ends go up from none to all. *)
LEMMA Ends ==
  ASSUME NEW N \in Nat, NEW n \in Nat \ {0}, n <= N
  PROVE  /\ UpTo(N, n, 0) = 0 /\ UpTo(N, n, n) = N
         /\ \A k \in 0 .. n : UpTo(N, n, k) \in 0 .. N
         /\ \A k \in 1 .. n : UpTo(N, n, k - 1) < UpTo(N, n, k)
<1>1. ASSUME NEW k \in 0 .. n
      PROVE  /\ k * N \in Nat /\ UpTo(N, n, k) \in Nat
             /\ UpTo(N, n, k) * n <= k * N /\ k * N < UpTo(N, n, k) * n + n
  <2> DEFINE a == k * N
  <2>1. a \in Nat
    OBVIOUS
  <2> HIDE DEF a
  <2>2. a \div n \in Nat /\ (a \div n) * n <= a /\ a < (a \div n) * n + n
    BY <2>1, Quotient
  <2>3. QED BY <2>1, <2>2 DEF UpTo, a
<1>2. ASSUME NEW k \in 1 .. n PROVE UpTo(N, n, k - 1) < UpTo(N, n, k)
  <2> DEFINE p == UpTo(N, n, k - 1)
             q == UpTo(N, n, k)
             a == (k - 1) * N
             b == k * N
  <2>1. k - 1 \in 0 .. n /\ k \in 0 .. n
    OBVIOUS
  <2>2. p \in Nat /\ a \in Nat /\ p * n <= a /\ q \in Nat /\ b \in Nat /\ b < q * n + n
    BY <1>1, <2>1
  <2>3. b = a + N
    OBVIOUS
  <2> HIDE DEF p, q, a, b
  <2> DEFINE r == p + 1
  <2>4. r * n = p * n + n /\ p * n \in Int /\ q * n \in Int
    BY <2>2
  <2>5. r * n < q * n + n /\ r \in Int /\ q \in Int
    BY <2>2, <2>3, <2>4
  <2> HIDE DEF r
  <2>6. r <= q
    BY <2>5, ByMultiples
  <2>7. QED BY <2>2, <2>6 DEF r, p, q
<1>3. UpTo(N, n, 0) = 0
  <2> DEFINE p == UpTo(N, n, 0)
  <2>1. p \in Nat /\ p * n <= 0
    <3>1. 0 \in 0 .. n /\ 0 * N = 0
      OBVIOUS
    <3>2. QED BY <1>1, <3>1
  <2> HIDE DEF p
  <2>2. p = 0
    <3>1. ASSUME p >= 1 PROVE FALSE
      <4>1. n * 1 <= n * p
        BY <2>1, <3>1, ProductOrder
      <4>2. n * p = p * n /\ n * 1 = n
        BY <2>1
      <4>3. QED BY <2>1, <4>1, <4>2
    <3>2. QED BY <2>1, <3>1
  <2>3. QED BY <2>2 DEF p
<1>4. UpTo(N, n, n) = N
  <2> DEFINE q == UpTo(N, n, n)
  <2>1. q \in Nat /\ q * n <= n * N /\ n * N < q * n + n
    <3>1. n \in 0 .. n
      OBVIOUS
    <3>2. QED BY <1>1, <3>1
  <2> HIDE DEF q
  <2>2. n * N = N * n /\ N * n \in Int /\ q * n \in Int
    BY <2>1
  <2>3. N * n < q * n + n /\ q * n < N * n + n
    BY <2>1, <2>2
  <2>4. N <= q /\ q <= N
    <3>1. N \in Int /\ q \in Int
      BY <2>1
    <3>2. QED BY <2>3, <3>1, ByMultiples
  <2>5. QED BY <2>1, <2>4 DEF q
<1>5. ASSUME NEW k \in 0 .. n PROVE UpTo(N, n, k) <= N
  <2> DEFINE q == UpTo(N, n, k)
             a == k * N
  <2>1. q \in Nat /\ q * n <= a /\ a \in Nat
    BY <1>1
  <2>2. a <= n * N
    <3>1. k \in Int /\ n \in Int /\ k <= n
      OBVIOUS
    <3>2. N * k <= N * n
      BY <3>1, ProductOrder
    <3>3. N * k = k * N /\ N * n = n * N
      OBVIOUS
    <3>4. QED BY <3>2, <3>3
  <2> HIDE DEF q, a
  <2>3. n * N = N * n /\ N * n \in Int /\ q * n \in Int
    BY <2>1
  <2>4. q * n < N * n + n
    BY <2>1, <2>2, <2>3
  <2>5. q <= N
    <3>1. N \in Int /\ q \in Int
      BY <2>1
    <3>2. QED BY <2>4, <3>1, ByMultiples
  <2>6. QED BY <2>5 DEF q
<1>6. ASSUME NEW k \in 0 .. n PROVE UpTo(N, n, k) \in 0 .. N
  <2> DEFINE q == UpTo(N, n, k)
  <2>1. q \in Nat /\ q <= N
    BY <1>1, <1>5
  <2> HIDE DEF q
  <2>2. q \in 0 .. N
    BY <2>1
  <2>3. QED BY <2>2 DEF q
<1>7. QED BY <1>2, <1>3, <1>4, <1>6

(* A sum over places in a row is the sum of the same numbers from 1 on. *)
LEMMA SumShifted ==
  ASSUME NEW f, NEW g, NEW a \in Int, NEW m \in Nat,
         \A i \in 1 .. m : f[a + i] \in Int /\ g[i] = f[a + i]
  PROVE  SumFunctionOnSet(g, 1 .. m) = SumFunctionOnSet(f, a + 1 .. a + m)
<1> DEFINE F == {k \in 0 .. m : SumFunctionOnSet(g, 1 .. k) = SumFunctionOnSet(f, a + 1 .. a + k)}
<1>1. 0 \in F
  <2>1. 1 .. 0 = {} /\ a + 1 .. a + 0 = {} /\ 0 \in 0 .. m
    OBVIOUS
  <2>2. SumFunctionOnSet(g, 1 .. 0) = 0 /\ SumFunctionOnSet(f, a + 1 .. a + 0) = 0
    BY <2>1, SumEmpty, Zenon
  <2>3. QED BY <2>1, <2>2
<1>2. ASSUME NEW k \in 0 .. m - 1, k \in F PROVE k + 1 \in F
  <2> DEFINE S == 1 .. k + 1
             T == a + 1 .. a + (k + 1)
             x == k + 1
             y == a + (k + 1)
  <2>1. /\ x \in S /\ y \in T /\ S \ {x} = 1 .. k /\ T \ {y} = a + 1 .. a + k /\ x \in 0 .. m /\ x \in 1 .. m
        /\ g[x] = f[y]
    OBVIOUS
  <2>2. IsFiniteSet(S) /\ IsFiniteSet(T)
    <3>1. 1 \in Int /\ k + 1 \in Int /\ a + 1 \in Int /\ a + (k + 1) \in Int
      OBVIOUS
    <3>2. QED BY ONLY <3>1, FS_Interval
  <2>3. \A i \in S : g[i] \in Int
    OBVIOUS
  <2>4. \A i \in T : f[i] \in Int
    <3>1. ASSUME NEW i \in T PROVE f[i] \in Int
      <4>1. i - a \in 1 .. m /\ a + (i - a) = i
        OBVIOUS
      <4>2. QED BY <4>1
    <3>2. QED BY <3>1
  <2> HIDE DEF S, T, x, y
  <2>5. SumFunctionOnSet(g, S) = g[x] + SumFunctionOnSet(g, S \ {x})
    BY <2>1, <2>2, <2>3, SumAny
  <2>6. SumFunctionOnSet(f, T) = f[y] + SumFunctionOnSet(f, T \ {y})
    BY <2>1, <2>2, <2>4, SumAny
  <2>7. SumFunctionOnSet(g, S \ {x}) = SumFunctionOnSet(f, T \ {y})
    BY <1>2, <2>1, Zenon
  <2>8. SumFunctionOnSet(g, S) = SumFunctionOnSet(f, T)
    BY <2>1, <2>5, <2>6, <2>7, Zenon
  <2>9. QED BY <2>1, <2>8 DEF S, T, x
<1> HIDE DEF F
<1>3. \A k \in 0 .. m : k \in F
  <2>1. 0 \in Int /\ m \in Int
    OBVIOUS
  <2>2. QED BY ONLY <1>1, <1>2, <2>1, EveryNumber
<1>4. m \in 0 .. m
  OBVIOUS
<1>5. QED BY <1>3, <1>4 DEF F

(* cuts divide N places into n runs, none of them empty. *)
Divides(cuts, N, n) ==
  /\ cuts[0] = 0 /\ cuts[n] = N
  /\ \A k \in 0 .. n : cuts[k] \in 0 .. N
  /\ \A k \in 1 .. n : cuts[k - 1] < cuts[k]

(* Every place is in one of the runs. *)
LEMMA PlaceInRun ==
  ASSUME NEW N \in Nat, NEW n \in Nat \ {0}, NEW cuts, Divides(cuts, N, n), NEW j \in 1 .. N
  PROVE  \E k \in 1 .. n : j \in cuts[k - 1] + 1 .. cuts[k]
<1> DEFINE S == {k \in 0 .. n : j <= cuts[k]}
<1>1. /\ cuts[0] = 0 /\ cuts[n] = N /\ \A k \in 0 .. n : cuts[k] \in 0 .. N
  BY DEF Divides
<1>2. S \in SUBSET Nat /\ n \in S
  <2>1. n \in 0 .. n
    OBVIOUS
  <2>2. QED BY <1>1, <2>1
<1>3. PICK k \in S : \A l \in S : k <= l
  <2> HIDE DEF S
  <2> QED BY <1>2, LeastNumber
<1>4. k \in 0 .. n /\ j <= cuts[k] /\ k # 0
  BY <1>1
<1>5. k - 1 \in 0 .. n /\ k - 1 \notin S /\ k \in 1 .. n
  <2>1. k - 1 \in 0 .. n /\ k \in 1 .. n /\ ~(k <= k - 1)
    BY <1>4
  <2> HIDE DEF S
  <2>2. QED BY <1>3, <2>1
<1>6. ~(j <= cuts[k - 1])
  BY <1>5
<1>7. cuts[k - 1] \in Int /\ cuts[k] \in Int
  BY <1>1, <1>4, <1>5
<1>8. j \in cuts[k - 1] + 1 .. cuts[k]
  <2> HIDE DEF S
  <2> QED BY <1>4, <1>6, <1>7
<1>9. QED BY <1>5, <1>8

(* The sums of the runs add up to the sum of all. *)
LEMMA RunsAddUp ==
  ASSUME NEW N \in Nat, NEW n \in Nat \ {0}, NEW cuts, Divides(cuts, N, n),
         NEW f, \A i \in 1 .. N : f[i] \in Int,
         NEW g, \A k \in 1 .. n : g[k] = SumFunctionOnSet(f, cuts[k - 1] + 1 .. cuts[k])
  PROVE  SumFunctionOnSet(g, 1 .. n) = SumFunctionOnSet(f, 1 .. N)
<1> DEFINE F == {k \in 0 .. n : SumFunctionOnSet(g, 1 .. k) = SumFunctionOnSet(f, 1 .. cuts[k])}
<1>1. /\ cuts[0] = 0 /\ cuts[n] = N /\ \A k \in 0 .. n : cuts[k] \in 0 .. N
      /\ \A k \in 1 .. n : cuts[k - 1] < cuts[k]
  BY DEF Divides
<1>2. 0 \in F
  <2>1. 1 .. 0 = {} /\ 0 \in 0 .. n
    OBVIOUS
  <2>2. 1 .. cuts[0] = {}
    BY <1>1, <2>1
  <2>3. SumFunctionOnSet(g, 1 .. 0) = 0 /\ SumFunctionOnSet(f, 1 .. cuts[0]) = 0
    BY <2>1, <2>2, SumEmpty, Zenon
  <2>4. QED BY <2>1, <2>3
<1>3. \A k \in 1 .. n : g[k] \in Int
  <2> SUFFICES ASSUME NEW k \in 1 .. n PROVE g[k] \in Int
    OBVIOUS
  <2> DEFINE a == cuts[k - 1] + 1
             b == cuts[k]
  <2>1. k - 1 \in 0 .. n /\ k \in 0 .. n
    OBVIOUS
  <2>2. a \in Int /\ b \in Int /\ \A i \in a .. b : i \in 1 .. N
    BY <1>1, <2>1
  <2> HIDE DEF a, b
  <2>3. IsFiniteSet(a .. b)
    BY <2>2, FS_Interval
  <2>4. \A i \in a .. b : f[i] \in Int
    BY <2>2
  <2>5. SumFunctionOnSet(f, a .. b) \in Int
    BY <2>3, <2>4, SumInt
  <2>6. QED BY <2>5 DEF a, b
<1>4. ASSUME NEW k \in 0 .. n - 1, k \in F PROVE k + 1 \in F
  <2> DEFINE x == k + 1
             c == cuts[k]
             d == cuts[k + 1]
             S == 1 .. x
             T == 1 .. d
             U == 1 .. c
             V == c + 1 .. d
  <2>1. x \in 1 .. n /\ x \in 0 .. n /\ k \in 0 .. n /\ x - 1 = k /\ x \in S /\ S \ {x} = 1 .. k /\ x \in Int
    OBVIOUS
  <2>2. c \in Nat /\ d \in Nat /\ c < d /\ d <= N
    BY <1>1, <2>1
  <2>3. g[x] = SumFunctionOnSet(f, V)
    BY <2>1
  <2> HIDE DEF x, c, d
  <2>4. IsFiniteSet(S) /\ IsFiniteSet(T)
    <3>1. 1 \in Int /\ x \in Int /\ d \in Int
      BY <2>1, <2>2
    <3>2. QED BY ONLY <3>1, FS_Interval
  <2>5. (\A i \in S : g[i] \in Int) /\ \A i \in T : f[i] \in Int
    <3>1. (\A i \in S : i \in 1 .. n) /\ \A i \in T : i \in 1 .. N
      BY <2>1, <2>2
    <3>2. QED BY <1>3, <3>1
  <2>6. U \in SUBSET T /\ T \ U = V
    BY <2>2
  <2> HIDE DEF S, T, U, V
  <2>7. SumFunctionOnSet(g, S) = g[x] + SumFunctionOnSet(g, S \ {x})
    <3>1. x \in S /\ IsFiniteSet(S) /\ \A i \in S : g[i] \in Int
      BY <2>1, <2>4, <2>5
    <3>2. QED BY ONLY <3>1, SumAny
  <2>8. SumFunctionOnSet(f, T) = SumFunctionOnSet(f, U) + SumFunctionOnSet(f, T \ U)
    BY <2>4, <2>5, <2>6, SumSplit
  <2>9. SumFunctionOnSet(g, S \ {x}) = SumFunctionOnSet(f, U)
    BY <1>4, <2>1, Zenon DEF U, c
  <2>10. SumFunctionOnSet(f, T \ U) = g[x]
    BY <2>3, <2>6, Zenon
  <2>11. SumFunctionOnSet(f, U) \in Int /\ g[x] \in Int
    <3>1. IsFiniteSet(U)
      BY <2>4, <2>6, FS_Subset
    <3>2. \A i \in U : f[i] \in Int
      BY <2>5, <2>6
    <3>3. QED BY <1>3, <2>1, <3>1, <3>2, SumInt
  <2>12. SumFunctionOnSet(g, S) = SumFunctionOnSet(f, T)
    BY <2>7, <2>8, <2>9, <2>10, <2>11
  <2>13. QED BY <2>1, <2>12 DEF S, T, x, d
<1> HIDE DEF F
<1>5. \A k \in 0 .. n : k \in F
  <2>1. 0 \in Int /\ n \in Int
    OBVIOUS
  <2>2. QED BY ONLY <1>2, <1>4, <2>1, EveryNumber
<1>6. n \in 0 .. n
  OBVIOUS
<1>7. SumFunctionOnSet(g, 1 .. n) = SumFunctionOnSet(f, 1 .. cuts[n])
  BY <1>5, <1>6 DEF F
<1>8. QED BY <1>1, <1>7, Zenon

(* The greatest of some numbers is the only one that is no less than any.  *)
LEMMA GreatestOf ==
  ASSUME NEW S \in SUBSET Int, NEW m \in S, \A x \in S : x <= m
  PROVE  Max(S) = m
<1>1. \A x \in S : (\A y \in S : x >= y) => x = m
  OBVIOUS
<1>2. \A y \in S : m >= y
  OBVIOUS
<1>3. QED BY <1>1, <1>2 DEF Max

(* c is the column of the candles from a to b: it opens with the first,    *)
(* closes with the last, has their extremes and their volume.              *)
ColumnOf(line, a, b, c) ==
  /\ c.open = line[a].open /\ c.close = line[b].close
  /\ c.high \in Int /\ (\A i \in a .. b : line[i].high <= c.high) /\ (\E i \in a .. b : line[i].high = c.high)
  /\ c.low \in Int /\ (\A i \in a .. b : c.low <= line[i].low) /\ (\E i \in a .. b : line[i].low = c.low)
  /\ c.volume = SumFunctionOnSet([i \in 1 .. Len(line) |-> line[i].volume], a .. b)

(* The column of a group of candles is one of its first to its last.       *)
LEMMA ColumnsAre ==
  ASSUME NEW line \in Charted, NEW a \in 1 .. Len(line), NEW b \in a .. Len(line)
  PROVE  ColumnOf(line, a, b, Column(SubSeq(line, a, b)))
<1> DEFINE N == Len(line)
           group == SubSeq(line, a, b)
           m == b - a + 1
           f == [i \in 1 .. N |-> line[i].volume]
           c == Column(group)
<1>1. /\ N \in Nat /\ a \in 1 .. N /\ b \in 1 .. N /\ a <= b
      /\ \A i \in 1 .. N : line[i] \in Candle("session") /\ line[i].volume \in Nat
                           /\ line[i].high \in Int /\ line[i].low \in Int
  <2>1. N \in Nat /\ \A i \in 1 .. N : line[i] \in Candle("session")
    BY ElementOfSeq, LenProperties DEF Charted
  <2>2. \A i \in 1 .. N : line[i].volume \in Nat /\ line[i].high \in Int /\ line[i].low \in Int
    BY ChartTyped
  <2>3. a \in 1 .. N /\ b \in 1 .. N /\ a <= b
    BY <2>1
  <2>4. QED BY <2>1, <2>2, <2>3
<1>2. m \in Nat \ {0} /\ group \in Charted /\ Len(group) = m /\ \A i \in 1 .. m : group[i] = line[a + i - 1]
  <2>1. a \in Int /\ b \in Int /\ a <= b /\ \A i \in a .. b : line[i] \in Candle("session")
    BY <1>1
  <2>2. /\ group \in Seq(Candle("session")) /\ Len(group) = IF a <= b THEN m ELSE 0
        /\ \A i \in 1 .. m : group[i] = line[a + i - 1]
    BY ONLY <2>1, SubSeqProperties
  <2>3. QED BY <2>1, <2>2 DEF Charted
<1>3. /\ \A i \in 1 .. m : a + i - 1 \in a .. b
      /\ \A i \in a .. b : i - a + 1 \in 1 .. m /\ group[i - a + 1] = line[i]
  <2>1. \A i \in a .. b : i - a + 1 \in 1 .. m /\ a + (i - a + 1) - 1 = i
    BY <1>1
  <2>2. \A i \in 1 .. m : a + i - 1 \in a .. b
    BY <1>1
  <2> HIDE DEF m, group
  <2>3. QED BY <1>2, <2>1, <2>2
<1>4. DOMAIN group = 1 .. m
  <2> HIDE DEF group, m
  <2>1. DOMAIN group = 1 .. Len(group)
    BY <1>2, ChartTyped
  <2>2. QED BY <1>2, <2>1
<1>5. Head(group) = line[a] /\ Last(group) = line[b]
  <2>1. group[1] = line[a] /\ group[m] = line[b]
    <3>1. 1 \in 1 .. m /\ m \in 1 .. m /\ a + 1 - 1 = a /\ a + m - 1 = b
      BY <1>1, <1>2
    <3> HIDE DEF group, m
    <3>2. QED BY <1>2, <3>1
  <2> HIDE DEF group, m
  <2>2. QED BY <1>2, <2>1 DEF Last, Charted
<1>6. Volume(group) = SumFunctionOnSet(f, a .. b)
  <2> DEFINE g == [i \in DOMAIN group |-> group[i].volume]
             d == a - 1
  <2>1. DOMAIN g = 1 .. m
    BY <1>4
  <2>2. \A i \in 1 .. m : d + i = a + i - 1 /\ f[d + i] = line[a + i - 1].volume /\ f[d + i] \in Int
    <3>1. \A i \in 1 .. m : a + i - 1 \in 1 .. N /\ d + i = a + i - 1
      BY <1>1
    <3> HIDE DEF m, d
    <3>2. QED BY <1>1, <3>1
  <2>3. \A i \in 1 .. m : g[i] = line[a + i - 1].volume
    <3> HIDE DEF m, group
    <3> QED BY <1>2, <1>4
  <2>4. d \in Int /\ d + 1 .. d + m = a .. b /\ m \in Nat
    BY <1>1
  <2> HIDE DEF g, f, m, d
  <2>5. SumFunctionOnSet(g, 1 .. m) = SumFunctionOnSet(f, d + 1 .. d + m)
    <3>1. \A i \in 1 .. m : f[d + i] \in Int /\ g[i] = f[d + i]
      BY <2>2, <2>3
    <3>2. d \in Int /\ m \in Nat
      BY <2>4
    <3>3. QED BY ONLY <3>1, <3>2, SumShifted
  <2>6. Volume(group) = SumFunctionOnSet(g, 1 .. m)
    BY <2>1, Zenon DEF Volume, SumFunction, g
  <2>7. QED BY <2>4, <2>5, <2>6, Zenon
<1> DEFINE H == {x.high : x \in ToSet(group)}
           L == {x.low : x \in ToSet(group)}
<1>7. c = [open |-> Head(group).open, close |-> Last(group).close, high |-> Max(H), low |-> Min(L),
           volume |-> Volume(group)]
  BY DEF Column
<1> HIDE DEF group, m, c, f
<1>8. ToSet(group) = {group[i] : i \in 1 .. m}
  BY <1>4 DEF ToSet
<1>9. H = {group[i].high : i \in 1 .. m} /\ L = {group[i].low : i \in 1 .. m}
  BY <1>8
<1>10. /\ H \in SUBSET Int /\ IsFiniteSet(H) /\ H # {} /\ L \in SUBSET Int /\ IsFiniteSet(L) /\ L # {}
  <2> DEFINE P == 1 .. m
  <2>1. P \in SUBSET (1 .. Len(group)) /\ P # {}
    <3>1. 1 \in P
      BY <1>2
    <3>2. P = 1 .. Len(group)
      BY <1>2, Zenon
    <3>3. QED BY <3>1, <3>2
  <2>2. H = {x.high : x \in {group[i] : i \in P}} /\ L = {x.low : x \in {group[i] : i \in P}}
    BY <1>8
  <2> HIDE DEF H, L, P
  <2>3. LET HH == {x.high : x \in {group[i] : i \in P}}
            LL == {x.low : x \in {group[i] : i \in P}}
        IN  /\ HH \in SUBSET Int /\ IsFiniteSet(HH) /\ HH # {}
            /\ LL \in SUBSET Int /\ IsFiniteSet(LL) /\ LL # {}
    BY <1>2, <2>1, HighsAndLows
  <2>4. QED BY <2>2, <2>3, Zenon
<1> HIDE DEF H, L
<1>11. /\ Max(H) \in H /\ Max(H) \in Int /\ \A x \in H : x <= Max(H)
       /\ Min(L) \in L /\ Min(L) \in Int /\ \A x \in L : Min(L) <= x
  BY <1>10, Extremes
<1>12. ASSUME NEW i \in a .. b PROVE line[i].high <= Max(H) /\ Min(L) <= line[i].low
  <2>1. i - a + 1 \in 1 .. m /\ group[i - a + 1] = line[i]
    BY <1>3
  <2>2. line[i].high \in H /\ line[i].low \in L
    BY <1>9, <2>1
  <2>3. QED BY <1>11, <2>2
<1>13. (\E i \in a .. b : line[i].high = Max(H)) /\ \E i \in a .. b : line[i].low = Min(L)
  <2>1. PICK i \in 1 .. m : group[i].high = Max(H)
    BY <1>9, <1>11
  <2>2. PICK j \in 1 .. m : group[j].low = Min(L)
    BY <1>9, <1>11
  <2>3. a + i - 1 \in a .. b /\ group[i] = line[a + i - 1] /\ a + j - 1 \in a .. b /\ group[j] = line[a + j - 1]
    BY <1>2, <1>3
  <2>4. QED BY <2>1, <2>2, <2>3
<1>14. c.open = line[a].open /\ c.close = line[b].close /\ c.high = Max(H) /\ c.low = Min(L)
       /\ c.volume = SumFunctionOnSet(f, a .. b)
  BY <1>5, <1>6, <1>7
<1>15. QED BY <1>11, <1>12, <1>13, <1>14 DEF ColumnOf, c, group, f

(* However few the columns, the chart stays what it is. *)
Keeps(line, n, drawn) ==
  /\ Len(drawn) = Min({n, Len(line)})
  /\ Volume(drawn) = Volume(line)
  /\ Max({c.high : c \in ToSet(drawn)}) = Max({c.high : c \in ToSet(line)})
  /\ Min({c.low : c \in ToSet(drawn)}) = Min({c.low : c \in ToSet(line)})
  /\ Head(drawn).open = Head(line).open /\ Last(drawn).close = Last(line).close
  /\ \A c \in ToSet(drawn) : c.low <= Min({c.open, c.close}) /\ Max({c.open, c.close}) <= c.high

(* A chart with a column for every candle is the line itself. *)
LEMMA WideChart ==
  ASSUME NEW line \in Charted, NEW n \in Nat, Len(line) <= n
  PROVE  Keeps(line, n, line)
<1> DEFINE N == Len(line)
<1>1. N \in Nat /\ ToSet(line) = {line[i] : i \in 1 .. N}
  BY ChartTyped DEF ToSet
<1>2. N = Min({n, N})
  <2>1. n \in Int /\ N \in Int
    BY <1>1
  <2> HIDE DEF N
  <2>2. Min({n, N}) = IF n <= N THEN n ELSE N
    BY <2>1, OfTwo
  <2>3. N <= n
    BY DEF N
  <2>4. QED BY <2>1, <2>2, <2>3
<1>3. ASSUME NEW c \in ToSet(line)
      PROVE  c.low <= Min({c.open, c.close}) /\ Max({c.open, c.close}) <= c.high
  <2>1. PICK i \in 1 .. N : c = line[i]
    BY <1>1
  <2> DEFINE o == c.open
             e == c.close
             l == c.low
             h == c.high
  <2>2. o \in Int /\ e \in Int /\ l \in Int /\ h \in Int /\ l <= o /\ l <= e /\ o <= h /\ e <= h
    BY <2>1, ChartTyped
  <2> HIDE DEF o, e, l, h
  <2>3. Max({o, e}) = (IF o >= e THEN o ELSE e) /\ Min({o, e}) = IF o <= e THEN o ELSE e
    BY <2>2, OfTwo
  <2>4. l <= Min({o, e}) /\ Max({o, e}) <= h
    BY <2>2, <2>3
  <2>5. QED BY <2>4 DEF o, e, l, h
<1>4. QED BY <1>2, <1>3 DEF Keeps

(* A chart drawn in columns for the runs it is divided into.               *)
LEMMA DividedChart ==
  ASSUME NEW line \in Charted, NEW n \in Nat \ {0}, n < Len(line),
         NEW cuts, Divides(cuts, Len(line), n),
         NEW drawn, Len(drawn) = n, DOMAIN drawn = 1 .. n, Head(drawn) = drawn[1], Last(drawn) = drawn[n],
         \A k \in 1 .. n : ColumnOf(line, cuts[k - 1] + 1, cuts[k], drawn[k])
  PROVE  Keeps(line, n, drawn)
<1> DEFINE N == Len(line)
           f == [i \in 1 .. N |-> line[i].volume]
           H == {c.high : c \in ToSet(line)}
           L == {c.low : c \in ToSet(line)}
           H1 == {c.high : c \in ToSet(drawn)}
           L1 == {c.low : c \in ToSet(drawn)}
<1>1. /\ N \in Nat /\ n < N /\ DOMAIN line = 1 .. N
      /\ \A i \in 1 .. N : /\ line[i].volume \in Nat /\ line[i].high \in Int /\ line[i].low \in Int
                           /\ line[i].open \in Int /\ line[i].close \in Int
                           /\ line[i].low <= line[i].open /\ line[i].open <= line[i].high
                           /\ line[i].low <= line[i].close /\ line[i].close <= line[i].high
  BY ChartTyped
<1>2. /\ cuts[0] = 0 /\ cuts[n] = N /\ \A k \in 0 .. n : cuts[k] \in 0 .. N
      /\ \A k \in 1 .. n : cuts[k - 1] < cuts[k]
  BY DEF Divides
<1>3. ASSUME NEW k \in 1 .. n
      PROVE  /\ cuts[k - 1] + 1 \in 1 .. N /\ cuts[k] \in 1 .. N /\ cuts[k - 1] + 1 <= cuts[k]
             /\ \A i \in cuts[k - 1] + 1 .. cuts[k] : i \in 1 .. N
  <2>1. k - 1 \in 0 .. n /\ k \in 0 .. n
    OBVIOUS
  <2>2. cuts[k - 1] \in 0 .. N /\ cuts[k] \in 0 .. N /\ cuts[k - 1] < cuts[k]
    BY <1>2, <2>1
  <2> HIDE DEF N
  <2>3. QED BY <1>1, <2>2
<1>4. ToSet(line) = {line[i] : i \in 1 .. N} /\ ToSet(drawn) = {drawn[k] : k \in 1 .. n}
  BY <1>1 DEF ToSet
<1> HIDE DEF N
<1>5. H = {line[i].high : i \in 1 .. N} /\ L = {line[i].low : i \in 1 .. N}
      /\ H1 = {drawn[k].high : k \in 1 .. n} /\ L1 = {drawn[k].low : k \in 1 .. n}
  BY <1>4
<1>6. H \in SUBSET Int /\ IsFiniteSet(H) /\ H # {} /\ L \in SUBSET Int /\ IsFiniteSet(L) /\ L # {}
  <2> DEFINE P == 1 .. N
  <2>1. P \in SUBSET (1 .. Len(line)) /\ P # {}
    <3>1. 1 \in P
      BY <1>1
    <3>2. P = 1 .. Len(line)
      BY DEF N
    <3>3. QED BY <3>1, <3>2
  <2>2. H = {x.high : x \in {line[i] : i \in P}} /\ L = {x.low : x \in {line[i] : i \in P}}
    BY <1>4
  <2> HIDE DEF H, L, P
  <2>3. LET HH == {x.high : x \in {line[i] : i \in P}}
            LL == {x.low : x \in {line[i] : i \in P}}
        IN  /\ HH \in SUBSET Int /\ IsFiniteSet(HH) /\ HH # {}
            /\ LL \in SUBSET Int /\ IsFiniteSet(LL) /\ LL # {}
    BY <2>1, HighsAndLows
  <2>4. QED BY <2>2, <2>3, Zenon
<1> HIDE DEF H, L, H1, L1
<1> DEFINE top == Max(H)
           bottom == Min(L)
<1>7. top \in H /\ top \in Int /\ bottom \in L /\ bottom \in Int
      /\ (\A x \in H : x <= top) /\ \A x \in L : bottom <= x
  BY <1>6, Extremes
<1> HIDE DEF top, bottom
<1> DEFINE a(k) == cuts[k - 1] + 1
           b(k) == cuts[k]
<1>8. \A k \in 1 .. n :
        /\ drawn[k].open = line[a(k)].open /\ drawn[k].close = line[b(k)].close
        /\ drawn[k].high \in Int /\ (\A i \in a(k) .. b(k) : line[i].high <= drawn[k].high)
        /\ (\E i \in a(k) .. b(k) : line[i].high = drawn[k].high)
        /\ drawn[k].low \in Int /\ (\A i \in a(k) .. b(k) : drawn[k].low <= line[i].low)
        /\ (\E i \in a(k) .. b(k) : line[i].low = drawn[k].low)
        /\ drawn[k].volume = SumFunctionOnSet(f, a(k) .. b(k))
  BY DEF ColumnOf, N
<1>9. \A k \in 1 .. n : /\ a(k) \in 1 .. N /\ b(k) \in 1 .. N /\ a(k) \in a(k) .. b(k) /\ b(k) \in a(k) .. b(k)
                       /\ \A i \in a(k) .. b(k) : i \in 1 .. N
  <2> SUFFICES ASSUME NEW k \in 1 .. n
               PROVE  /\ a(k) \in 1 .. N /\ b(k) \in 1 .. N /\ a(k) \in a(k) .. b(k) /\ b(k) \in a(k) .. b(k)
                      /\ \A i \in a(k) .. b(k) : i \in 1 .. N
    OBVIOUS
  <2>1. a(k) \in 1 .. N /\ b(k) \in 1 .. N /\ a(k) <= b(k) /\ \A i \in a(k) .. b(k) : i \in 1 .. N
    BY <1>3
  <2> HIDE DEF a, b
  <2>2. QED BY <1>1, <2>1
<1>10. Max(H1) = top
  <2>1. ASSUME NEW x \in H1 PROVE x \in Int /\ x <= top
    <3>1. PICK k \in 1 .. n : x = drawn[k].high
      BY <1>5
    <3>2. PICK i \in a(k) .. b(k) : line[i].high = drawn[k].high
      BY <1>8
    <3>3. i \in 1 .. N
      BY <1>9
    <3>4. QED BY <1>1, <1>5, <1>7, <3>1, <3>2, <3>3
  <2>2. top \in H1
    <3>1. PICK i \in 1 .. N : line[i].high = top
      BY <1>5, <1>7
    <3>2. PICK k \in 1 .. n : i \in a(k) .. b(k)
      <4>1. \E k \in 1 .. n : i \in cuts[k - 1] + 1 .. cuts[k]
        BY <1>1, PlaceInRun DEF N
      <4>2. QED BY <4>1
    <3>3. top <= drawn[k].high /\ drawn[k].high \in Int
      BY <1>8, <3>1, <3>2
    <3>4. drawn[k].high \in H1
      BY <1>5
    <3>5. drawn[k].high <= top
      BY <2>1, <3>4
    <3>6. drawn[k].high = top
      BY <1>7, <3>3, <3>5
    <3>7. QED BY <3>4, <3>6
  <2>3. H1 \in SUBSET Int
    BY <2>1
  <2>4. QED BY <2>1, <2>2, <2>3, GreatestOf
<1>11. Min(L1) = bottom
  <2>1. ASSUME NEW x \in L1 PROVE x \in Int /\ bottom <= x
    <3>1. PICK k \in 1 .. n : x = drawn[k].low
      BY <1>5
    <3>2. PICK i \in a(k) .. b(k) : line[i].low = drawn[k].low
      BY <1>8
    <3>3. i \in 1 .. N
      BY <1>9
    <3>4. QED BY <1>1, <1>5, <1>7, <3>1, <3>2, <3>3
  <2>2. bottom \in L1
    <3>1. PICK i \in 1 .. N : line[i].low = bottom
      BY <1>5, <1>7
    <3>2. PICK k \in 1 .. n : i \in a(k) .. b(k)
      <4>1. \E k \in 1 .. n : i \in cuts[k - 1] + 1 .. cuts[k]
        BY <1>1, PlaceInRun DEF N
      <4>2. QED BY <4>1
    <3>3. drawn[k].low <= bottom /\ drawn[k].low \in Int
      BY <1>8, <3>1, <3>2
    <3>4. drawn[k].low \in L1
      BY <1>5
    <3>5. bottom <= drawn[k].low
      BY <2>1, <3>4
    <3>6. drawn[k].low = bottom
      BY <1>7, <3>3, <3>5
    <3>7. QED BY <3>4, <3>6
  <2>3. L1 \in SUBSET Int
    BY <2>1
  <2>4. QED BY <2>1, <2>2, <2>3, LeastOf
<1>12. Volume(drawn) = Volume(line)
  <2> DEFINE g == [k \in 1 .. n |-> drawn[k].volume]
  <2>1. \A k \in 1 .. n : g[k] = SumFunctionOnSet(f, cuts[k - 1] + 1 .. cuts[k])
    BY <1>8
  <2>2. \A i \in 1 .. N : f[i] \in Int
    BY <1>1
  <2>3. DOMAIN g = 1 .. n /\ DOMAIN f = 1 .. N
    OBVIOUS
  <2>4. Volume(drawn) = SumFunction(g) /\ Volume(line) = SumFunction(f)
    BY <1>1 DEF Volume
  <2> HIDE DEF f, g, a, b
  <2>5. SumFunctionOnSet(g, 1 .. n) = SumFunctionOnSet(f, 1 .. N)
    <3>1. N \in Nat /\ n \in Nat \ {0} /\ Divides(cuts, N, n)
      BY <1>1 DEF N
    <3>2. QED BY ONLY <2>1, <2>2, <3>1, RunsAddUp
  <2>6. QED BY <2>3, <2>4, <2>5, Zenon DEF SumFunction
<1>13. Head(drawn).open = Head(line).open /\ Last(drawn).close = Last(line).close
  <2>1. drawn[1].open = line[a(1)].open /\ drawn[n].close = line[b(n)].close
    <3>1. 1 \in 1 .. n /\ n \in 1 .. n
      OBVIOUS
    <3> HIDE DEF a, b
    <3>2. QED BY <1>8, <3>1
  <2>2. a(1) = 1 /\ b(n) = N
    <3>1. 1 - 1 = 0
      OBVIOUS
    <3>2. QED BY <1>2, <3>1
  <2>3. Head(line) = line[1] /\ Last(line) = line[N]
    BY <1>1 DEF Last, Charted, N
  <2>4. QED BY <2>1, <2>2, <2>3
<1>14. ASSUME NEW c \in ToSet(drawn)
       PROVE  c.low <= Min({c.open, c.close}) /\ Max({c.open, c.close}) <= c.high
  <2>1. PICK k \in 1 .. n : c = drawn[k]
    BY <1>4
  <2> DEFINE o == c.open
             e == c.close
             l == c.low
             h == c.high
  <2>2. o \in Int /\ e \in Int /\ l \in Int /\ h \in Int /\ l <= o /\ l <= e /\ o <= h /\ e <= h
    <3> DEFINE p == line[a(k)]
               q == line[b(k)]
    <3>1. /\ a(k) \in 1 .. N /\ b(k) \in 1 .. N /\ a(k) \in a(k) .. b(k) /\ b(k) \in a(k) .. b(k)
      BY <1>9
    <3>2. /\ o = p.open /\ e = q.close /\ h \in Int /\ l \in Int
          /\ p.high <= h /\ q.high <= h /\ l <= p.low /\ l <= q.low
      <4> HIDE DEF a, b
      <4> QED BY <1>8, <2>1, <3>1
    <3>3. /\ p.high \in Int /\ p.low \in Int /\ p.open \in Int /\ p.low <= p.open /\ p.open <= p.high
          /\ q.high \in Int /\ q.low \in Int /\ q.close \in Int /\ q.low <= q.close /\ q.close <= q.high
      <4> HIDE DEF a, b
      <4> QED BY <1>1, <3>1
    <3> HIDE DEF p, q, o, e, l, h, a, b
    <3>4. QED BY <3>2, <3>3
  <2> HIDE DEF o, e, l, h
  <2>3. Max({o, e}) = (IF o >= e THEN o ELSE e) /\ Min({o, e}) = IF o <= e THEN o ELSE e
    BY <2>2, OfTwo
  <2>4. l <= Min({o, e}) /\ Max({o, e}) <= h
    BY <2>2, <2>3
  <2>5. QED BY <2>4 DEF o, e, l, h
<1>15. Len(drawn) = Min({n, N})
  <2>1. n \in Int /\ N \in Int /\ n <= N
    BY <1>1
  <2>2. Min({n, N}) = IF n <= N THEN n ELSE N
    BY <2>1, OfTwo
  <2>3. QED BY <2>1, <2>2
<1>16. QED BY <1>10, <1>11, <1>12, <1>13, <1>14, <1>15 DEF Keeps, N, H, L, H1, L1, top, bottom

(* A chart in fewer columns than candles. *)
LEMMA NarrowChart ==
  ASSUME NEW line \in Charted, NEW n \in Nat \ {0}, n < Len(line)
  PROVE  Keeps(line, n, Downsample(line, n))
<1> DEFINE N == Len(line)
           cuts == [k \in 0 .. n |-> UpTo(N, n, k)]
           col(k) == Column(SubSeq(line, cuts[k - 1] + 1, cuts[k]))
           drawn == [k \in 1 .. n |-> col(k)]
<1>1. N \in Nat /\ n < N
  BY ChartTyped
<1>2. Divides(cuts, N, n)
  <2>1. /\ UpTo(N, n, 0) = 0 /\ UpTo(N, n, n) = N
        /\ \A k \in 0 .. n : UpTo(N, n, k) \in 0 .. N
        /\ \A k \in 1 .. n : UpTo(N, n, k - 1) < UpTo(N, n, k)
    <3>1. N \in Nat /\ n <= N
      BY <1>1
    <3> HIDE DEF N
    <3>2. QED BY <3>1, Ends
  <2>2. 0 \in 0 .. n /\ n \in 0 .. n /\ \A k \in 1 .. n : k - 1 \in 0 .. n /\ k \in 0 .. n
    OBVIOUS
  <2>3. \A k \in 0 .. n : cuts[k] = UpTo(N, n, k)
    OBVIOUS
  <2> HIDE DEF cuts
  <2>4. QED BY <2>1, <2>2, <2>3 DEF Divides
<1>3. Downsample(line, n) = drawn
  <2>1. ~(N <= n)
    BY <1>1
  <2> DEFINE upTo(k) == (k * Len(line)) \div n
  <2>2. Downsample(line, n) = [k \in 1 .. n |-> Column(SubSeq(line, upTo(k - 1) + 1, upTo(k)))]
    BY <2>1 DEF Downsample
  <2>3. \A k \in 1 .. n : cuts[k - 1] = upTo(k - 1) /\ cuts[k] = upTo(k)
    <3>1. \A k \in 1 .. n : k - 1 \in 0 .. n /\ k \in 0 .. n
      OBVIOUS
    <3>2. \A k \in 0 .. n : cuts[k] = upTo(k)
      BY DEF UpTo
    <3> HIDE DEF cuts, upTo
    <3>3. QED BY <3>1, <3>2
  <2> HIDE DEF cuts, upTo
  <2>4. QED BY <2>2, <2>3
<1> HIDE DEF cuts
<1>4. \A k \in 1 .. n : ColumnOf(line, cuts[k - 1] + 1, cuts[k], drawn[k])
  <2> SUFFICES ASSUME NEW k \in 1 .. n
               PROVE  ColumnOf(line, cuts[k - 1] + 1, cuts[k], drawn[k])
    OBVIOUS
  <2> DEFINE a == cuts[k - 1] + 1
             b == cuts[k]
  <2>1. a \in 1 .. N /\ b \in a .. N
    <3>1. k - 1 \in 0 .. n /\ k \in 0 .. n
      OBVIOUS
    <3>2. cuts[k - 1] \in 0 .. N /\ cuts[k] \in 0 .. N /\ cuts[k - 1] < cuts[k]
      BY <1>2, <3>1 DEF Divides
    <3> HIDE DEF N
    <3>3. QED BY <1>1, <3>2
  <2>2. drawn[k] = Column(SubSeq(line, a, b))
    OBVIOUS
  <2> HIDE DEF a, b
  <2>3. ColumnOf(line, a, b, Column(SubSeq(line, a, b)))
    BY <2>1, ColumnsAre DEF N
  <2>4. QED BY <2>2, <2>3 DEF a, b
<1>5. Len(drawn) = n /\ DOMAIN drawn = 1 .. n /\ Head(drawn) = drawn[1] /\ Last(drawn) = drawn[n]
  <2>1. DOMAIN drawn = 1 .. n
    OBVIOUS
  <2> DEFINE X == {col(k) : k \in 1 .. n}
  <2>2. drawn \in [1 .. n -> X] /\ n \in Nat
    OBVIOUS
  <2> HIDE DEF drawn, X
  <2>3. drawn \in Seq(X) /\ Len(drawn) = n
    BY <2>2
  <2>4. Head(drawn) = drawn[1] /\ Last(drawn) = drawn[n]
    BY <2>3 DEF Last
  <2>5. QED BY <2>1, <2>3, <2>4
<1> HIDE DEF drawn
<1>6. Keeps(line, n, drawn)
  BY <1>1, <1>2, <1>4, <1>5, DividedChart DEF N
<1>7. QED BY <1>3, <1>6

(* Few columns keep the chart. *)
LEMMA ColumnsKeep ==
  ASSUME NEW candles \in Charted, candles # << >>
  PROVE  ColumnsKeepTheChart(candles)
<1> DEFINE line == Reverse(candles)
<1>1. line \in Charted
  <2>1. Len(candles) \in Nat /\ \A i \in 1 .. Len(candles) : candles[i] \in Candle("session")
    BY LenProperties, ElementOfSeq DEF Charted
  <2>2. line = [i \in 1 .. Len(candles) |-> candles[(Len(candles) - i) + 1]]
    BY DEF Reverse
  <2>3. \A i \in 1 .. Len(candles) : candles[(Len(candles) - i) + 1] \in Candle("session")
    BY <2>1
  <2> HIDE DEF line
  <2>4. QED BY <2>1, <2>2, <2>3 DEF Charted
<1> HIDE DEF line
<1>2. ASSUME NEW n \in 1 .. Len(line) + 1 PROVE Keeps(line, n, Downsample(line, n))
  <2>1. n \in Nat \ {0} /\ Len(line) \in Nat
    BY <1>1, ChartTyped
  <2>2. CASE Len(line) <= n
    <3>1. Downsample(line, n) = line
      BY <2>2 DEF Downsample
    <3>2. QED BY <1>1, <2>1, <2>2, <3>1, WideChart
  <2>3. CASE n < Len(line)
    BY <1>1, <2>1, <2>3, NarrowChart
  <2>4. QED BY <2>1, <2>2, <2>3
<1>3. QED BY <1>2, Zenon DEF ColumnsKeepTheChart, Keeps, line

-----------------------------------------------------------------------------
(* s holds the numbers of S in falling, or in rising, order. *)
Falls(s, S) ==
  /\ s \in [1 .. Cardinality(S) -> S]
  /\ \A i, j \in 1 .. Cardinality(S) : i < j => s[i] > s[j]

Rises(s, S) ==
  /\ s \in [1 .. Cardinality(S) -> S]
  /\ \A i, j \in 1 .. Cardinality(S) : i < j => s[i] < s[j]

(* Every finite set of numbers has an order. *)
LEMMA OrderExists ==
  ASSUME NEW S \in SUBSET Int, IsFiniteSet(S)
  PROVE  \E s : Falls(s, S)
<1> DEFINE F == {T \in SUBSET S : \E s : Falls(s, T)}
<1>1. {} \in F
  <2> DEFINE s == [i \in 1 .. 0 |-> i]
  <2>1. Cardinality({}) = 0
    BY FS_EmptySet
  <2>2. 1 .. 0 = {}
    OBVIOUS
  <2>3. s \in [1 .. 0 -> {}]
    BY <2>2
  <2>4. \A i, j \in 1 .. 0 : i < j => s[i] > s[j]
    BY <2>2
  <2> HIDE DEF s
  <2>5. Falls(s, {})
    BY <2>1, <2>3, <2>4 DEF Falls
  <2>6. QED BY <2>5
<1>2. ASSUME NEW T \in SUBSET S, T # {}, \A x \in T : T \ {x} \in F
      PROVE  T \in F
  <2> DEFINE m == Min(T)
             U == T \ {m}
             c == Cardinality(U)
  <2>1. IsFiniteSet(T) /\ T \in SUBSET Int
    BY FS_Subset
  <2>2. m \in T /\ \A x \in T : m <= x
    BY <1>2, <2>1, Extremes
  <2> HIDE DEF m
  <2>3. IsFiniteSet(U) /\ m \notin U /\ T = U \cup {m}
    BY <2>1, <2>2, FS_RemoveElement
  <2>4. c \in Nat /\ Cardinality(T) = c + 1
    <3> HIDE DEF U
    <3> QED BY <2>3, FS_AddElement, FS_CardinalityType
  <2>5. PICK s : Falls(s, U)
    BY <1>2, <2>2
  <2> HIDE DEF c
  <2>6. s \in [1 .. c -> U] /\ \A i, j \in 1 .. c : i < j => s[i] > s[j]
    BY <2>5 DEF Falls, c
  <2> DEFINE new == [i \in 1 .. c + 1 |-> IF i = c + 1 THEN m ELSE s[i]]
  <2>7. \A i \in 1 .. c + 1 : i = c + 1 \/ (i \in 1 .. c /\ i # c + 1)
    BY <2>4
  <2>8. \A i \in 1 .. c : s[i] \in T /\ s[i] > m
    <3>1. \A i \in 1 .. c : s[i] \in U
      BY <2>6
    <3>2. \A u \in U : u \in T /\ u > m
      <4>1. \A u \in T : u \in Int
        BY <2>1
      <4>2. QED BY <2>2, <4>1
    <3> HIDE DEF U
    <3>3. QED BY <3>1, <3>2
  <2>9. new \in [1 .. c + 1 -> T]
    BY <2>2, <2>7, <2>8
  <2>10. ASSUME NEW i \in 1 .. c + 1, NEW j \in 1 .. c + 1, i < j
         PROVE  new[i] > new[j]
    <3>1. i \in 1 .. c /\ i # c + 1 /\ new[i] = s[i]
      BY <2>4, <2>10
    <3>2. CASE j = c + 1
      BY <2>8, <3>1, <3>2
    <3>3. CASE j # c + 1
      <4>1. j \in 1 .. c /\ new[j] = s[j]
        BY <2>7, <3>3
      <4> HIDE DEF new
      <4>2. QED BY <2>6, <2>10, <3>1, <4>1
    <3>4. QED BY <3>2, <3>3
  <2> HIDE DEF new
  <2>11. Falls(new, T)
    BY <2>4, <2>9, <2>10 DEF Falls
  <2>12. QED BY <2>11
<1>3. S \in F
  <2> HIDE DEF F
  <2> QED BY <1>1, <1>2, EverySubset
<1>4. QED BY <1>3

(* The falling order is what it is called. *)
LEMMA FallingIs ==
  ASSUME NEW S \in SUBSET Int, IsFiniteSet(S)
  PROVE  Falls(Falling(S), S)
<1>1. PICK s : Falls(s, S)
  BY OrderExists
<1>2. DOMAIN s = 1 .. Cardinality(S)
  BY <1>1 DEF Falls
<1>3. \E t \in [1 .. Cardinality(S) -> S] : \A i, j \in DOMAIN t : i < j => t[i] > t[j]
  BY <1>1, <1>2 DEF Falls
<1>4. Falling(S) \in [1 .. Cardinality(S) -> S]
      /\ \A i, j \in DOMAIN Falling(S) : i < j => Falling(S)[i] > Falling(S)[j]
  BY <1>3 DEF Falling
<1>5. DOMAIN Falling(S) = 1 .. Cardinality(S)
  BY <1>4
<1>6. QED BY <1>4, <1>5 DEF Falls

(* And so is the rising one. *)
LEMMA RisingIs ==
  ASSUME NEW S \in SUBSET Int, IsFiniteSet(S)
  PROVE  Rises(Rising(S), S)
<1> DEFINE c == Cardinality(S)
<1>1. PICK s : Falls(s, S)
  BY OrderExists
<1>2. c \in Nat
  BY FS_CardinalityType
<1>3. s \in [1 .. c -> S] /\ \A i, j \in 1 .. c : i < j => s[i] > s[j]
  BY <1>1 DEF Falls
<1> HIDE DEF c
<1> DEFINE t == [i \in 1 .. c |-> s[c + 1 - i]]
<1>4. \A i \in 1 .. c : c + 1 - i \in 1 .. c
  BY <1>2
<1>5. t \in [1 .. c -> S]
  BY <1>3, <1>4
<1>6. ASSUME NEW i \in 1 .. c, NEW j \in 1 .. c, i < j
      PROVE  t[i] < t[j]
  <2>1. c + 1 - j < c + 1 - i /\ c + 1 - i \in 1 .. c /\ c + 1 - j \in 1 .. c
    BY <1>2, <1>4, <1>6
  <2>2. s[c + 1 - j] > s[c + 1 - i]
    BY <1>3, <2>1
  <2>3. s[c + 1 - j] \in Int /\ s[c + 1 - i] \in Int
    BY <1>3, <2>1
  <2>4. QED BY <2>2, <2>3
<1> HIDE DEF t
<1>7. DOMAIN t = 1 .. c
  BY <1>5
<1>8. \E u \in [1 .. c -> S] : \A i, j \in DOMAIN u : i < j => u[i] < u[j]
  BY <1>5, <1>6, <1>7
<1>9. Rising(S) \in [1 .. c -> S]
      /\ \A i, j \in DOMAIN Rising(S) : i < j => Rising(S)[i] < Rising(S)[j]
  BY <1>8 DEF Rising, c
<1>10. DOMAIN Rising(S) = 1 .. c
  BY <1>9
<1>11. QED BY <1>9, <1>10 DEF Rises, c

(* An order leaves no number out. *)
LEMMA OrderIsOnto ==
  ASSUME NEW S \in SUBSET Int, IsFiniteSet(S), NEW s, Falls(s, S) \/ Rises(s, S)
  PROVE  \A x \in S : \E i \in 1 .. Cardinality(S) : s[i] = x
<1> DEFINE c == Cardinality(S)
           D == 1 .. c
<1>1. c \in Nat
  BY FS_CardinalityType
<1>2. s \in [D -> S] /\ \A i, j \in D : i < j => s[i] # s[j]
  <2>1. s \in [D -> S] /\ \A i, j \in D : i < j => s[i] > s[j] \/ s[i] < s[j]
    BY DEF Falls, Rises
  <2>2. \A i \in D : s[i] \in Int
    BY <2>1
  <2> HIDE DEF D
  <2>3. QED BY <2>1, <2>2
<1>3. \A i, j \in D : i # j => i < j \/ j < i
  BY <1>1
<1>4. s \in Injection(D, S)
  <2> HIDE DEF D
  <2> QED BY <1>2, <1>3 DEF Injection, IsInjective
<1>5. Cardinality(D) = c
  <2> HIDE DEF c
  <2>1. 1 \in Int /\ c \in Int
    BY <1>1
  <2>2. Cardinality(1 .. c) = IF 1 > c THEN 0 ELSE c - 1 + 1
    BY ONLY <2>1, FS_Interval
  <2>3. QED BY <1>1, <2>2
<1>6. s \in Surjection(D, S)
  <2> HIDE DEF D
  <2> QED BY <1>4, <1>5, FS_Injection
<1>7. QED BY <1>6 DEF Surjection

(* Whatever holds the numbers of S in falling order is the falling order.  *)
LEMMA FallingIsOne ==
  ASSUME NEW S \in SUBSET Int, IsFiniteSet(S), NEW n \in Nat, NEW s \in [1 .. n -> S],
         \A i, j \in 1 .. n : i < j => s[i] > s[j],
         \A x \in S : \E i \in 1 .. n : s[i] = x
  PROVE  Cardinality(S) = n /\ s = Falling(S)
<1> DEFINE t == Falling(S)
<1>1. Cardinality(S) = n
  <2>1. s \in Surjection(1 .. n, S)
    BY DEF Surjection
  <2>2. \A i, j \in 1 .. n : i # j => s[i] # s[j]
    <3>1. \A i \in 1 .. n : s[i] \in Int
      OBVIOUS
    <3>2. \A i, j \in 1 .. n : i # j => i < j \/ j < i
      OBVIOUS
    <3>3. QED BY <3>1, <3>2
  <2>3. s \in Injection(1 .. n, S)
    BY <2>2 DEF Injection, IsInjective
  <2>4. IsFiniteSet(1 .. n) /\ Cardinality(1 .. n) = n
    <3>1. 1 \in Int /\ n \in Int
      OBVIOUS
    <3>2. IsFiniteSet(1 .. n) /\ Cardinality(1 .. n) = IF 1 > n THEN 0 ELSE n - 1 + 1
      BY ONLY <3>1, FS_Interval
    <3>3. QED BY <3>2
  <2>5. QED BY <2>1, <2>3, <2>4, FS_Surjection
<1>2. Falls(t, S)
  BY FallingIs
<1>3. \A x \in S : \E i \in 1 .. n : t[i] = x
  <2> HIDE DEF t
  <2> QED BY <1>1, <1>2, OrderIsOnto
<1>4. t \in [1 .. n -> S] /\ \A i, j \in 1 .. n : i < j => t[i] > t[j]
  BY <1>1, <1>2 DEF Falls
<1> HIDE DEF t
<1> DEFINE F == {k \in 0 .. n : \A i \in 1 .. n : i <= k => s[i] = t[i]}
<1>5. 0 \in F
  OBVIOUS
<1>6. ASSUME NEW k \in 0 .. n - 1, k \in F PROVE k + 1 \in F
  <2> DEFINE m == k + 1
  <2>1. m \in 1 .. n /\ m \in 0 .. n /\ \A i \in 1 .. n : i <= m => (i <= k \/ i = m)
    OBVIOUS
  <2>2. \A i \in 1 .. n : i < m => s[i] = t[i]
    BY <1>6
  <2> HIDE DEF m
  <2>3. s[m] = t[m]
    <3>1. \A i \in 1 .. n : s[i] \in Int /\ t[i] \in Int
      BY <1>4
    <3>2. PICK a \in 1 .. n : s[a] = t[m]
      BY <1>4, <2>1
    <3>3. PICK b \in 1 .. n : t[b] = s[m]
      BY <1>3, <2>1
    <3>4. a >= m
      <4> SUFFICES ASSUME a < m PROVE FALSE
        BY <2>1
      <4>1. t[a] = t[m] /\ t[a] > t[m]
        BY <1>4, <2>1, <2>2, <3>2
      <4>2. QED BY <3>1, <2>1, <4>1
    <3>5. b >= m
      <4> SUFFICES ASSUME b < m PROVE FALSE
        BY <2>1
      <4>1. s[b] = s[m] /\ s[b] > s[m]
        BY <2>1, <2>2, <3>3
      <4>2. QED BY <3>1, <2>1, <4>1
    <3>6. s[m] >= s[a] /\ t[m] >= t[b]
      <4>1. a = m \/ m < a
        BY <2>1, <3>4
      <4>2. b = m \/ m < b
        BY <2>1, <3>5
      <4>3. s[m] >= s[a]
        BY <2>1, <3>1, <4>1
      <4>4. m < b => t[m] > t[b]
        BY <1>4, <2>1
      <4>5. t[m] \in Int /\ t[b] \in Int
        BY <2>1, <3>1
      <4>6. t[m] >= t[b]
        BY <4>2, <4>4, <4>5
      <4>7. QED BY <4>3, <4>6
    <3>7. QED BY <2>1, <3>1, <3>2, <3>3, <3>6
  <2>4. m \in F
    BY <2>1, <2>2, <2>3, <1>6
  <2>5. QED BY <2>4 DEF m
<1>7. n \in F
  <2>1. 0 \in Int /\ n \in Int /\ n \in 0 .. n
    OBVIOUS
  <2> HIDE DEF F
  <2>2. \A k \in 0 .. n : k \in F
    BY ONLY <1>5, <1>6, <2>1, EveryNumber
  <2>3. QED BY <2>1, <2>2
<1>8. s = t
  <2>1. \A i \in 1 .. n : s[i] = t[i]
    BY <1>7
  <2>2. QED BY <1>4, <2>1
<1>9. QED BY <1>1, <1>8 DEF t

(* A greater number goes before the falling order of the others.           *)
LEMMA FallingMore ==
  ASSUME NEW S \in SUBSET Int, IsFiniteSet(S), NEW x \in Int, \A y \in S : y < x
  PROVE  /\ Cardinality(S \cup {x}) = Cardinality(S) + 1
         /\ Falling(S \cup {x}) =
              [i \in 1 .. Cardinality(S) + 1 |-> IF i = 1 THEN x ELSE Falling(S)[i - 1]]
<1> DEFINE c == Cardinality(S)
           t == Falling(S)
           T == S \cup {x}
           s == [i \in 1 .. c + 1 |-> IF i = 1 THEN x ELSE t[i - 1]]
<1>1. c \in Nat /\ T \in SUBSET Int /\ IsFiniteSet(T)
  BY FS_CardinalityType, FS_AddElement
<1>2. Falls(t, S)
  BY FallingIs
<1>3. \A y \in S : \E i \in 1 .. c : t[i] = y
  BY <1>2, OrderIsOnto
<1>4. t \in [1 .. c -> S] /\ \A i, j \in 1 .. c : i < j => t[i] > t[j]
  BY <1>2 DEF Falls
<1> HIDE DEF c, t
<1>5. \A i \in 1 .. c + 1 : i # 1 => i - 1 \in 1 .. c
  BY <1>1
<1>6. s \in [1 .. c + 1 -> T]
  <2>1. \A i \in 1 .. c + 1 : (IF i = 1 THEN x ELSE t[i - 1]) \in T
    BY <1>4, <1>5
  <2> HIDE DEF T
  <2>2. QED BY <2>1
<1>7. ASSUME NEW i \in 1 .. c + 1, NEW j \in 1 .. c + 1, i < j
      PROVE  s[i] > s[j]
  <2>1. j # 1 /\ j - 1 \in 1 .. c /\ s[j] = t[j - 1]
    BY <1>1, <1>5, <1>7
  <2>2. CASE i = 1
    <3>1. s[i] = x /\ t[j - 1] \in S
      BY <1>4, <2>1, <2>2
    <3> HIDE DEF s
    <3>2. t[j - 1] < x /\ t[j - 1] \in Int
      BY <3>1
    <3>3. QED BY <2>1, <3>1, <3>2
  <2>3. CASE i # 1
    <3>1. i - 1 \in 1 .. c /\ i - 1 < j - 1 /\ s[i] = t[i - 1]
      BY <1>1, <1>5, <1>7, <2>3
    <3> HIDE DEF s
    <3>2. QED BY <1>4, <2>1, <3>1
  <2>4. QED BY <2>2, <2>3
<1>8. ASSUME NEW y \in T PROVE \E i \in 1 .. c + 1 : s[i] = y
  <2>1. CASE y = x
    <3>1. 1 \in 1 .. c + 1 /\ s[1] = x
      BY <1>1
    <3> HIDE DEF s
    <3>2. QED BY <2>1, <3>1
  <2>2. CASE y \in S
    <3>1. PICK i \in 1 .. c : t[i] = y
      BY <1>3, <2>2
    <3>2. i + 1 \in 1 .. c + 1 /\ i + 1 # 1 /\ (i + 1) - 1 = i
      BY <1>1
    <3>3. s[i + 1] = t[i]
      BY <3>2
    <3> HIDE DEF s
    <3>4. QED BY <3>1, <3>2, <3>3
  <2>3. QED BY <2>1, <2>2
<1> HIDE DEF s, T
<1>9. c + 1 \in Nat
  BY <1>1
<1>10. Cardinality(T) = c + 1 /\ s = Falling(T)
  BY <1>1, <1>6, <1>7, <1>8, <1>9, FallingIsOne
<1>11. QED BY <1>10 DEF s, c, t, T

(* The falling order begins with the greatest number.                      *)
LEMMA FallingHead ==
  ASSUME NEW S \in SUBSET Int, IsFiniteSet(S), NEW x \in S, \A y \in S : y <= x
  PROVE  Cardinality(S) \in Nat \ {0} /\ Falling(S)[1] = x
<1> DEFINE t == Falling(S)
           c == Cardinality(S)
<1>1. Falls(t, S)
  BY FallingIs
<1>2. c \in Nat /\ c # 0
  BY FS_CardinalityType, FS_EmptySet
<1>3. \A y \in S : \E i \in 1 .. c : t[i] = y
  BY <1>1, OrderIsOnto
<1>4. t \in [1 .. c -> S] /\ \A i, j \in 1 .. c : i < j => t[i] > t[j]
  BY <1>1 DEF Falls
<1> HIDE DEF t, c
<1>5. PICK i \in 1 .. c : t[i] = x
  BY <1>3
<1>6. i = 1
  <2> SUFFICES ASSUME i # 1 PROVE FALSE
    OBVIOUS
  <2>1. 1 \in 1 .. c /\ 1 < i
    BY <1>2
  <2>2. t[1] > x /\ t[1] \in S
    BY <1>4, <1>5, <2>1
  <2>3. t[1] <= x /\ t[1] \in Int
    BY <2>2
  <2>4. QED BY <2>2, <2>3
<1>7. QED BY <1>2, <1>5, <1>6 DEF t, c

-----------------------------------------------------------------------------
(* A sequence is known by its length and its places. *)
LEMMA FunctionIsSeq ==
  ASSUME NEW X, NEW n \in Nat, NEW s \in [1 .. n -> X]
  PROVE  s \in Seq(X) /\ Len(s) = n
<1>1. s \in Seq(X)
  BY SeqDef
<1>2. Len(s) \in Nat /\ DOMAIN s = 1 .. Len(s)
  BY <1>1, LenProperties
<1>3. 1 .. Len(s) = 1 .. n
  BY <1>2
<1>4. Len(s) = n
  <2> DEFINE l == Len(s)
  <2>1. l \in Nat /\ 1 .. l = 1 .. n
    BY <1>2, <1>3
  <2> HIDE DEF l
  <2>2. l = 0 \/ l \in 1 .. n
    BY <2>1
  <2>3. n = 0 \/ n \in 1 .. l
    BY <2>1
  <2>4. l = n
    BY <2>1, <2>2, <2>3
  <2>5. QED BY <2>4 DEF l
<1>5. QED BY <1>1, <1>4

(* What is kept is the newest part. *)
LEMMA KeptIs ==
  ASSUME NEW X, NEW s \in Seq(X)
  PROVE  /\ Kept(s) \in Seq(X)
         /\ Len(Kept(s)) = IF Len(s) < Limit THEN Len(s) ELSE Limit
         /\ \A i \in 1 .. Len(Kept(s)) : Kept(s)[i] = s[i]
<1> DEFINE l == Len(s)
           n == IF l < Limit THEN l ELSE Limit
<1>1. l \in Nat /\ Limit \in Nat \ {0}
  BY LenProperties, CandlesAssumption
<1>2. n \in Nat /\ n <= l
  BY <1>1
<1>3. Min({Limit, Len(s)}) = n
  <2>1. {Limit, Len(s)} \in SUBSET Int /\ n \in {Limit, Len(s)} /\ \A x \in {Limit, Len(s)} : n <= x
    BY <1>1
  <2> HIDE DEF n
  <2>2. QED BY <2>1, LeastOf
<1>4. \A i \in 1 .. n : s[i] \in X
  BY <1>1, <1>2, ElementOfSeq
<1>5. Kept(s) = SubSeq(s, 1, n)
  BY <1>3 DEF Kept
<1> HIDE DEF n
<1>6. /\ SubSeq(s, 1, n) \in Seq(X)
      /\ Len(SubSeq(s, 1, n)) = IF 1 <= n THEN n - 1 + 1 ELSE 0
      /\ \A i \in 1 .. n - 1 + 1 : SubSeq(s, 1, n)[i] = s[1 + i - 1]
  <2>1. 1 \in Int /\ n \in Int
    BY <1>2
  <2>2. QED BY ONLY <1>4, <2>1, SubSeqProperties
<1>7. Len(SubSeq(s, 1, n)) = n
  BY <1>2, <1>6
<1>8. \A i \in 1 .. n : SubSeq(s, 1, n)[i] = s[i]
  <2>1. \A i \in 1 .. n : i \in 1 .. n - 1 + 1 /\ 1 + i - 1 = i
    BY <1>2
  <2>2. QED BY <1>6, <2>1
<1>9. QED BY <1>5, <1>6, <1>7, <1>8 DEF n

(* A sequence kept whole is itself. *)
LEMMA KeptWhole ==
  ASSUME NEW X, NEW s \in Seq(X), Len(s) <= Limit
  PROVE  Kept(s) = s
<1>1. Len(s) \in Nat /\ Limit \in Nat
  BY LenProperties, CandlesAssumption
<1>2. Len(Kept(s)) = Len(s)
  BY <1>1, KeptIs
<1>3. QED BY <1>2, KeptIs, SeqEqual

(* To put an entry before what was kept keeps the newest of all. *)
LEMMA KeptGrows ==
  ASSUME NEW X, NEW s \in Seq(X), NEW e \in X, NEW t \in Seq(X),
         Len(t) = Len(s) + 1, t[1] = e, \A i \in 1 .. Len(s) : t[i + 1] = s[i]
  PROVE  Kept(<<e>> \o Kept(s)) = Kept(t)
<1> DEFINE k == Kept(s)
           u == <<e>> \o k
<1>1. k \in Seq(X) /\ Len(k) = (IF Len(s) < Limit THEN Len(s) ELSE Limit)
      /\ \A i \in 1 .. Len(k) : k[i] = s[i]
  BY KeptIs
<1>2. Len(s) \in Nat /\ Limit \in Nat \ {0} /\ Len(k) \in Nat
  BY <1>1, LenProperties, CandlesAssumption
<1> HIDE DEF k
<1>3. <<e>> \in Seq(X) /\ Len(<<e>>) = 1 /\ <<e>>[1] = e
  OBVIOUS
<1> DEFINE one == <<e>>
<1>4. /\ u \in Seq(X) /\ Len(u) = 1 + Len(k)
      /\ \A i \in 1 .. 1 + Len(k) : u[i] = IF i <= 1 THEN e ELSE k[i - 1]
  <2>1. one \in Seq(X) /\ Len(one) = 1 /\ one[1] = e
    BY <1>3
  <2>2. u = one \o k
    OBVIOUS
  <2> HIDE DEF one, u
  <2>3. /\ one \o k \in Seq(X) /\ Len(one \o k) = Len(one) + Len(k)
        /\ \A i \in 1 .. Len(one) + Len(k) : (one \o k)[i] = IF i <= Len(one) THEN one[i] ELSE k[i - Len(one)]
    BY ONLY <1>1, <2>1, ConcatProperties
  <2>4. \A i \in 1 .. 1 + Len(k) : i <= 1 => i = 1
    BY <1>2
  <2>5. QED BY <2>1, <2>2, <2>3, <2>4
<1> HIDE DEF u
<1>5. /\ Kept(u) \in Seq(X) /\ Len(Kept(u)) = (IF Len(u) < Limit THEN Len(u) ELSE Limit)
      /\ \A i \in 1 .. Len(Kept(u)) : Kept(u)[i] = u[i]
  BY <1>4, KeptIs
<1>6. /\ Kept(t) \in Seq(X) /\ Len(Kept(t)) = (IF Len(t) < Limit THEN Len(t) ELSE Limit)
      /\ \A i \in 1 .. Len(Kept(t)) : Kept(t)[i] = t[i]
  BY KeptIs
<1>7. Len(Kept(u)) = Len(Kept(t))
  BY <1>1, <1>2, <1>4, <1>5, <1>6
<1>8. ASSUME NEW i \in 1 .. Len(Kept(u)) PROVE u[i] = t[i]
  <2>1. Len(Kept(u)) \in Nat /\ Len(Kept(u)) <= 1 + Len(k)
    BY <1>2, <1>4, <1>5
  <2>2. i \in 1 .. 1 + Len(k)
    BY <1>2, <2>1
  <2>3. CASE i = 1
    BY <1>4, <2>2, <2>3
  <2>4. CASE i # 1
    <3>1. i - 1 \in 1 .. Len(k) /\ i - 1 \in 1 .. Len(s) /\ (i - 1) + 1 = i /\ ~(i <= 1)
      BY <1>1, <1>2, <2>2, <2>4
    <3>2. u[i] = k[i - 1] /\ k[i - 1] = s[i - 1]
      BY <1>1, <1>4, <2>2, <3>1
    <3>3. t[(i - 1) + 1] = s[i - 1]
      BY <3>1
    <3>4. QED BY <3>1, <3>2, <3>3
  <2>5. QED BY <2>3, <2>4
<1>9. Kept(u) = Kept(t)
  BY <1>5, <1>6, <1>7, <1>8, SeqEqual
<1>10. QED BY <1>9 DEF u, k

(* To replace the newest entry of what was kept replaces it in all. *)
LEMMA KeptChanges ==
  ASSUME NEW X, NEW s \in Seq(X), s # << >>, NEW e \in X, NEW t \in Seq(X),
         Len(t) = Len(s), t[1] = e, \A i \in 2 .. Len(s) : t[i] = s[i]
  PROVE  /\ Kept(s) # << >> /\ Head(Kept(s)) = s[1]
         /\ Kept(<<e>> \o Tail(Kept(s))) = Kept(t)
<1> DEFINE k == Kept(s)
           r == Tail(k)
           one == <<e>>
           u == one \o r
<1>1. k \in Seq(X) /\ Len(k) = (IF Len(s) < Limit THEN Len(s) ELSE Limit)
      /\ \A i \in 1 .. Len(k) : k[i] = s[i]
  BY KeptIs
<1>2. Len(s) \in Nat \ {0} /\ Limit \in Nat \ {0} /\ Len(k) \in Nat \ {0} /\ Len(k) <= Len(s)
  <2>1. Len(s) \in Nat \ {0}
    BY EmptySeq
  <2>2. QED BY <1>1, <2>1, CandlesAssumption
<1> HIDE DEF k
<1>3. k # << >> /\ 1 \in 1 .. Len(k)
  BY <1>2
<1>4. Head(k) = s[1]
  BY <1>1, <1>3
<1>5. r \in Seq(X) /\ Len(r) = Len(k) - 1 /\ \A i \in 1 .. Len(r) : r[i] = k[i + 1]
  BY <1>1, <1>3, HeadTailProperties
<1> HIDE DEF r
<1>6. one \in Seq(X) /\ Len(one) = 1 /\ one[1] = e
  OBVIOUS
<1> HIDE DEF one
<1>7. /\ u \in Seq(X) /\ Len(u) = 1 + Len(r)
      /\ \A i \in 1 .. 1 + Len(r) : u[i] = IF i <= 1 THEN one[i] ELSE r[i - 1]
  <2>1. /\ one \o r \in Seq(X) /\ Len(one \o r) = Len(one) + Len(r)
        /\ \A i \in 1 .. Len(one) + Len(r) : (one \o r)[i] = IF i <= Len(one) THEN one[i] ELSE r[i - Len(one)]
    <3>1. one \in Seq(X) /\ r \in Seq(X)
      BY <1>5, <1>6
    <3>2. QED BY ONLY <3>1, ConcatProperties
  <2>2. QED BY <1>6, <2>1
<1> HIDE DEF u
<1>8. Len(u) = Len(k) /\ Len(r) \in Nat
  BY <1>2, <1>5, <1>7
<1>9. /\ Kept(u) \in Seq(X) /\ Len(Kept(u)) = (IF Len(u) < Limit THEN Len(u) ELSE Limit)
      /\ \A i \in 1 .. Len(Kept(u)) : Kept(u)[i] = u[i]
  BY <1>7, KeptIs
<1>10. /\ Kept(t) \in Seq(X) /\ Len(Kept(t)) = (IF Len(t) < Limit THEN Len(t) ELSE Limit)
       /\ \A i \in 1 .. Len(Kept(t)) : Kept(t)[i] = t[i]
  BY KeptIs
<1>11. Len(Kept(u)) = Len(Kept(t)) /\ Len(Kept(u)) \in Nat /\ Len(Kept(u)) <= Len(k)
  BY <1>1, <1>2, <1>8, <1>9, <1>10
<1>12. ASSUME NEW i \in 1 .. Len(Kept(u)) PROVE u[i] = t[i]
  <2>1. i \in 1 .. Len(k) /\ i \in 1 .. 1 + Len(r)
    BY <1>2, <1>5, <1>8, <1>11
  <2>2. CASE i = 1
    <3>1. u[1] = one[1]
      BY <1>7, <2>1, <2>2
    <3>2. QED BY <1>6, <2>2, <3>1
  <2>3. CASE i # 1
    <3>1. i - 1 \in 1 .. Len(r) /\ (i - 1) + 1 = i /\ ~(i <= 1) /\ i \in 2 .. Len(s)
      BY <1>2, <1>5, <2>1, <2>3
    <3>2. u[i] = r[i - 1] /\ r[i - 1] = k[(i - 1) + 1]
      BY <1>5, <1>7, <2>1, <3>1
    <3>3. k[i] = s[i] /\ t[i] = s[i]
      BY <1>1, <2>1, <3>1
    <3>4. QED BY <3>1, <3>2, <3>3
  <2>4. QED BY <2>2, <2>3
<1>13. Kept(u) = Kept(t)
  BY <1>9, <1>10, <1>11, <1>12, SeqEqual
<1>14. QED BY <1>3, <1>4, <1>13 DEF u, r, one, k

-----------------------------------------------------------------------------
(* Live trades, and the candles they are folded into, by their types. *)
Moment == [at : Int, offset : Int]

LiveTrade == [moment : Moment, price : Int, volume : Int]

LiveCandle == [start : Moment, open : Int, high : Int, low : Int, close : Int, volume : Int]

(* Finitely many things have finitely many values. *)
LEMMA ImageIsFinite ==
  ASSUME NEW P, IsFiniteSet(P), NEW f
  PROVE  IsFiniteSet({f[i] : i \in P})
<1> DEFINE V == {f[i] : i \in P}
           g == [i \in P |-> f[i]]
<1>1. g \in Surjection(P, V)
  BY DEF Surjection
<1> HIDE DEF g, V
<1>2. IsFiniteSet(V)
  BY <1>1, FS_Surjection
<1>3. QED BY <1>2 DEF V

(* The greatest and the least of one number more. *)
LEMMA OneMoreExtreme ==
  ASSUME NEW H \in SUBSET Int, IsFiniteSet(H), H # {}, NEW p \in Int
  PROVE  /\ Max(H \cup {p}) = Max({Max(H), p})
         /\ Min(H \cup {p}) = Min({Min(H), p})
<1>1. /\ Max(H) \in H /\ \A x \in H : x <= Max(H)
      /\ Min(H) \in H /\ \A x \in H : Min(H) <= x
  BY Extremes
<1> DEFINE a == Max(H)
           b == Min(H)
           hi == IF p <= a THEN a ELSE p
           lo == IF b <= p THEN b ELSE p
           U == H \cup {p}
<1>2. a \in Int /\ b \in Int /\ a \in H /\ b \in H /\ (\A x \in H : x <= a /\ b <= x)
  BY <1>1
<1> HIDE DEF a, b
<1>3. U \in SUBSET Int /\ hi \in U /\ lo \in U
  BY <1>2
<1>4. \A x \in U : x <= hi /\ lo <= x
  <2>1. \A x \in H : x \in Int
    OBVIOUS
  <2>2. QED BY <1>2, <2>1
<1>5. {a, p} \in SUBSET Int /\ hi \in {a, p} /\ \A x \in {a, p} : x <= hi
  BY <1>2
<1>6. {b, p} \in SUBSET Int /\ lo \in {b, p} /\ \A x \in {b, p} : lo <= x
  BY <1>2
<1> HIDE DEF hi, lo, U
<1>7. Max(U) = hi /\ Max({a, p}) = hi
  BY <1>3, <1>4, <1>5, GreatestOf
<1>8. Min(U) = lo /\ Min({b, p}) = lo
  BY <1>3, <1>4, <1>6, LeastOf
<1>9. QED BY <1>7, <1>8 DEF U, a, b

(* The candle of one trade is the one it opens. *)
LEMMA CandleBegins ==
  ASSUME NEW trades, NEW starts, NEW m \in Int, trades[m] \in LiveTrade
  PROVE  CandleOf(trades, starts, {m}) = NewCandle(starts[m], trades[m])
<1> DEFINE p == trades[m].price
           H == {trades[i].price : i \in {m}}
           f == [i \in {m} |-> trades[i].volume]
<1>1. Min({m}) = m /\ Max({m}) = m
  BY LeastOf, GreatestOf
<1>2. H = {p}
  OBVIOUS
<1>3. p \in Int /\ trades[m].volume \in Int
  BY DEF LiveTrade
<1>4. Max(H) = p /\ Min(H) = p
  <2>1. Max({p}) = p /\ Min({p}) = p
    <3> HIDE DEF p
    <3> QED BY <1>3, LeastOf, GreatestOf
  <2>2. QED BY <1>2, <2>1
<1>5. SumFunction(f) = trades[m].volume
  <2> DEFINE D == {m}
  <2>1. IsFiniteSet(D) /\ D \ {m} = {}
    BY FS_Singleton
  <2>2. \A x \in D : f[x] \in Int
    BY <1>3
  <2>3. f[m] = trades[m].volume /\ DOMAIN f = D /\ m \in D
    OBVIOUS
  <2> HIDE DEF f, D
  <2>4. SumFunctionOnSet(f, D) = f[m] + SumFunctionOnSet(f, D \ {m})
    BY <2>1, <2>2, <2>3, SumAny
  <2>5. SumFunctionOnSet(f, D) = f[m] + 0
    BY <2>1, <2>4, SumEmpty
  <2>6. SumFunction(f) = SumFunctionOnSet(f, D)
    BY <2>3 DEF SumFunction
  <2>7. QED BY <1>3, <2>3, <2>5, <2>6
<1> HIDE DEF H, f
<1>6. CandleOf(trades, starts, {m}) =
        [start |-> starts[Min({m})], open |-> trades[Min({m})].price, close |-> trades[Max({m})].price,
         high |-> Max(H), low |-> Min(H), volume |-> SumFunction(f)]
  BY DEF CandleOf, H, f
<1>7. QED BY <1>1, <1>4, <1>5, <1>6 DEF NewCandle, p

(* A later trade changes the candle of the others. *)
LEMMA CandleGrows ==
  ASSUME NEW trades, NEW starts, NEW P \in SUBSET Int, IsFiniteSet(P), P # {},
         NEW m \in Int, \A i \in P : i < m, \A i \in P \cup {m} : trades[i] \in LiveTrade
  PROVE  CandleOf(trades, starts, P \cup {m}) = Updated(CandleOf(trades, starts, P), trades[m])
<1> DEFINE Q == P \cup {m}
           p == trades[m].price
           H == {trades[i].price : i \in P}
           HQ == {trades[i].price : i \in Q}
           f == [i \in P |-> trades[i].volume]
           fQ == [i \in Q |-> trades[i].volume]
<1>1. m \notin P /\ Q \ {m} = P /\ IsFiniteSet(Q) /\ Q \in SUBSET Int
  BY FS_AddElement
<1>2. Min(Q) = Min(P)
  <2>1. Min(P) \in P /\ \A x \in P : Min(P) <= x
    BY Extremes
  <2> DEFINE a == Min(P)
  <2>2. a \in P /\ a \in Int /\ (\A x \in P : a <= x) /\ a < m
    BY <2>1
  <2> HIDE DEF a
  <2>3. Q \in SUBSET Int /\ a \in Q /\ \A x \in Q : a <= x
    BY <2>2
  <2> HIDE DEF Q
  <2>4. Min(Q) = a
    BY <2>3, LeastOf
  <2>5. QED BY <2>4 DEF a
<1>3. Max(Q) = m
  <2>1. Q \in SUBSET Int /\ m \in Q /\ \A x \in Q : x <= m
    <3>1. \A x \in P : x \in Int /\ x <= m
      OBVIOUS
    <3>2. QED BY <3>1
  <2> HIDE DEF Q
  <2>2. QED BY <2>1, GreatestOf
<1>4. p \in Int /\ \A i \in Q : trades[i].price \in Int /\ trades[i].volume \in Int
  BY DEF LiveTrade
<1>5. HQ = H \cup {p}
  OBVIOUS
<1>6. H \in SUBSET Int /\ IsFiniteSet(H) /\ H # {}
  <2> DEFINE g == [i \in P |-> trades[i].price]
  <2>1. H = {g[i] : i \in P}
    OBVIOUS
  <2> HIDE DEF g
  <2>2. IsFiniteSet({g[i] : i \in P})
    BY ImageIsFinite
  <2>3. IsFiniteSet(H)
    BY <2>1, <2>2, Zenon
  <2>4. H \in SUBSET Int /\ H # {}
    BY <1>4
  <2>5. QED BY <2>3, <2>4
<1>7. Max(HQ) = Max({Max(H), p}) /\ Min(HQ) = Min({Min(H), p})
  <2> HIDE DEF H, p
  <2>1. /\ Max(H \cup {p}) = Max({Max(H), p})
        /\ Min(H \cup {p}) = Min({Min(H), p})
    BY ONLY <1>4, <1>6, OneMoreExtreme
  <2> HIDE DEF HQ
  <2>2. QED BY <1>5, <2>1
<1>8. SumFunction(fQ) = SumFunction(f) + trades[m].volume
  <2>1. /\ DOMAIN fQ = Q /\ DOMAIN f = P /\ fQ[m] = trades[m].volume /\ m \in Q
        /\ \A i \in P : f[i] = trades[i].volume /\ fQ[i] = trades[i].volume
    OBVIOUS
  <2>2. \A i \in Q : fQ[i] \in Int
    BY <1>4
  <2>3. \A i \in P : f[i] \in Int /\ fQ[i] = f[i]
    BY <1>4, <2>1
  <2> HIDE DEF f, fQ, Q
  <2>4. SumFunctionOnSet(fQ, Q) = fQ[m] + SumFunctionOnSet(fQ, Q \ {m})
    BY <1>1, <2>1, <2>2, SumAny
  <2>5. SumFunctionOnSet(fQ, P) = SumFunctionOnSet(f, P)
    BY <2>3, SumSame
  <2>6. SumFunctionOnSet(f, P) \in Int
    BY <2>3, SumInt
  <2>7. SumFunctionOnSet(fQ, Q) = fQ[m] + SumFunctionOnSet(f, P)
    BY <1>1, <2>4, <2>5
  <2>8. SumFunction(fQ) = SumFunctionOnSet(fQ, Q) /\ SumFunction(f) = SumFunctionOnSet(f, P)
    BY <2>1 DEF SumFunction
  <2>9. fQ[m] \in Int /\ fQ[m] = trades[m].volume
    BY <2>1, <2>2
  <2>10. QED BY <2>6, <2>7, <2>8, <2>9
<1> HIDE DEF H, HQ, f, fQ, Q, p
<1>9. CandleOf(trades, starts, Q) =
        [start |-> starts[Min(Q)], open |-> trades[Min(Q)].price, close |-> trades[Max(Q)].price,
         high |-> Max(HQ), low |-> Min(HQ), volume |-> SumFunction(fQ)]
  BY DEF CandleOf, HQ, fQ
<1>10. CandleOf(trades, starts, P) =
        [start |-> starts[Min(P)], open |-> trades[Min(P)].price, close |-> trades[Max(P)].price,
         high |-> Max(H), low |-> Min(H), volume |-> SumFunction(f)]
  BY DEF CandleOf, H, f
<1>11. Updated(CandleOf(trades, starts, P), trades[m]) =
        [start |-> starts[Min(P)], open |-> trades[Min(P)].price, close |-> p,
         high |-> Max({Max(H), p}), low |-> Min({Min(H), p}), volume |-> SumFunction(f) + trades[m].volume]
  <2> DEFINE c == CandleOf(trades, starts, P)
             hi == Max({Max(H), p})
             lo == Min({Min(H), p})
             v == SumFunction(f) + trades[m].volume
  <2>1. c.high = Max(H) /\ c.low = Min(H) /\ c.volume = SumFunction(f)
    BY <1>10
  <2>2. Updated(c, trades[m]) =
          [c EXCEPT !.high = Max({c.high, p}), !.low = Min({c.low, p}), !.close = p,
                    !.volume = c.volume + trades[m].volume]
    BY DEF Updated, p
  <2>3. Updated(c, trades[m]) = [c EXCEPT !.high = hi, !.low = lo, !.close = p, !.volume = v]
    BY <2>1, <2>2
  <2>4. c = [start |-> starts[Min(P)], open |-> trades[Min(P)].price, close |-> trades[Max(P)].price,
             high |-> Max(H), low |-> Min(H), volume |-> SumFunction(f)]
    BY <1>10
  <2> HIDE DEF c, hi, lo, v
  <2>5. Updated(c, trades[m]) =
          [start |-> starts[Min(P)], open |-> trades[Min(P)].price, close |-> p,
           high |-> hi, low |-> lo, volume |-> v]
    BY <2>3, <2>4
  <2>6. QED BY <2>5 DEF c, hi, lo, v
<1>12. QED BY <1>2, <1>3, <1>7, <1>8, <1>9, <1>11 DEF p, Q

(* The candle of some trades is a candle. *)
LEMMA CandleTyped ==
  ASSUME NEW trades, NEW starts, NEW P \in SUBSET Int, IsFiniteSet(P), P # {},
         \A i \in P : trades[i] \in LiveTrade /\ starts[i] \in Moment
  PROVE  /\ CandleOf(trades, starts, P) \in LiveCandle
         /\ Min(P) \in P /\ CandleOf(trades, starts, P).start = starts[Min(P)]
<1> DEFINE H == {trades[i].price : i \in P}
           f == [i \in P |-> trades[i].volume]
<1>1. Min(P) \in P /\ Max(P) \in P
  BY Extremes
<1>2. \A i \in P : trades[i].price \in Int /\ trades[i].volume \in Int
  BY DEF LiveTrade
<1>3. H \in SUBSET Int /\ IsFiniteSet(H) /\ H # {}
  <2> DEFINE g == [i \in P |-> trades[i].price]
  <2>1. H = {g[i] : i \in P}
    OBVIOUS
  <2> HIDE DEF g
  <2>2. IsFiniteSet({g[i] : i \in P})
    BY ImageIsFinite
  <2>3. IsFiniteSet(H)
    BY <2>1, <2>2, Zenon
  <2>4. H \in SUBSET Int /\ H # {}
    BY <1>2
  <2>5. QED BY <2>3, <2>4
<1>4. Max(H) \in Int /\ Min(H) \in Int
  <2> HIDE DEF H
  <2>1. Max(H) \in H /\ Min(H) \in H
    BY <1>3, Extremes
  <2>2. QED BY <1>3, <2>1
<1>5. SumFunction(f) \in Int
  <2>1. DOMAIN f = P /\ \A i \in P : f[i] \in Int
    BY <1>2
  <2> HIDE DEF f
  <2>2. SumFunctionOnSet(f, P) \in Int
    BY <2>1, SumInt
  <2>3. QED BY <2>1, <2>2 DEF SumFunction
<1> HIDE DEF H, f
<1>6. CandleOf(trades, starts, P) =
        [start |-> starts[Min(P)], open |-> trades[Min(P)].price, close |-> trades[Max(P)].price,
         high |-> Max(H), low |-> Min(H), volume |-> SumFunction(f)]
  BY DEF CandleOf, H, f
<1>7. starts[Min(P)] \in Moment /\ trades[Min(P)].price \in Int /\ trades[Max(P)].price \in Int
  BY <1>1, <1>2
<1>8. CandleOf(trades, starts, P) \in LiveCandle
  BY <1>4, <1>5, <1>6, <1>7 DEF LiveCandle
<1>9. CandleOf(trades, starts, P).start = starts[Min(P)]
  BY <1>6
<1>10. QED BY <1>1, <1>8, <1>9

-----------------------------------------------------------------------------
(* The trades, with keys and starts, that candles are made of.             *)
Streams(trades, keys, starts, N) ==
  /\ N \in Nat \ {0}
  /\ trades \in [1 .. N -> LiveTrade] /\ keys \in [1 .. N -> Int] /\ starts \in [1 .. N -> Moment]

(* The keys of some trades, and the trades of a key. *)
Keys(keys, C) == {keys[i] : i \in C}
With(keys, C, key) == {i \in C : keys[i] = key}

(* The keys of some trades are finitely many numbers. *)
LEMMA KeysOf ==
  ASSUME NEW N \in Nat, NEW keys \in [1 .. N -> Int], NEW C \in SUBSET (1 .. N)
  PROVE  /\ IsFiniteSet(C) /\ C \in SUBSET Int
         /\ Keys(keys, C) \in SUBSET Int /\ IsFiniteSet(Keys(keys, C))
<1>1. IsFiniteSet(C) /\ C \in SUBSET Int
  BY UptoIsFinite
<1>2. IsFiniteSet(Keys(keys, C))
  BY <1>1, ImageIsFinite DEF Keys
<1>3. Keys(keys, C) \in SUBSET Int
  BY DEF Keys
<1>4. QED BY <1>1, <1>2, <1>3

(* The candles by a key are candles, each of the trades of its key.        *)
LEMMA CandlesOfKeys ==
  ASSUME NEW trades, NEW keys, NEW starts, NEW N, Streams(trades, keys, starts, N),
         NEW C \in SUBSET (1 .. N)
  PROVE  /\ CandlesBy(trades, keys, starts, C) \in Seq(LiveCandle)
         /\ Len(CandlesBy(trades, keys, starts, C)) = Cardinality(Keys(keys, C))
         /\ Cardinality(Keys(keys, C)) \in Nat
         /\ Falling(Keys(keys, C)) \in [1 .. Cardinality(Keys(keys, C)) -> Keys(keys, C)]
         /\ \A n \in 1 .. Cardinality(Keys(keys, C)) :
              /\ CandlesBy(trades, keys, starts, C)[n] =
                   CandleOf(trades, starts, With(keys, C, Falling(Keys(keys, C))[n]))
              /\ With(keys, C, Falling(Keys(keys, C))[n]) # {}
<1> DEFINE K == Keys(keys, C)
           c == Cardinality(K)
           of(n) == With(keys, C, Falling(K)[n])
           cs == CandlesBy(trades, keys, starts, C)
<1>1. IsFiniteSet(C) /\ C \in SUBSET Int /\ K \in SUBSET Int /\ IsFiniteSet(K)
  <2>1. N \in Nat /\ keys \in [1 .. N -> Int]
    BY DEF Streams
  <2>2. QED BY <2>1, KeysOf
<1>2. c \in Nat /\ Falling(K) \in [1 .. c -> K]
  <2> HIDE DEF K
  <2>1. Falls(Falling(K), K)
    BY <1>1, FallingIs
  <2>2. QED BY <1>1, <2>1, FS_CardinalityType DEF Falls
<1>3. cs = [n \in 1 .. c |-> CandleOf(trades, starts, of(n))]
  BY DEF CandlesBy, Keys, With
<1>4. ASSUME NEW n \in 1 .. c
      PROVE  of(n) # {} /\ CandleOf(trades, starts, of(n)) \in LiveCandle
  <2>1. PICK i \in C : keys[i] = Falling(K)[n]
    <3>1. Falling(K)[n] \in K
      BY <1>2
    <3>2. QED BY <3>1 DEF Keys
  <2> DEFINE P == of(n)
  <2>2. i \in P /\ P \in SUBSET C
    BY <2>1 DEF With
  <2> HIDE DEF P
  <2>3. IsFiniteSet(P) /\ P \in SUBSET Int
    BY <1>1, <2>2, FS_Subset
  <2>4. \A j \in P : trades[j] \in LiveTrade /\ starts[j] \in Moment
    BY <2>2 DEF Streams
  <2>5. P # {}
    BY <2>2
  <2>6. CandleOf(trades, starts, P) \in LiveCandle
    BY ONLY <2>3, <2>4, <2>5, CandleTyped
  <2>7. QED BY <2>5, <2>6 DEF P
<1>5. cs \in [1 .. c -> LiveCandle]
  <2> HIDE DEF c, of, cs
  <2> QED BY <1>3, <1>4
<1>6. cs \in Seq(LiveCandle) /\ Len(cs) = c
  <2> HIDE DEF c, cs
  <2> QED BY <1>2, <1>5, FunctionIsSeq
<1>7. \A n \in 1 .. c : cs[n] = CandleOf(trades, starts, of(n)) /\ of(n) # {}
  <2> HIDE DEF c, of, cs
  <2> QED BY <1>3, <1>4
<1>8. QED BY <1>2, <1>6, <1>7

(* A trade of a later key opens a candle before all others.                *)
LEMMA LaterKey ==
  ASSUME NEW trades, NEW keys, NEW starts, NEW N, Streams(trades, keys, starts, N),
         NEW C \in SUBSET (1 .. N), NEW m \in 1 .. N, \A i \in C : keys[i] < keys[m]
  PROVE  LET cs == CandlesBy(trades, keys, starts, C)
             ds == CandlesBy(trades, keys, starts, C \cup {m})
         IN  /\ ds \in Seq(LiveCandle) /\ Len(ds) = Len(cs) + 1
             /\ ds[1] = NewCandle(starts[m], trades[m])
             /\ \A i \in 1 .. Len(cs) : ds[i + 1] = cs[i]
<1> DEFINE B == C \cup {m}
           K == Keys(keys, C)
           L == Keys(keys, B)
           k == keys[m]
           cs == CandlesBy(trades, keys, starts, C)
           ds == CandlesBy(trades, keys, starts, B)
           c == Cardinality(K)
<1>1. B \in SUBSET (1 .. N) /\ L = K \cup {k}
  BY DEF Keys
<1>2. k \in Int /\ \A x \in K : x < k
  BY DEF Streams, Keys
<1>3. K \in SUBSET Int /\ IsFiniteSet(K)
  <2>1. N \in Nat /\ keys \in [1 .. N -> Int]
    BY DEF Streams
  <2>2. QED BY <2>1, KeysOf
<1>4. /\ cs \in Seq(LiveCandle) /\ Len(cs) = c /\ c \in Nat
      /\ \A n \in 1 .. c : cs[n] = CandleOf(trades, starts, With(keys, C, Falling(K)[n]))
  BY CandlesOfKeys
<1>5. /\ ds \in Seq(LiveCandle) /\ Len(ds) = Cardinality(L)
      /\ \A n \in 1 .. Cardinality(L) : ds[n] = CandleOf(trades, starts, With(keys, B, Falling(L)[n]))
  <2>1. B \in SUBSET (1 .. N)
    OBVIOUS
  <2> HIDE DEF B
  <2>2. QED BY <2>1, CandlesOfKeys
<1>6. /\ Cardinality(K \cup {k}) = c + 1
      /\ Falling(K \cup {k}) = [i \in 1 .. c + 1 |-> IF i = 1 THEN k ELSE Falling(K)[i - 1]]
  <2> HIDE DEF K, k
  <2> QED BY <1>2, <1>3, FallingMore
<1>7. /\ Cardinality(L) = c + 1
      /\ Falling(L) = [i \in 1 .. c + 1 |-> IF i = 1 THEN k ELSE Falling(K)[i - 1]]
  <2> HIDE DEF K, L, k
  <2> QED BY <1>1, <1>6
<1>8. \A n \in 1 .. c : Falling(K)[n] \in K
  BY CandlesOfKeys
<1>9. ds[1] = NewCandle(starts[m], trades[m])
  <2>1. 1 \in 1 .. c + 1 /\ Falling(L)[1] = k
    <3> HIDE DEF c, L, k
    <3> QED BY <1>4, <1>7
  <2>2. With(keys, B, k) = {m}
    <3>1. \A i \in C : keys[i] \in Int /\ keys[i] # k
      BY <1>2 DEF Streams
    <3>2. QED BY <3>1 DEF With
  <2>3. CandleOf(trades, starts, {m}) = NewCandle(starts[m], trades[m])
    <3>1. m \in Int /\ trades[m] \in LiveTrade
      BY DEF Streams
    <3>2. QED BY <3>1, CandleBegins
  <2> HIDE DEF ds, B, L, c, k
  <2>4. ds[1] = CandleOf(trades, starts, With(keys, B, Falling(L)[1]))
    BY <1>5, <1>7, <2>1
  <2>5. QED BY <2>1, <2>2, <2>3, <2>4
<1>10. ASSUME NEW n \in 1 .. c PROVE ds[n + 1] = cs[n]
  <2>1. n + 1 \in 1 .. c + 1 /\ n + 1 # 1 /\ (n + 1) - 1 = n
    BY <1>4
  <2>2. Falling(L)[n + 1] = Falling(K)[n]
    <3> HIDE DEF L, K, c
    <3> QED BY <1>7, <2>1
  <2> DEFINE x == Falling(K)[n]
  <2>3. x \in K /\ x # k
    <3>1. x \in K
      BY <1>8
    <3> HIDE DEF x, K, k
    <3>2. x < k /\ x \in Int
      BY <1>2, <1>3, <3>1
    <3>3. QED BY <1>2, <3>1, <3>2
  <2>4. With(keys, B, x) = With(keys, C, x)
    <3> HIDE DEF x
    <3> QED BY <2>3 DEF With
  <2> HIDE DEF ds, cs, B, L, K, c
  <2>5. ds[n + 1] = CandleOf(trades, starts, With(keys, B, Falling(L)[n + 1]))
    BY <1>5, <1>7, <2>1
  <2>6. cs[n] = CandleOf(trades, starts, With(keys, C, Falling(K)[n]))
    BY <1>4
  <2>7. QED BY <2>2, <2>4, <2>5, <2>6
<1> HIDE DEF ds, cs, c, L
<1>11. Len(ds) = Len(cs) + 1
  BY <1>4, <1>5, <1>7
<1>12. \A i \in 1 .. Len(cs) : ds[i + 1] = cs[i]
  BY <1>4, <1>10
<1>13. QED BY <1>5, <1>9, <1>11, <1>12 DEF ds, cs

(* The first candle of some trades starts with one of their greatest key.  *)
LEMMA HeadOfKeys ==
  ASSUME NEW trades, NEW keys, NEW starts, NEW N, Streams(trades, keys, starts, N),
         NEW C \in SUBSET (1 .. N), NEW g \in C, \A i \in C : keys[i] <= keys[g]
  PROVE  /\ 1 \in 1 .. Cardinality(Keys(keys, C))
         /\ Falling(Keys(keys, C))[1] = keys[g]
         /\ CandlesBy(trades, keys, starts, C) # << >>
         /\ \E b \in C : /\ keys[b] = keys[g]
                         /\ CandlesBy(trades, keys, starts, C)[1].start = starts[b]
<1> DEFINE K == Keys(keys, C)
           c == Cardinality(K)
           cs == CandlesBy(trades, keys, starts, C)
           k == keys[g]
           W == With(keys, C, k)
<1>1. K \in SUBSET Int /\ IsFiniteSet(K) /\ IsFiniteSet(C) /\ C \in SUBSET Int
  <2>1. N \in Nat /\ keys \in [1 .. N -> Int]
    BY DEF Streams
  <2>2. QED BY <2>1, KeysOf
<1>2. k \in K /\ \A x \in K : x <= k
  BY DEF Keys
<1>3. c \in Nat \ {0} /\ Falling(K)[1] = k
  <2> HIDE DEF K, k
  <2> QED BY <1>1, <1>2, FallingHead
<1>4. /\ cs \in Seq(LiveCandle) /\ Len(cs) = c
      /\ \A n \in 1 .. c : cs[n] = CandleOf(trades, starts, With(keys, C, Falling(K)[n]))
  BY CandlesOfKeys
<1>5. 1 \in 1 .. c
  <2> HIDE DEF c
  <2> QED BY <1>3
<1>6. cs[1] = CandleOf(trades, starts, W)
  <2> HIDE DEF cs, c, K, k
  <2> QED BY <1>3, <1>4, <1>5
<1>7. g \in W /\ W \in SUBSET C /\ \A i \in W : keys[i] = k
  BY DEF With
<1>8. Min(W) \in W /\ CandleOf(trades, starts, W).start = starts[Min(W)]
  <2> HIDE DEF W
  <2>1. W \in SUBSET Int /\ IsFiniteSet(W) /\ W # {}
    BY <1>1, <1>7, FS_Subset
  <2>2. \A i \in W : trades[i] \in LiveTrade /\ starts[i] \in Moment
    BY <1>7 DEF Streams
  <2>3. QED BY ONLY <2>1, <2>2, CandleTyped
<1>9. cs # << >>
  <2> HIDE DEF cs, c
  <2> QED BY <1>3, <1>4
<1> HIDE DEF cs, W, c, K
<1>10. Min(W) \in C /\ keys[Min(W)] = k
  BY <1>7, <1>8
<1>11. cs[1].start = starts[Min(W)]
  BY <1>6, <1>8
<1>12. QED BY <1>3, <1>5, <1>9, <1>10, <1>11 DEF cs, c, K

(* A later trade of the greatest key changes the first candle alone.       *)
LEMMA SameKey ==
  ASSUME NEW trades, NEW keys, NEW starts, NEW N, Streams(trades, keys, starts, N),
         NEW C \in SUBSET (1 .. N), NEW m \in 1 .. N,
         \A i \in C : i < m /\ keys[i] <= keys[m], \E i \in C : keys[i] = keys[m]
  PROVE  LET cs == CandlesBy(trades, keys, starts, C)
             ds == CandlesBy(trades, keys, starts, C \cup {m})
         IN  /\ ds \in Seq(LiveCandle) /\ Len(ds) = Len(cs)
             /\ ds[1] = Updated(cs[1], trades[m])
             /\ \A i \in 1 .. Len(cs) : i # 1 => ds[i] = cs[i]
<1> DEFINE B == C \cup {m}
           K == Keys(keys, C)
           k == keys[m]
           cs == CandlesBy(trades, keys, starts, C)
           ds == CandlesBy(trades, keys, starts, B)
           c == Cardinality(K)
           W == With(keys, C, k)
<1> PICK g \in C : keys[g] = keys[m]
  OBVIOUS
<1>1. B \in SUBSET (1 .. N) /\ Keys(keys, B) = K
  BY DEF Keys
<1>2. /\ cs \in Seq(LiveCandle) /\ Len(cs) = c /\ c \in Nat
      /\ Falling(K) \in [1 .. c -> K]
      /\ \A n \in 1 .. c : cs[n] = CandleOf(trades, starts, With(keys, C, Falling(K)[n]))
  BY CandlesOfKeys
<1>3. /\ ds \in Seq(LiveCandle) /\ Len(ds) = c
      /\ \A n \in 1 .. c : ds[n] = CandleOf(trades, starts, With(keys, B, Falling(K)[n]))
  <2> HIDE DEF B
  <2>1. /\ ds \in Seq(LiveCandle) /\ Len(ds) = Cardinality(Keys(keys, B))
        /\ \A n \in 1 .. Cardinality(Keys(keys, B)) :
             ds[n] = CandleOf(trades, starts, With(keys, B, Falling(Keys(keys, B))[n]))
    BY <1>1, CandlesOfKeys
  <2> HIDE DEF ds, K
  <2>2. QED BY <1>1, <2>1
<1>4. 1 \in 1 .. c /\ Falling(K)[1] = k
  <2>1. 1 \in 1 .. c /\ Falling(K)[1] = keys[g]
    BY HeadOfKeys
  <2> HIDE DEF c, K
  <2>2. QED BY <2>1
<1>5. g \in W /\ W \in SUBSET C /\ With(keys, B, k) = W \cup {m}
  BY DEF With
<1>6. CandleOf(trades, starts, W \cup {m}) = Updated(CandleOf(trades, starts, W), trades[m])
  <2> HIDE DEF W
  <2>1. IsFiniteSet(C) /\ C \in SUBSET Int
    BY KeysOf DEF Streams
  <2>2. W \in SUBSET Int /\ IsFiniteSet(W) /\ W # {}
    BY <1>5, <2>1, FS_Subset
  <2>3. m \in Int /\ \A i \in W : i < m
    BY <1>5
  <2>4. \A i \in W \cup {m} : trades[i] \in LiveTrade
    BY <1>5 DEF Streams
  <2>5. QED BY ONLY <2>2, <2>3, <2>4, CandleGrows
<1>7. ds[1] = Updated(cs[1], trades[m])
  <2> HIDE DEF ds, cs, c, K, k, B
  <2>1. cs[1] = CandleOf(trades, starts, W) /\ ds[1] = CandleOf(trades, starts, With(keys, B, k))
    BY <1>2, <1>3, <1>4
  <2> HIDE DEF W
  <2>2. QED BY <1>5, <1>6, <2>1
<1>8. ASSUME NEW n \in 2 .. c PROVE ds[n] = cs[n]
  <2> DEFINE x == Falling(K)[n]
  <2>1. n \in 1 .. c /\ 1 < n
    BY <1>4
  <2>2. x # k
    <3>1. K \in SUBSET Int /\ IsFiniteSet(K)
      <4>1. N \in Nat /\ keys \in [1 .. N -> Int]
        BY DEF Streams
      <4>2. QED BY <4>1, KeysOf
    <3> HIDE DEF K, k
    <3>2. Falling(K)[1] > Falling(K)[n]
      BY <1>4, <2>1, <3>1, FallingIs DEF Falls
    <3>3. Falling(K)[n] \in Int /\ k \in Int
      BY <1>2, <1>4, <2>1, <3>1
    <3>4. QED BY <1>4, <3>2, <3>3
  <2> HIDE DEF x
  <2>3. With(keys, B, x) = With(keys, C, x)
    BY <2>2 DEF With
  <2> HIDE DEF ds, cs, c, B
  <2>4. ds[n] = CandleOf(trades, starts, With(keys, B, x)) /\ cs[n] = CandleOf(trades, starts, With(keys, C, x))
    BY <1>2, <1>3, <2>1 DEF x
  <2>5. QED BY <2>3, <2>4
<1> HIDE DEF ds, cs, c
<1>9. \A i \in 1 .. Len(cs) : i # 1 => ds[i] = cs[i]
  <2>1. \A i \in 1 .. c : i # 1 => i \in 2 .. c
    BY <1>2
  <2>2. QED BY <1>2, <1>8, <2>1
<1>10. QED BY <1>2, <1>3, <1>7, <1>9 DEF ds, cs

(* The trades that count among the first n. *)
SoFar(keys, n) == {i \in Counted(keys) : i <= n}

(* The greatest key so far is that of a trade that counts.                 *)
LEMMA NewestCounted ==
  ASSUME NEW N \in Nat, NEW keys \in [1 .. N -> Int], NEW n \in 1 .. N
  PROVE  \E g \in SoFar(keys, n) : \A j \in 1 .. n : keys[j] <= keys[g]
<1> DEFINE C == 1 .. n
           K == Keys(keys, C)
           M == Max(K)
           S == With(keys, C, M)
           g == Min(S)
<1>1. C \in SUBSET (1 .. N) /\ 1 \in C
  OBVIOUS
<1>2. IsFiniteSet(C) /\ C \in SUBSET Int /\ K \in SUBSET Int /\ IsFiniteSet(K)
  <2> HIDE DEF C
  <2> QED BY <1>1, KeysOf
<1>3. K # {} /\ \A j \in C : keys[j] \in K
  BY <1>1 DEF Keys
<1>4. M \in K /\ \A x \in K : x <= M
  <2> HIDE DEF K
  <2> QED BY <1>2, <1>3, Extremes
<1>5. S # {} /\ S \in SUBSET C /\ \A j \in S : keys[j] = M
  <2> HIDE DEF M
  <2> QED BY <1>4 DEF Keys, With
<1>6. g \in S /\ \A j \in S : g <= j
  <2> HIDE DEF S, C
  <2>1. S \in SUBSET Int /\ IsFiniteSet(S)
    BY <1>2, <1>5, FS_Subset
  <2>2. QED BY <1>5, <2>1, Extremes
<1> HIDE DEF g, M, K
<1>7. \A j \in C : keys[j] <= M
  BY <1>3, <1>4
<1>8. g \in C /\ keys[g] = M
  BY <1>5, <1>6
<1>9. g \in DOMAIN keys /\ g <= n
  BY <1>8
<1>10. \A j \in 1 .. g - 1 : keys[j] <= keys[g]
  BY <1>7, <1>8
<1>11. QED BY <1>7, <1>8, <1>9, <1>10 DEF SoFar, Counted

(* An interval meets the keys and starts of the trades when it puts a      *)
(* trade in the bucket of its key, whichever trade opened the newest       *)
(* candle, and begins the candle at its start.                             *)
Meets(interval, trades, keys, starts, N) ==
  /\ BucketStart(interval, trades[1].moment, trades[1].moment) = starts[1]
  /\ \A b, m \in 1 .. N :
       /\ Bucket(interval, starts[b], starts[b]) = keys[b]
       /\ Bucket(interval, trades[m].moment, starts[b]) = keys[m]
       /\ BucketStart(interval, trades[m].moment, starts[b]) = starts[m]

(* One trade more, folded into the candles of those before it, makes the   *)
(* candles of all.                                                         *)
LEMMA FoldStep ==
  ASSUME NEW interval, NEW trades, NEW keys, NEW starts, NEW N,
         Streams(trades, keys, starts, N), Meets(interval, trades, keys, starts, N),
         NEW n \in 1 .. N
  PROVE  FoldTrade(interval, Kept(CandlesBy(trades, keys, starts, SoFar(keys, n - 1))), trades[n]) =
           Kept(CandlesBy(trades, keys, starts, SoFar(keys, n)))
<1> DEFINE A == SoFar(keys, n - 1)
           B == SoFar(keys, n)
           cs == CandlesBy(trades, keys, starts, A)
           ds == CandlesBy(trades, keys, starts, B)
           t == trades[n]
<1> SUFFICES FoldTrade(interval, Kept(cs), t) = Kept(ds)
  OBVIOUS
<1>1. N \in Nat \ {0} /\ keys \in [1 .. N -> Int] /\ DOMAIN keys = 1 .. N
  BY DEF Streams
<1>2. A \in SUBSET (1 .. N) /\ (\A i \in A : i \in 1 .. n - 1) /\ B \in SUBSET (1 .. N)
  BY <1>1 DEF SoFar, Counted
<1>3. B = IF \A j \in 1 .. n - 1 : keys[j] <= keys[n] THEN A \cup {n} ELSE A
  <2>1. \A i \in 1 .. N : i <= n <=> (i <= n - 1 \/ i = n)
    BY <1>1
  <2>2. QED BY <1>1, <2>1 DEF SoFar, Counted
<1> HIDE DEF A, B
<1>4. cs \in Seq(LiveCandle)
  BY <1>2, CandlesOfKeys
<1>5. t \in LiveTrade /\ n \in Int
  BY DEF Streams
<1>6. CASE n = 1
  <2>1. A = {} /\ B = A \cup {n}
    BY <1>2, <1>3, <1>6
  <2>2. cs = << >>
    <3>1. Keys(keys, {}) = {}
      BY DEF Keys
    <3>2. Len(cs) = Cardinality(Keys(keys, A))
      BY <1>2, CandlesOfKeys
    <3> HIDE DEF cs
    <3>3. QED BY <1>4, <2>1, <3>1, <3>2, FS_EmptySet
  <2>3. /\ ds \in Seq(LiveCandle) /\ Len(ds) = Len(cs) + 1
        /\ ds[1] = NewCandle(starts[n], trades[n])
    <3>1. \A i \in A : keys[i] < keys[n]
      BY <2>1
    <3>2. QED BY <1>2, <2>1, <3>1, LaterKey
  <2>4. Kept(cs) = << >>
    <3>1. Len(cs) <= Limit
      BY <2>2, CandlesAssumption
    <3> HIDE DEF cs
    <3>2. Kept(cs) = cs
      BY <1>4, <3>1, KeptWhole
    <3>3. QED BY <2>2, <3>2
  <2> DEFINE e == NewCandle(starts[n], trades[n])
  <2>5. ds = << e >>
    <3> HIDE DEF ds, cs
    <3>1. Len(ds) = 1 /\ ds[1] = e
      BY <2>2, <2>3
    <3> HIDE DEF e
    <3>2. 1 \in 1 .. Len(ds)
      BY <3>1
    <3>3. e \in LiveCandle
      BY <2>3, <3>1, <3>2, ElementOfSeq
    <3> DEFINE one == << e >>
    <3>4. one \in Seq(LiveCandle) /\ Len(one) = 1 /\ one[1] = e
      BY <3>3
    <3> HIDE DEF one
    <3>5. \A i \in 1 .. Len(ds) : ds[i] = one[i]
      BY <3>1, <3>4
    <3>6. ds = one
      BY <2>3, <3>1, <3>4, <3>5, SeqEqual
    <3>7. QED BY <3>6 DEF one
  <2>6. Kept(ds) = ds
    <3>1. Len(ds) = 1 /\ 1 <= Limit
      <4> HIDE DEF ds, cs
      <4> QED BY <2>2, <2>3, CandlesAssumption
    <3> HIDE DEF ds
    <3>2. QED BY <2>3, <3>1, KeptWhole
  <2>7. FoldTrade(interval, << >>, t) = << NewCandle(BucketStart(interval, t.moment, t.moment), t) >>
    BY DEF FoldTrade
  <2>8. BucketStart(interval, t.moment, t.moment) = starts[n]
    BY <1>6 DEF Meets
  <2> HIDE DEF ds, cs
  <2>9. QED BY <2>4, <2>5, <2>6, <2>7, <2>8
<1>7. CASE n # 1
  <2>1. n - 1 \in 1 .. N
    BY <1>1, <1>7
  <2>2. PICK g \in A : \A j \in 1 .. n - 1 : keys[j] <= keys[g]
    BY <1>1, <2>1, NewestCounted DEF A
  <2>3. g \in 1 .. N /\ g \in 1 .. n - 1 /\ (\A i \in A : keys[i] <= keys[g]) /\ keys[g] \in Int /\ keys[n] \in Int
    BY <1>1, <1>2, <2>2
  <2>4. /\ cs # << >>
        /\ \E b \in A : keys[b] = keys[g] /\ cs[1].start = starts[b]
    BY <1>2, <2>3, HeadOfKeys
  <2>5. PICK b \in A : keys[b] = keys[g] /\ cs[1].start = starts[b]
    BY <2>4
  <2> DEFINE ks == Kept(cs)
  <2>6. ks # << >> /\ Head(ks) = cs[1] /\ cs[1] \in LiveCandle
    <3> HIDE DEF cs
    <3>1. cs[1] \in LiveCandle
      <4>1. Len(cs) \in Nat \ {0}
        BY <1>4, <2>4, EmptySeq
      <4>2. 1 \in 1 .. Len(cs)
        BY <4>1
      <4>3. QED BY <1>4, <4>2, ElementOfSeq
    <3>2. \A i \in 2 .. Len(cs) : cs[i] = cs[i]
      OBVIOUS
    <3>3. QED BY <1>4, <2>4, <3>1, <3>2, KeptChanges
  <2>7. b \in 1 .. N
    BY <1>2
  <2>8. /\ Bucket(interval, t.moment, starts[b]) = keys[n]
        /\ Bucket(interval, starts[b], starts[b]) = keys[g]
        /\ BucketStart(interval, t.moment, starts[b]) = starts[n]
    BY <2>5, <2>7 DEF Meets
  <2> HIDE DEF ks, t
  <2>9. Head(ks).start = starts[b]
    <3> HIDE DEF cs
    <3> QED BY <2>5, <2>6
  <2>10. FoldTrade(interval, ks, t) =
           CASE keys[n] < keys[g] -> ks
             [] keys[n] = keys[g] -> Kept(<<Updated(Head(ks), t)>> \o Tail(ks))
             [] keys[n] > keys[g] -> Kept(<<NewCandle(starts[n], t)>> \o ks)
    <3>1. ks # << >>
      BY <2>6
    <3>2. FoldTrade(interval, ks, t) =
            LET newest == Head(ks).start
                here == Bucket(interval, t.moment, newest)
                there == Bucket(interval, newest, newest)
            IN  CASE here < there -> ks
                  [] here = there -> Kept(<<Updated(Head(ks), t)>> \o Tail(ks))
                  [] here > there -> Kept(<<NewCandle(BucketStart(interval, t.moment, newest), t)>> \o ks)
      BY <3>1 DEF FoldTrade
    <3>3. QED BY <2>8, <2>9, <3>2
  <2>11. CASE keys[n] < keys[g]
    <3>1. ~(\A j \in 1 .. n - 1 : keys[j] <= keys[n])
      BY <2>3, <2>11
    <3>2. B = A
      BY <1>3, <3>1
    <3>3. FoldTrade(interval, ks, t) = ks
      BY <2>3, <2>10, <2>11
    <3>4. QED BY <3>2, <3>3 DEF ks
  <2>12. CASE keys[n] = keys[g]
    <3>1. B = A \cup {n}
      BY <1>3, <2>2, <2>12
    <3> DEFINE e == Updated(cs[1], t)
    <3>2. /\ ds \in Seq(LiveCandle) /\ Len(ds) = Len(cs) /\ ds[1] = e
          /\ \A i \in 2 .. Len(cs) : ds[i] = cs[i]
      <4>1. \A i \in A : i < n
        BY <1>2
      <4>2. (\E i \in A : keys[i] = keys[n]) /\ \A i \in A : i < n /\ keys[i] <= keys[n]
        BY <2>3, <2>12, <4>1
      <4> DEFINE es == CandlesBy(trades, keys, starts, A \cup {n})
      <4>3. /\ es \in Seq(LiveCandle) /\ Len(es) = Len(cs) /\ es[1] = Updated(cs[1], trades[n])
            /\ \A i \in 1 .. Len(cs) : i # 1 => es[i] = cs[i]
        <5>1. A \in SUBSET (1 .. N)
          BY <1>2
        <5>2. es \in Seq(LiveCandle) /\ Len(es) = Len(cs) /\ es[1] = Updated(cs[1], trades[n])
          BY <4>2, <5>1, SameKey
        <5>3. \A i \in 1 .. Len(cs) : i # 1 => es[i] = cs[i]
          BY <4>2, <5>1, SameKey
        <5>4. QED BY <5>2, <5>3
      <4>4. ds = es
        BY <3>1
      <4> HIDE DEF ds, es, cs
      <4>5. \A i \in 2 .. Len(cs) : i \in 1 .. Len(cs) /\ i # 1
        BY <1>4
      <4>6. QED BY <4>3, <4>4, <4>5 DEF t
    <3>3. FoldTrade(interval, ks, t) = Kept(<<Updated(Head(ks), t)>> \o Tail(ks))
      BY <2>3, <2>10, <2>12
    <3>4. e \in LiveCandle
      <4> HIDE DEF e, ds, cs
      <4>1. Len(ds) \in Nat \ {0}
        BY <1>4, <2>4, <3>2, EmptySeq
      <4>2. 1 \in 1 .. Len(ds)
        BY <4>1
      <4>3. ds[1] \in LiveCandle
        BY <3>2, <4>2, ElementOfSeq
      <4>4. QED BY <3>2, <4>3
    <3>5. Kept(<<e>> \o Tail(Kept(cs))) = Kept(ds)
      <4> HIDE DEF e, ds, cs
      <4> QED BY <1>4, <2>4, <3>2, <3>4, KeptChanges
    <3>6. Updated(Head(ks), t) = e
      BY <2>6
    <3> HIDE DEF e, ds, cs
    <3>7. FoldTrade(interval, ks, t) = Kept(<<e>> \o Tail(ks))
      BY <3>3, <3>6
    <3>8. FoldTrade(interval, ks, t) = Kept(ds)
      BY <3>5, <3>7 DEF ks
    <3>9. QED BY <3>8 DEF ks, ds, cs
  <2>13. CASE keys[n] > keys[g]
    <3>1. \A i \in 1 .. n - 1 : keys[i] < keys[n] /\ keys[i] <= keys[n]
      <4>1. \A i \in 1 .. n - 1 : keys[i] \in Int
        BY <1>1
      <4>2. QED BY <2>2, <2>3, <2>13, <4>1
    <3>2. B = A \cup {n} /\ \A i \in A : keys[i] < keys[n]
      BY <1>2, <1>3, <3>1
    <3> DEFINE e == NewCandle(starts[n], t)
    <3>3. /\ ds \in Seq(LiveCandle) /\ Len(ds) = Len(cs) + 1 /\ ds[1] = e
          /\ \A i \in 1 .. Len(cs) : ds[i + 1] = cs[i]
      <4> DEFINE es == CandlesBy(trades, keys, starts, A \cup {n})
      <4>1. /\ Streams(trades, keys, starts, N) /\ A \in SUBSET (1 .. N) /\ n \in 1 .. N
            /\ \A i \in A : keys[i] < keys[n]
        BY <1>2, <3>2
      <4>2. /\ es \in Seq(LiveCandle) /\ Len(es) = Len(cs) + 1
            /\ es[1] = NewCandle(starts[n], trades[n])
            /\ \A i \in 1 .. Len(cs) : es[i + 1] = cs[i]
        BY ONLY <4>1, LaterKey
      <4>3. ds = es
        BY <3>2
      <4> HIDE DEF ds, es, cs
      <4>4. QED BY <4>2, <4>3 DEF t
    <3>4. FoldTrade(interval, ks, t) = Kept(<<e>> \o ks)
      BY <2>3, <2>10, <2>13
    <3>5. e \in LiveCandle
      <4> HIDE DEF e, ds, cs
      <4>1. Len(ds) \in Nat /\ Len(cs) \in Nat
        BY <1>4, <3>3
      <4>2. 1 \in 1 .. Len(ds)
        BY <3>3, <4>1
      <4>3. ds[1] \in LiveCandle
        BY <3>3, <4>2, ElementOfSeq
      <4>4. QED BY <3>3, <4>3
    <3> HIDE DEF e, ds, cs
    <3>6. Kept(<<e>> \o Kept(cs)) = Kept(ds)
      BY <1>4, <3>3, <3>5, KeptGrows
    <3>7. FoldTrade(interval, ks, t) = Kept(ds)
      BY <3>4, <3>6 DEF ks
    <3>8. QED BY <3>7 DEF ks, ds, cs
  <2>14. QED BY <2>3, <2>11, <2>12, <2>13
<1>8. QED BY <1>6, <1>7

(* So the trades, folded one by one, make the candles of those that count. *)
LEMMA FoldedTrades ==
  ASSUME NEW interval, NEW trades, NEW keys, NEW starts, NEW N,
         Streams(trades, keys, starts, N), Meets(interval, trades, keys, starts, N)
  PROVE  FoldTrades(interval, trades) = Kept(CandlesBy(trades, keys, starts, Counted(keys)))
<1> DEFINE Made(n) == Kept(CandlesBy(trades, keys, starts, SoFar(keys, n)))
           Fits(it) == it = [n \in 0 .. N |-> IF n = 0 THEN << >> ELSE FoldTrade(interval, it[n - 1], trades[n])]
           made == [n \in 0 .. N |-> Made(n)]
           folded == CHOOSE it : Fits(it)
<1>1. N \in Nat \ {0} /\ Len(trades) = N /\ DOMAIN keys = 1 .. N
  <2>1. N \in Nat \ {0} /\ trades \in [1 .. N -> LiveTrade] /\ keys \in [1 .. N -> Int]
    BY DEF Streams
  <2>2. Len(trades) = N
    BY <2>1, FunctionIsSeq
  <2>3. QED BY <2>1, <2>2
<1>2. Made(0) = << >>
  <2>1. SoFar(keys, 0) = {}
    BY <1>1 DEF SoFar, Counted
  <2>2. Keys(keys, {}) = {}
    BY DEF Keys
  <2> DEFINE cs == CandlesBy(trades, keys, starts, {})
  <2>3. cs \in Seq(LiveCandle) /\ Len(cs) = Cardinality(Keys(keys, {}))
    BY CandlesOfKeys
  <2> HIDE DEF cs
  <2>4. cs = << >> /\ Len(cs) = 0
    <3>1. Cardinality(Keys(keys, {})) = 0
      BY <2>2, FS_EmptySet, Zenon
    <3>2. QED BY <2>3, <3>1
  <2>5. Kept(cs) = cs
    <3>1. Len(cs) <= Limit
      BY <2>4, CandlesAssumption
    <3>2. QED BY <2>3, <3>1, KeptWhole
  <2>6. QED BY <2>1, <2>4, <2>5 DEF cs
<1>3. \A n \in 1 .. N : FoldTrade(interval, Made(n - 1), trades[n]) = Made(n)
  BY FoldStep
<1> HIDE DEF Made
<1>4. \A n \in 0 .. N : n # 0 => n \in 1 .. N /\ n - 1 \in 0 .. N
  BY <1>1
<1>5. Fits(made)
  <2>1. \A n \in 0 .. N : made[n] = IF n = 0 THEN << >> ELSE FoldTrade(interval, made[n - 1], trades[n])
    <3> SUFFICES ASSUME NEW n \in 0 .. N
                 PROVE  made[n] = IF n = 0 THEN << >> ELSE FoldTrade(interval, made[n - 1], trades[n])
      OBVIOUS
    <3>1. CASE n = 0
      BY <1>2, <3>1
    <3>2. CASE n # 0
      <4>1. made[n - 1] = Made(n - 1) /\ made[n] = Made(n)
        BY <1>4, <3>2
      <4> HIDE DEF made
      <4>2. QED BY <1>3, <1>4, <3>2, <4>1
    <3>3. QED BY <3>1, <3>2
  <2>2. made = [n \in 0 .. N |-> made[n]]
    OBVIOUS
  <2> HIDE DEF made
  <2>3. QED BY <2>1, <2>2
<1>6. Fits(folded)
  <2> HIDE DEF made, Fits
  <2> QED BY <1>5
<1>7. FoldTrades(interval, trades) = folded[N]
  BY <1>1 DEF FoldTrades
<1> HIDE DEF folded
<1>8. \A n \in 0 .. N : folded[n] = IF n = 0 THEN << >> ELSE FoldTrade(interval, folded[n - 1], trades[n])
  BY <1>6
<1> DEFINE F == {n \in 0 .. N : folded[n] = Made(n)}
<1>9. 0 \in F
  BY <1>1, <1>2, <1>8
<1>10. ASSUME NEW n \in 0 .. N - 1, n \in F PROVE n + 1 \in F
  <2>1. n + 1 \in 0 .. N /\ n + 1 # 0 /\ (n + 1) - 1 = n /\ n + 1 \in 1 .. N
    BY <1>1
  <2>2. folded[n + 1] = FoldTrade(interval, folded[n], trades[n + 1])
    BY <1>8, <2>1
  <2>3. folded[n] = Made(n)
    BY <1>10
  <2>4. FoldTrade(interval, Made(n), trades[n + 1]) = Made(n + 1)
    BY <1>3, <2>1
  <2>5. QED BY <2>1, <2>2, <2>3, <2>4
<1>11. \A n \in 0 .. N : n \in F
  <2>1. 0 \in Int /\ N \in Int
    BY <1>1
  <2> HIDE DEF F
  <2>2. QED BY ONLY <1>9, <1>10, <2>1, EveryNumber
<1>12. folded[N] = Made(N)
  BY <1>1, <1>11
<1>13. SoFar(keys, N) = Counted(keys)
  BY <1>1 DEF SoFar, Counted
<1>14. QED BY <1>7, <1>12, <1>13 DEF Made

-----------------------------------------------------------------------------
(* A number is a quotient times its divisor, and what remains.             *)
LEMMA Divided ==
  ASSUME NEW a \in Int, NEW b \in Nat \ {0}
  PROVE  /\ a \div b \in Int /\ a % b \in Int
         /\ b * (a \div b) <= a /\ a < b * (a \div b) + b
         /\ a - (a % b) = b * (a \div b)
OBVIOUS

(* And the only quotient that does so. *)
LEMMA QuotientIs ==
  ASSUME NEW a \in Int, NEW b \in Nat \ {0}, NEW q \in Int, b * q <= a, a < b * q + b
  PROVE  a \div b = q
<1> DEFINE p == a \div b
<1>1. p \in Int /\ b * p <= a /\ a < b * p + b
  BY Divided
<1> HIDE DEF p
<1>2. p <= q
  <2>1. b * p = p * b /\ b * q = q * b /\ b * p \in Int /\ b * q \in Int
    BY <1>1
  <2>2. p * b < q * b + b
    BY <1>1, <2>1
  <2>3. QED BY <1>1, <2>2, ByMultiples
<1>3. q <= p
  <2>1. b * p = p * b /\ b * q = q * b /\ b * p \in Int /\ b * q \in Int
    BY <1>1
  <2>2. q * b < p * b + b
    BY <1>1, <2>1
  <2>3. QED BY <1>1, <2>2, ByMultiples
<1>4. p = q
  BY <1>1, <1>2, <1>3
<1>5. QED BY <1>4 DEF p

(* Live candles of minutes meet the minutes of the trades. *)
LEMMA MinutesMeet ==
  ASSUME NEW N \in Nat \ {0}, NEW trades \in [1 .. N -> LiveTrade]
  PROVE  /\ Streams(trades, Minutes(trades), MinuteStarts(trades), N)
         /\ Meets("1m", trades, Minutes(trades), MinuteStarts(trades), N)
<1> DEFINE keys == Minutes(trades)
           starts == MinuteStarts(trades)
           at(i) == trades[i].moment.at
           off(i) == trades[i].moment.offset
<1>1. Minute \in Nat \ {0}
  BY CandlesAssumption
<1>2. ASSUME NEW i \in 1 .. N
      PROVE  /\ trades[i].moment = [at |-> at(i), offset |-> off(i)] /\ at(i) \in Int /\ off(i) \in Int
             /\ at(i) \div Minute \in Int /\ Minute * (at(i) \div Minute) \in Int
             /\ at(i) - (at(i) % Minute) = Minute * (at(i) \div Minute)
             /\ (Minute * (at(i) \div Minute)) \div Minute = at(i) \div Minute
  <2>1. trades[i].moment \in Moment
    BY DEF LiveTrade
  <2>2. trades[i].moment = [at |-> at(i), offset |-> off(i)] /\ at(i) \in Int /\ off(i) \in Int
    BY <2>1 DEF Moment
  <2> DEFINE a == at(i)
             q == a \div Minute
             b == Minute * q
  <2>3. a \in Int
    BY <2>2
  <2> HIDE DEF a
  <2>4. q \in Int /\ a - (a % Minute) = b
    BY <1>1, <2>3, Divided
  <2> HIDE DEF q
  <2>5. b \in Int /\ Minute * q <= b /\ b < Minute * q + Minute
    BY <1>1, <2>4
  <2> HIDE DEF b
  <2>6. b \div Minute = q
    BY <1>1, <2>4, <2>5, QuotientIs
  <2>7. QED BY <2>2, <2>4, <2>5, <2>6 DEF a, q, b
<1>3. DOMAIN trades = 1 .. N
  OBVIOUS
<1>4. ASSUME NEW i \in 1 .. N
      PROVE  /\ keys[i] = at(i) \div Minute
             /\ starts[i] = [at |-> Minute * (at(i) \div Minute), offset |-> off(i)]
  <2> DEFINE m == trades[i].moment
             b == Minute * (m.at \div Minute)
  <2>1. keys[i] = m.at \div Minute
    BY <1>3 DEF Minutes
  <2>2. starts[i] = [m EXCEPT !.at = b]
    BY <1>3 DEF MinuteStarts
  <2>3. m = [at |-> m.at, offset |-> m.offset]
    BY <1>2
  <2> HIDE DEF m, b, starts
  <2>4. starts[i] = [at |-> b, offset |-> m.offset]
    BY <2>2, <2>3
  <2>5. QED BY <2>1, <2>4 DEF m, b
<1>5. Streams(trades, keys, starts, N)
  <2>1. keys = [i \in 1 .. N |-> keys[i]] /\ starts = [i \in 1 .. N |-> starts[i]]
    BY <1>3 DEF Minutes, MinuteStarts
  <2> DEFINE Begin(i) == Minute * (at(i) \div Minute)
  <2>2. \A i \in 1 .. N : /\ keys[i] \in Int /\ Begin(i) \in Int /\ off(i) \in Int
                           /\ starts[i] = [at |-> Begin(i), offset |-> off(i)]
    <3> HIDE DEF keys, starts
    <3> QED BY <1>2, <1>4
  <2> HIDE DEF keys, starts, Begin, off
  <2>3. ASSUME NEW i \in 1 .. N PROVE starts[i] \in Moment
    <3> DEFINE b == Begin(i)
               o == off(i)
    <3>1. starts[i] = [at |-> b, offset |-> o] /\ b \in Int /\ o \in Int
      BY <2>2
    <3> HIDE DEF b, o
    <3>2. QED BY <3>1 DEF Moment
  <2>4. keys \in [1 .. N -> Int] /\ starts \in [1 .. N -> Moment]
    BY <2>1, <2>2, <2>3
  <2>5. QED BY <2>4 DEF Streams
<1>6. ASSUME NEW i \in 1 .. N, NEW reference
      PROVE  /\ BucketStart("1m", trades[i].moment, reference) = starts[i]
             /\ Bucket("1m", trades[i].moment, reference) = keys[i]
             /\ Bucket("1m", starts[i], reference) = keys[i]
  <2> HIDE DEF keys, starts
  <2>1. BucketStart("1m", trades[i].moment, reference) =
          [at |-> at(i) - (at(i) % Minute), offset |-> off(i)]
    <3> DEFINE m == trades[i].moment
               b == m.at - (m.at % Minute)
    <3>1. BucketStart("1m", m, reference) = [m EXCEPT !.at = b]
      BY DEF BucketStart
    <3>2. m = [at |-> m.at, offset |-> m.offset]
      BY <1>2
    <3> HIDE DEF m, b
    <3>3. BucketStart("1m", m, reference) = [at |-> b, offset |-> m.offset]
      BY <3>1, <3>2
    <3>4. QED BY <3>3 DEF m, b
  <2>2. starts[i] = [at |-> Minute * (at(i) \div Minute), offset |-> off(i)]
    BY <1>4
  <2>3. starts[i].at = Minute * (at(i) \div Minute)
    BY <2>2
  <2>4. BucketStart("1m", trades[i].moment, reference) = starts[i]
    BY <1>2, <2>1, <2>2
  <2>5. /\ Bucket("1m", trades[i].moment, reference) = at(i) \div Minute
        /\ Bucket("1m", starts[i], reference) = starts[i].at \div Minute
    BY DEF Bucket, MinuteOf
  <2>6. QED BY <1>2, <1>4, <2>3, <2>4, <2>5
<1> HIDE DEF keys, starts
<1>7. Meets("1m", trades, keys, starts, N)
  <2>1. 1 \in 1 .. N
    OBVIOUS
  <2>2. BucketStart("1m", trades[1].moment, trades[1].moment) = starts[1]
    BY <1>6, <2>1
  <2>3. ASSUME NEW b \in 1 .. N, NEW m \in 1 .. N
        PROVE  /\ Bucket("1m", starts[b], starts[b]) = keys[b]
               /\ Bucket("1m", trades[m].moment, starts[b]) = keys[m]
               /\ BucketStart("1m", trades[m].moment, starts[b]) = starts[m]
    BY <1>6
  <2>4. QED BY <2>2, <2>3 DEF Meets
<1>8. QED BY <1>5, <1>7 DEF keys, starts

(* Live candles of days meet the days on the clock of the first trade.     *)
LEMMA DaysMeet ==
  ASSUME NEW N \in Nat \ {0}, NEW trades \in [1 .. N -> LiveTrade]
  PROVE  /\ Streams(trades, Days(trades), DayStarts(trades), N)
         /\ Meets("1d", trades, Days(trades), DayStarts(trades), N)
<1> DEFINE keys == Days(trades)
           starts == DayStarts(trades)
           at(i) == trades[i].moment.at
           off == trades[1].moment.offset
           Of(i) == (at(i) + off) \div Day
<1>1. Day \in Nat \ {0}
  BY CandlesAssumption
<1>2. 1 \in 1 .. N /\ DOMAIN trades = 1 .. N
  OBVIOUS
<1>3. off \in Int /\ \A i \in 1 .. N : at(i) \in Int
  BY <1>2 DEF LiveTrade, Moment
<1> HIDE DEF off
<1>4. ASSUME NEW i \in 1 .. N
      PROVE  /\ Of(i) \in Int /\ Day * Of(i) - off \in Int
             /\ ((Day * Of(i) - off) + off) \div Day = Of(i)
  <2> DEFINE a == at(i) + off
             q == a \div Day
             b == Day * q
  <2>1. a \in Int
    BY <1>3
  <2> HIDE DEF a
  <2>2. q \in Int
    BY <1>1, <2>1, Divided
  <2> HIDE DEF q
  <2>3. b \in Int /\ Day * q <= b /\ b < Day * q + Day
    BY <1>1, <2>2
  <2> HIDE DEF b
  <2>4. b \div Day = q
    BY <1>1, <2>2, <2>3, QuotientIs
  <2>5. b - off \in Int /\ (b - off) + off = b
    BY <1>3, <2>3
  <2>6. QED BY <2>2, <2>4, <2>5 DEF a, q, b
<1>5. \A i \in 1 .. N : /\ keys[i] = Of(i)
                        /\ starts[i] = [at |-> Day * Of(i) - off, offset |-> off]
  BY <1>2 DEF Days, DayStarts, off
<1>6. Streams(trades, keys, starts, N)
  <2>1. keys = [i \in 1 .. N |-> keys[i]] /\ starts = [i \in 1 .. N |-> starts[i]]
    BY <1>2 DEF Days, DayStarts
  <2> DEFINE Begin(i) == Day * Of(i) - off
  <2>2. \A i \in 1 .. N : /\ keys[i] \in Int /\ Begin(i) \in Int
                           /\ starts[i] = [at |-> Begin(i), offset |-> off]
    <3> HIDE DEF keys, starts, Of
    <3> QED BY <1>4, <1>5
  <2> HIDE DEF keys, starts, Begin
  <2>3. ASSUME NEW i \in 1 .. N PROVE starts[i] \in Moment
    <3> DEFINE b == Begin(i)
               o == off
    <3>1. starts[i] = [at |-> b, offset |-> o] /\ b \in Int /\ o \in Int
      BY <1>3, <2>2
    <3> HIDE DEF b, o
    <3>2. QED BY <3>1 DEF Moment
  <2>4. keys \in [1 .. N -> Int] /\ starts \in [1 .. N -> Moment]
    BY <2>1, <2>2, <2>3
  <2>5. QED BY <2>4 DEF Streams
<1> HIDE DEF keys, starts
<1>7. ASSUME NEW i \in 1 .. N, NEW b \in 1 .. N
      PROVE  /\ BucketStart("1d", trades[i].moment, starts[b]) = starts[i]
             /\ Bucket("1d", trades[i].moment, starts[b]) = keys[i]
             /\ Bucket("1d", starts[b], starts[b]) = keys[b]
  <2>1. starts[b].offset = off /\ starts[b].at = Day * Of(b) - off
    <3> DEFINE v == Day * Of(b) - off
    <3>1. starts[b] = [at |-> v, offset |-> off]
      BY <1>5
    <3> HIDE DEF v
    <3>2. starts[b].offset = off /\ starts[b].at = v
      BY <3>1
    <3>3. QED BY <3>2 DEF v
  <2>2. DayOf(trades[i].moment, starts[b]) = Of(i)
    BY <2>1 DEF DayOf
  <2>3. DayOf(starts[b], starts[b]) = Of(b)
    BY <1>4, <2>1 DEF DayOf
  <2> HIDE DEF Of
  <2>4. BucketStart("1d", trades[i].moment, starts[b]) = [at |-> Day * Of(i) - off, offset |-> off]
    BY <2>1, <2>2 DEF BucketStart
  <2>5. QED BY <1>5, <2>2, <2>3, <2>4 DEF Bucket
<1>8. BucketStart("1d", trades[1].moment, trades[1].moment) = starts[1]
  <2>1. DayOf(trades[1].moment, trades[1].moment) = Of(1)
    BY DEF DayOf, off
  <2> HIDE DEF Of
  <2>2. BucketStart("1d", trades[1].moment, trades[1].moment) = [at |-> Day * Of(1) - off, offset |-> off]
    BY <2>1 DEF BucketStart, off
  <2>3. QED BY <1>2, <1>5, <2>2
<1>9. Meets("1d", trades, keys, starts, N)
  BY <1>7, <1>8 DEF Meets
<1>10. QED BY <1>6, <1>9 DEF keys, starts

(* Both are folded to the candles of the trades that count. *)
LEMMA CandlesFolded ==
  ASSUME NEW N \in Nat \ {0}, NEW trades \in [1 .. N -> LiveTrade]
  PROVE  /\ FoldTrades("1m", trades) =
              Kept(CandlesBy(trades, Minutes(trades), MinuteStarts(trades), Counted(Minutes(trades))))
         /\ FoldTrades("1d", trades) =
              Kept(CandlesBy(trades, Days(trades), DayStarts(trades), Counted(Days(trades))))
BY MinutesMeet, DaysMeet, FoldedTrades

-----------------------------------------------------------------------------
(* A sum taken part by part is the sum of all. *)
LEMMA SumByParts ==
  ASSUME NEW D, IsFiniteSet(D), NEW f, \A x \in D : f[x] \in Int,
         NEW P, IsFiniteSet(P), NEW part \in [D -> P],
         NEW g, \A p \in P : g[p] = SumFunctionOnSet(f, With(part, D, p))
  PROVE  SumFunctionOnSet(g, P) = SumFunctionOnSet(f, D)
<1> DEFINE In(T) == {x \in D : part[x] \in T}
           F == {T \in SUBSET P : SumFunctionOnSet(g, T) = SumFunctionOnSet(f, In(T))}
<1>1. {} \in F
  <2>1. In({}) = {}
    OBVIOUS
  <2>2. SumFunctionOnSet(g, {}) = 0 /\ SumFunctionOnSet(f, {}) = 0
    BY SumEmpty
  <2>3. QED BY <2>1, <2>2
<1>2. ASSUME NEW X \in SUBSET D PROVE IsFiniteSet(X) /\ SumFunctionOnSet(f, X) \in Int
  BY FS_Subset, SumInt
<1>3. ASSUME NEW p \in P PROVE g[p] \in Int
  <2>1. With(part, D, p) \in SUBSET D
    BY DEF With
  <2>2. QED BY <1>2, <2>1
<1>4. ASSUME NEW T \in SUBSET P, T # {}, \A p \in T : T \ {p} \in F
      PROVE  T \in F
  <2>1. PICK p \in T : TRUE
    BY <1>4
  <2> DEFINE U == T \ {p}
             A == In(T)
             B == With(part, D, p)
             Z == In(U)
  <2>2. IsFiniteSet(T) /\ U \in F
    BY <1>4, <2>1, FS_Subset
  <2>3. SumFunctionOnSet(g, U) = SumFunctionOnSet(f, Z)
    BY <2>2
  <2>4. SumFunctionOnSet(g, T) = g[p] + SumFunctionOnSet(g, U)
    BY <1>3, <2>2, SumAny
  <2>5. g[p] = SumFunctionOnSet(f, B)
    BY <2>1
  <2>6. A \in SUBSET D /\ B \in SUBSET A /\ A \ B = Z
    BY DEF With
  <2> HIDE DEF A, B, Z, F, U
  <2>7. SumFunctionOnSet(f, A) = SumFunctionOnSet(f, B) + SumFunctionOnSet(f, A \ B)
    <3>1. IsFiniteSet(A) /\ \A x \in A : f[x] \in Int
      BY <1>2, <2>6
    <3>2. QED BY <2>6, <3>1, SumSplit
  <2>8. SumFunctionOnSet(g, T) = SumFunctionOnSet(f, A)
    BY <2>3, <2>4, <2>5, <2>6, <2>7
  <2>9. QED BY <2>8 DEF F, A
<1>5. P \in F
  <2> HIDE DEF F
  <2> QED BY <1>1, <1>4, EverySubset
<1>6. In(P) = D
  OBVIOUS
<1> HIDE DEF In
<1>7. SumFunctionOnSet(g, P) = SumFunctionOnSet(f, In(P))
  BY <1>5
<1>8. QED BY <1>6, <1>7

(* Some candles, and the first of each bucket. *)
Buckets(candles, span, first, order) ==
  /\ first = {i \in 1 .. Len(candles) : i = Min(Members(candles, i, span))}
  /\ order = Rising(first)

(* Every candle is in the bucket of exactly one first candle.              *)
LEMMA FirstOfBuckets ==
  ASSUME NEW X, NEW candles \in Seq(X), NEW span, NEW first, NEW order,
         Buckets(candles, span, first, order)
  PROVE  /\ IsFiniteSet(first) /\ first \in SUBSET (1 .. Len(candles)) /\ Cardinality(first) \in Nat
         /\ Rises(order, first)
         /\ \A n \in 1 .. Cardinality(first) : order[n] \in 1 .. Len(candles)
         /\ \A j \in 1 .. Len(candles) :
              \E n \in 1 .. Cardinality(first) :
                SpanKey(candles[j], span) = SpanKey(candles[order[n]], span)
         /\ \A n, m \in 1 .. Cardinality(first) :
              SpanKey(candles[order[n]], span) = SpanKey(candles[order[m]], span) => n = m
<1> DEFINE N == Len(candles)
           Of(i) == Members(candles, i, span)
           key(i) == SpanKey(candles[i], span)
           k == Cardinality(first)
<1>1. N \in Nat /\ DOMAIN candles = 1 .. N
  OBVIOUS
<1>2. \A i : Of(i) = {j \in 1 .. N : key(j) = key(i)}
  BY <1>1 DEF Members
<1> HIDE DEF Of, key, N
<1>3. ASSUME NEW i \in 1 .. N
      PROVE  Of(i) \in SUBSET (1 .. N) /\ Min(Of(i)) \in Of(i) /\ \A j \in Of(i) : Min(Of(i)) <= j
  <2> DEFINE S == Of(i)
  <2>1. S \in SUBSET (1 .. N) /\ i \in S
    BY <1>2
  <2> HIDE DEF S
  <2>2. IsFiniteSet(S) /\ S \in SUBSET Int
    BY <1>1, <2>1, UptoIsFinite
  <2>3. Min(S) \in S /\ \A j \in S : Min(S) <= j
    BY <2>1, <2>2, Extremes
  <2>4. QED BY <2>1, <2>3 DEF S
<1>4. first = {i \in 1 .. N : i = Min(Of(i))} /\ order = Rising(first)
  BY DEF Buckets, Of, N
<1>5. first \in SUBSET (1 .. N)
  BY <1>4
<1>6. IsFiniteSet(first) /\ first \in SUBSET Int
  BY <1>1, <1>5, UptoIsFinite
<1>7. Rises(order, first) /\ k \in Nat
  BY <1>4, <1>6, RisingIs, FS_CardinalityType
<1>8. /\ order \in [1 .. k -> first]
      /\ \A i, j \in 1 .. k : i < j => order[i] < order[j]
  BY <1>7 DEF Rises
<1>9. ASSUME NEW j \in 1 .. N PROVE \E n \in 1 .. k : key(j) = key(order[n])
  <2> DEFINE i == Min(Of(j))
  <2>1. i \in 1 .. N /\ key(i) = key(j)
    BY <1>2, <1>3
  <2> HIDE DEF i
  <2>2. Of(i) = Of(j)
    BY <1>2, <2>1
  <2>3. i \in first
    BY <1>4, <2>1, <2>2 DEF i
  <2>4. PICK n \in 1 .. k : order[n] = i
    BY <1>6, <1>7, <2>3, OrderIsOnto
  <2>5. QED BY <2>1, <2>4
<1>10. ASSUME NEW n \in 1 .. k, NEW m \in 1 .. k, key(order[n]) = key(order[m]) PROVE n = m
  <2>1. order[n] \in first /\ order[m] \in first
    BY <1>8
  <2>2. Of(order[n]) = Of(order[m])
    BY <1>2, <1>10
  <2>3. order[n] = order[m]
    BY <1>4, <2>1, <2>2
  <2>4. n < m => order[n] < order[m]
    BY <1>8
  <2>5. m < n => order[m] < order[n]
    BY <1>8
  <2>6. order[n] \in Int /\ n \in Int /\ m \in Int
    <3>1. \A i \in first : i \in Int
      BY <1>6
    <3> HIDE DEF k
    <3>2. QED BY <1>7, <2>1, <3>1
  <2>7. QED BY <2>3, <2>4, <2>5, <2>6
<1>11. \A n \in 1 .. k : order[n] \in 1 .. N
  BY <1>5, <1>8
<1>12. QED BY <1>5, <1>6, <1>7, <1>9, <1>10, <1>11 DEF key, N

(* Longer candles keep the volume of the candles they are put together of. *)
LEMMA VolumeIsKept ==
  ASSUME NEW candles \in Seq(LiveCandle), NEW span
  PROVE  TotalVolume(Aggregate(candles, span)) = TotalVolume(candles)
<1> DEFINE N == Len(candles)
           first == {i \in 1 .. N : i = Min(Members(candles, i, span))}
           order == Rising(first)
           k == Cardinality(first)
           long == Aggregate(candles, span)
           f == [i \in 1 .. N |-> candles[i].volume]
           g == [n \in DOMAIN long |-> long[n].volume]
           key(i) == SpanKey(candles[i], span)
           Of(n) == Members(candles, order[n], span)
<1>1. N \in Nat /\ DOMAIN candles = 1 .. N
  OBVIOUS
<1>2. Buckets(candles, span, first, order)
  BY DEF Buckets
<1>3. long = [n \in 1 .. k |-> Merged(candles, Of(n), span)]
  BY <1>1 DEF Aggregate
<1>4. /\ k \in Nat /\ \A n \in 1 .. k : order[n] \in 1 .. N
      /\ \A j \in 1 .. N : \E n \in 1 .. k : key(j) = key(order[n])
      /\ \A n, m \in 1 .. k : key(order[n]) = key(order[m]) => n = m
  <2> HIDE DEF first, order
  <2> QED BY <1>2, FirstOfBuckets
<1>5. \A n : Of(n) = {j \in 1 .. N : key(j) = key(order[n])}
  BY <1>1 DEF Members
<1>6. \A i \in 1 .. N : f[i] \in Int
  <2>1. \A i \in 1 .. N : candles[i] \in LiveCandle
    BY ElementOfSeq
  <2>2. QED BY <2>1 DEF LiveCandle
<1>7. IsFiniteSet(1 .. N) /\ IsFiniteSet(1 .. k)
  <2>1. 1 \in Int /\ N \in Int /\ k \in Int
    BY <1>1, <1>4
  <2>2. QED BY ONLY <2>1, FS_Interval
<1> HIDE DEF first, order, k, long, key, Of, N
<1>8. DOMAIN g = 1 .. k /\ DOMAIN f = 1 .. N
  BY <1>3
<1> DEFINE part == [j \in 1 .. N |-> CHOOSE n \in 1 .. k : key(j) = key(order[n])]
<1>9. \A j \in 1 .. N : part[j] \in 1 .. k /\ key(j) = key(order[part[j]])
  BY <1>4
<1>10. part \in [1 .. N -> 1 .. k]
  <2>1. part = [j \in 1 .. N |-> part[j]]
    OBVIOUS
  <2> HIDE DEF part
  <2>2. QED BY <1>9, <2>1
<1> HIDE DEF part
<1>11. ASSUME NEW n \in 1 .. k PROVE Of(n) = With(part, 1 .. N, n)
  <2>1. ASSUME NEW j \in 1 .. N PROVE key(j) = key(order[n]) <=> part[j] = n
    BY <1>4, <1>9
  <2>2. QED BY <1>5, <2>1 DEF With
<1>12. ASSUME NEW n \in 1 .. k PROVE g[n] = SumFunctionOnSet(f, With(part, 1 .. N, n))
  <2> DEFINE P == Of(n)
             h == [i \in P |-> candles[i].volume]
  <2>1. P \in SUBSET (1 .. N)
    BY <1>5
  <2>2. long[n] = Merged(candles, P, span)
    BY <1>3
  <2> HIDE DEF P
  <2>3. g[n] = long[n].volume
    BY <1>3
  <2>4. Merged(candles, P, span).volume = SumFunction(h)
    BY DEF Merged
  <2>5. DOMAIN h = P /\ \A i \in P : f[i] \in Int /\ h[i] = f[i]
    BY <1>6, <2>1
  <2> HIDE DEF h, f, g
  <2>6. SumFunction(h) = SumFunctionOnSet(h, P)
    BY <2>5 DEF SumFunction
  <2>7. IsFiniteSet(P)
    BY <1>7, <2>1, FS_Subset
  <2>8. SumFunctionOnSet(h, P) = SumFunctionOnSet(f, P)
    BY <2>5, <2>7, SumSame
  <2>9. g[n] = SumFunctionOnSet(f, P)
    BY <2>2, <2>3, <2>4, <2>6, <2>8
  <2>10. P = With(part, 1 .. N, n)
    BY <1>11 DEF P
  <2>11. QED BY <2>9, <2>10
<1> HIDE DEF f, g
<1>13. SumFunctionOnSet(g, 1 .. k) = SumFunctionOnSet(f, 1 .. N)
  <2> DEFINE D == 1 .. N
             P == 1 .. k
  <2>1. /\ IsFiniteSet(D) /\ (\A x \in D : f[x] \in Int) /\ IsFiniteSet(P) /\ part \in [D -> P]
        /\ \A p \in P : g[p] = SumFunctionOnSet(f, With(part, D, p))
    BY <1>6, <1>7, <1>10, <1>12
  <2> HIDE DEF D, P
  <2>2. SumFunctionOnSet(g, P) = SumFunctionOnSet(f, D)
    BY ONLY <2>1, SumByParts
  <2>3. QED BY <2>2 DEF D, P
<1>14. TotalVolume(long) = SumFunction(g) /\ TotalVolume(candles) = SumFunction(f)
  BY <1>1 DEF TotalVolume, f, g
<1>15. SumFunction(g) = SumFunctionOnSet(g, 1 .. k) /\ SumFunction(f) = SumFunctionOnSet(f, 1 .. N)
  BY <1>8 DEF SumFunction
<1>16. QED BY <1>13, <1>14, <1>15 DEF long

-----------------------------------------------------------------------------
(* The longer bucket of a minute, on a clock o ahead. *)
SpanOf(key, o, span) == (Minute * key + o) \div span

(* Longer candles are whole minutes long, and clocks whole minutes off.    *)
Whole(o, span) ==
  /\ o \in Int /\ o % Minute = 0
  /\ span \in Nat \ {0} /\ span % Minute = 0

(* Products may be taken in either order of the brackets. *)
LEMMA Associated ==
  ASSUME NEW a \in Int, NEW b \in Int, NEW c \in Int
  PROVE  a * (b * c) = (a * b) * c
OBVIOUS

(* An instant is in the longer bucket of its minute. *)
LEMMA SpanOfInstant ==
  ASSUME NEW o, NEW span, Whole(o, span), NEW a \in Int
  PROVE  /\ (a + o) \div span = SpanOf(a \div Minute, o, span)
         /\ SpanOf(a \div Minute, o, span) \in Int
         /\ a - ((a + o) % span) = span * SpanOf(a \div Minute, o, span) - o
<1> DEFINE t == a \div Minute
           p == o \div Minute
           q == span \div Minute
<1>1. Minute \in Nat \ {0} /\ span \in Nat \ {0} /\ o \in Int
  BY CandlesAssumption DEF Whole
<1>2. t \in Int /\ Minute * t <= a /\ a < Minute * t + Minute
  BY <1>1, Divided
<1>3. p \in Int /\ o = Minute * p
  <2>1. p \in Int /\ o - (o % Minute) = Minute * p
    BY <1>1, Divided
  <2> HIDE DEF p
  <2>2. QED BY <1>1, <2>1 DEF Whole
<1>4. q \in Int /\ span = Minute * q
  <2>1. q \in Int /\ span - (span % Minute) = Minute * q
    <3> DEFINE l == span
    <3>1. l \in Int
      BY <1>1
    <3> HIDE DEF l
    <3>2. l \div Minute \in Int /\ l - (l % Minute) = Minute * (l \div Minute)
      BY <1>1, <3>1, Divided
    <3>3. QED BY <3>2 DEF l
  <2> HIDE DEF q
  <2>2. QED BY <1>1, <2>1 DEF Whole
<1> HIDE DEF t, p, q
<1> DEFINE b == Minute * t + o
           x == b \div span
<1>5. b \in Int
  BY <1>1, <1>2
<1> HIDE DEF b
<1>6. x \in Int /\ span * x <= b /\ b < span * x + span
  BY <1>1, <1>5, Divided
<1> HIDE DEF x
<1>7. b + Minute <= span * x + span
  <2> DEFINE r == q * x + q
             l == t + p
  <2>1. r \in Int /\ l \in Int
    BY <1>2, <1>3, <1>4, <1>6
  <2>2. Minute * l = b
    BY <1>1, <1>2, <1>3, Distributed DEF b
  <2>3. Minute * r = span * x + span
    <3> DEFINE y == q * x
    <3>1. y \in Int /\ Minute * y = span * x
      BY <1>1, <1>4, <1>6, Associated
    <3> HIDE DEF y
    <3>2. Minute * (y + q) = Minute * y + Minute * q
      BY <1>1, <1>4, <3>1, Distributed
    <3>3. QED BY <1>4, <3>1, <3>2 DEF y
  <2> HIDE DEF r, l
  <2>4. l + 1 <= r
    <3> SUFFICES ASSUME r <= l PROVE FALSE
      BY <2>1
    <3>1. Minute * r <= Minute * l
      BY <1>1, <2>1, ProductOrder
    <3>2. span * x + span \in Int
      BY <1>1, <1>6
    <3> DEFINE e == span * x + span
    <3>3. e \in Int /\ b < e /\ Minute * r = e
      BY <1>6, <2>3, <3>2
    <3> HIDE DEF e
    <3>4. QED BY <1>5, <2>2, <3>1, <3>3
  <2>5. Minute * (l + 1) <= Minute * r
    BY <1>1, <2>1, <2>4, ProductOrder
  <2>6. Minute * (l + 1) = b + Minute
    <3>1. Minute * (l + 1) = Minute * l + Minute * 1
      BY <1>1, <2>1, Distributed
    <3>2. QED BY <1>1, <2>2, <3>1
  <2>7. QED BY <2>3, <2>5, <2>6
<1> DEFINE c == a + o
<1>8. c \in Int /\ b <= c /\ c < b + Minute
  <2> DEFINE w == Minute * t
  <2>1. w \in Int /\ w <= a /\ a < w + Minute /\ b = w + o
    BY <1>1, <1>2 DEF b
  <2> HIDE DEF w
  <2>2. QED BY <1>1, <2>1
<1> HIDE DEF c
<1> DEFINE sx == span * x
<1>9. sx \in Int /\ sx <= c /\ c < sx + span
  <2>1. sx \in Int /\ sx <= b /\ b + Minute <= sx + span
    BY <1>1, <1>6, <1>7
  <2> HIDE DEF sx
  <2>2. QED BY <1>1, <1>5, <1>8, <2>1
<1>10. c \div span = x
  BY <1>1, <1>6, <1>8, <1>9, QuotientIs
<1>11. c - (c % span) = span * x
  BY <1>1, <1>8, <1>10, Divided
<1>12. c % span \in Int
  BY <1>1, <1>8, Divided
<1> HIDE DEF sx
<1>13. a - (c % span) = sx - o
  <2>1. c - (c % span) = sx
    BY <1>11 DEF sx
  <2> DEFINE d == c % span
  <2>2. d \in Int /\ c - d = sx
    BY <1>12, <2>1
  <2> HIDE DEF d
  <2>3. a - d = sx - o
    BY <1>1, <2>2 DEF c
  <2>4. QED BY <2>3 DEF d
<1>14. SpanOf(t, o, span) = x
  BY DEF SpanOf, x, b
<1>15. QED BY <1>6, <1>10, <1>13, <1>14 DEF t, c, sx

(* Later minutes are in no earlier bucket. *)
LEMMA SpansRise ==
  ASSUME NEW o, NEW span, Whole(o, span), NEW x \in Int, NEW y \in Int, x <= y
  PROVE  SpanOf(x, o, span) \in Int /\ SpanOf(y, o, span) \in Int /\ SpanOf(x, o, span) <= SpanOf(y, o, span)
<1> DEFINE a == Minute * x + o
           b == Minute * y + o
           p == a \div span
           q == b \div span
<1>1. Minute \in Nat \ {0} /\ span \in Nat \ {0} /\ o \in Int
  BY CandlesAssumption DEF Whole
<1>2. a \in Int /\ b \in Int /\ a <= b
  <2>1. Minute * x <= Minute * y
    BY <1>1, ProductOrder
  <2>2. Minute * x \in Int /\ Minute * y \in Int
    BY <1>1
  <2>3. QED BY <1>1, <2>1, <2>2
<1> HIDE DEF a, b
<1>3. /\ p \in Int /\ span * p <= a
      /\ q \in Int /\ b < span * q + span
  BY <1>1, <1>2, Divided
<1> HIDE DEF p, q
<1>4. p * span < q * span + span
  <2>1. span * p = p * span /\ span * q = q * span /\ span * p \in Int /\ span * q \in Int
    BY <1>1, <1>3
  <2>2. QED BY <1>1, <1>2, <1>3, <2>1
<1>5. p <= q
  BY <1>1, <1>3, <1>4, ByMultiples
<1>6. QED BY <1>3, <1>5 DEF SpanOf, p, q, a, b

(* Trades on one clock. *)
OneClock(trades, o, N) ==
  /\ N \in Nat \ {0} /\ trades \in [1 .. N -> LiveTrade]
  /\ \A i \in 1 .. N : trades[i].moment.offset = o

(* Where a minute, or a longer bucket, begins. *)
StartOfMinute(key, o) == [at |-> Minute * key, offset |-> o]
StartOfSpan(key, o, span) == [at |-> span * key - o, offset |-> o]

(* Where the minute and the longer bucket of such a trade are. *)
LEMMA SpansOfTrades ==
  ASSUME NEW trades, NEW o, NEW N, OneClock(trades, o, N), NEW span, Whole(o, span)
  PROVE  /\ Streams(trades, Spans(trades, span), SpanStarts(trades, span), N)
         /\ \A i \in 1 .. N :
              /\ Spans(trades, span)[i] = SpanOf(Minutes(trades)[i], o, span)
              /\ SpanStarts(trades, span)[i] = StartOfSpan(Spans(trades, span)[i], o, span)
              /\ MinuteStarts(trades)[i] = StartOfMinute(Minutes(trades)[i], o)
<1> DEFINE keys == Spans(trades, span)
           starts == SpanStarts(trades, span)
<1>1. DOMAIN trades = 1 .. N /\ N \in Nat \ {0} /\ trades \in [1 .. N -> LiveTrade]
  BY DEF OneClock
<1>2. o \in Int /\ span \in Nat \ {0}
  BY DEF Whole
<1>3. ASSUME NEW i \in 1 .. N
      PROVE  /\ keys[i] = SpanOf(Minutes(trades)[i], o, span) /\ keys[i] \in Int
             /\ starts[i] = [at |-> span * keys[i] - o, offset |-> o]
             /\ MinuteStarts(trades)[i] = [at |-> Minute * Minutes(trades)[i], offset |-> o]
  <2> DEFINE m == trades[i].moment
             a == m.at
             s == SpanOf(a \div Minute, o, span)
             c == a - ((a + o) % span)
             d == Minute * (a \div Minute)
  <2>1. a \in Int /\ m = [at |-> a, offset |-> o]
    BY DEF OneClock, LiveTrade, Moment
  <2>2. keys[i] = WallClock(m) \div span /\ Minutes(trades)[i] = a \div Minute
    BY <1>1 DEF Spans, Minutes
  <2>3. WallClock(m) = a + o
    <3> HIDE DEF m
    <3> QED BY <2>1 DEF WallClock
  <2>4. starts[i] = [m EXCEPT !.at = m.at - (WallClock(m) % span)]
    BY <1>1 DEF SpanStarts
  <2>5. MinuteStarts(trades)[i] = [m EXCEPT !.at = d]
    BY <1>1 DEF MinuteStarts
  <2> HIDE DEF m, starts, keys
  <2>6. starts[i] = [m EXCEPT !.at = c]
    BY <2>3, <2>4
  <2> HIDE DEF a, c, d
  <2>7. starts[i] = [at |-> c, offset |-> o] /\ MinuteStarts(trades)[i] = [at |-> d, offset |-> o]
    BY <2>1, <2>5, <2>6
  <2>8. (a + o) \div span = s /\ s \in Int /\ a - ((a + o) % span) = span * s - o
    BY <2>1, SpanOfInstant
  <2> HIDE DEF s
  <2>9. keys[i] = s /\ s \in Int /\ c = span * s - o
    BY <2>2, <2>3, <2>8 DEF c
  <2>10. s = SpanOf(Minutes(trades)[i], o, span) /\ d = Minute * Minutes(trades)[i]
    BY <2>2 DEF s, d
  <2>11. QED BY <2>7, <2>9, <2>10
<1>4. keys = [i \in 1 .. N |-> keys[i]] /\ starts = [i \in 1 .. N |-> starts[i]]
  BY <1>1 DEF Spans, SpanStarts
<1> HIDE DEF keys, starts
<1>5. ASSUME NEW i \in 1 .. N PROVE starts[i] \in Moment
  <2> DEFINE b == span * keys[i] - o
  <2>1. starts[i] = [at |-> b, offset |-> o]
    BY <1>3
  <2>2. b \in Int
    <3>1. keys[i] \in Int
      BY <1>3
    <3>2. QED BY <1>2, <3>1
  <2> HIDE DEF b
  <2>3. QED BY <1>2, <2>1, <2>2 DEF Moment
<1>6. keys \in [1 .. N -> Int] /\ starts \in [1 .. N -> Moment]
  BY <1>3, <1>4, <1>5
<1>7. Streams(trades, keys, starts, N)
  BY <1>1, <1>6 DEF Streams
<1>8. \A i \in 1 .. N :
        /\ keys[i] = SpanOf(Minutes(trades)[i], o, span)
        /\ starts[i] = StartOfSpan(keys[i], o, span)
        /\ MinuteStarts(trades)[i] = StartOfMinute(Minutes(trades)[i], o)
  BY <1>3 DEF StartOfSpan, StartOfMinute
<1>9. QED BY <1>7, <1>8 DEF keys, starts

-----------------------------------------------------------------------------
Volumes(trades) == [i \in DOMAIN trades |-> trades[i].volume]

(* A candle is made of the trades at some places. *)
MadeOf(candle, trades, W) ==
  /\ candle.open = trades[Min(W)].price /\ candle.close = trades[Max(W)].price
  /\ \A i \in W : candle.low <= trades[i].price /\ trades[i].price <= candle.high
  /\ \E i \in W : trades[i].price = candle.high
  /\ \E i \in W : trades[i].price = candle.low
  /\ candle.volume = SumFunctionOnSet(Volumes(trades), W)

(* Trades, and some places of them. *)
Places(trades, N, W) ==
  /\ N \in Nat /\ trades \in [1 .. N -> LiveTrade]
  /\ W \in SUBSET (1 .. N) /\ W # {}

(* The places have a first and a last, and their trades numbers. *)
LEMMA PlacesOf ==
  ASSUME NEW trades, NEW N, NEW W, Places(trades, N, W)
  PROVE  /\ IsFiniteSet(W) /\ W \in SUBSET Int
         /\ Min(W) \in W /\ (\A i \in W : Min(W) <= i)
         /\ Max(W) \in W /\ (\A i \in W : i <= Max(W))
         /\ \A i \in W : /\ trades[i].price \in Int /\ trades[i].volume \in Int
                         /\ Volumes(trades)[i] = trades[i].volume
<1>1. N \in Nat /\ W \in SUBSET (1 .. N) /\ W # {} /\ trades \in [1 .. N -> LiveTrade]
  BY DEF Places
<1>2. IsFiniteSet(W) /\ W \in SUBSET Int
  BY <1>1, UptoIsFinite
<1>3. \A i \in W : trades[i] \in LiveTrade /\ Volumes(trades)[i] = trades[i].volume
  BY <1>1 DEF Volumes
<1>4. QED BY <1>1, <1>2, <1>3, Extremes DEF LiveTrade

(* The volume of some places, however it is added up. *)
LEMMA VolumeOf ==
  ASSUME NEW trades, NEW N, NEW W, Places(trades, N, W)
  PROVE  /\ SumFunction([i \in W |-> trades[i].volume]) = SumFunctionOnSet(Volumes(trades), W)
         /\ SumFunctionOnSet(Volumes(trades), W) \in Int
<1> DEFINE h == [i \in W |-> trades[i].volume]
           f == Volumes(trades)
<1>1. DOMAIN h = W /\ IsFiniteSet(W) /\ \A i \in W : f[i] \in Int /\ h[i] = f[i]
  BY PlacesOf
<1> HIDE DEF h, f
<1>2. SumFunction(h) = SumFunctionOnSet(h, W)
  BY <1>1 DEF SumFunction
<1>3. SumFunctionOnSet(h, W) = SumFunctionOnSet(f, W) /\ SumFunctionOnSet(f, W) \in Int
  BY <1>1, SumSame, SumInt
<1>4. QED BY <1>2, <1>3 DEF h, f

(* Some trades make one candle. *)
LEMMA CandleIsMadeOf ==
  ASSUME NEW trades, NEW N, NEW W, Places(trades, N, W), NEW starts
  PROVE  MadeOf(CandleOf(trades, starts, W), trades, W) /\ CandleOf(trades, starts, W).start = starts[Min(W)]
<1> DEFINE H == {trades[i].price : i \in W}
           c == CandleOf(trades, starts, W)
<1>1. IsFiniteSet(W) /\ \A i \in W : trades[i].price \in Int
  BY PlacesOf
<1>2. H \in SUBSET Int /\ IsFiniteSet(H) /\ H # {}
  <2> DEFINE g == [i \in W |-> trades[i].price]
  <2>1. H = {g[i] : i \in W}
    OBVIOUS
  <2> HIDE DEF g
  <2>2. IsFiniteSet({g[i] : i \in W})
    BY <1>1, ImageIsFinite
  <2>3. IsFiniteSet(H)
    BY <2>1, <2>2, Zenon
  <2>4. H \in SUBSET Int /\ H # {}
    BY <1>1 DEF Places
  <2>5. QED BY <2>3, <2>4
<1>3. c = [start |-> starts[Min(W)], open |-> trades[Min(W)].price, close |-> trades[Max(W)].price,
           high |-> Max(H), low |-> Min(H), volume |-> SumFunction([i \in W |-> trades[i].volume])]
  BY DEF CandleOf
<1>4. /\ Max(H) \in H /\ \A x \in H : x <= Max(H)
      /\ Min(H) \in H /\ \A x \in H : Min(H) <= x
  <2> HIDE DEF H
  <2> QED BY <1>2, Extremes
<1> DEFINE hi == Max(H)
           lo == Min(H)
<1>5. /\ \A i \in W : lo <= trades[i].price /\ trades[i].price <= hi
      /\ \E i \in W : trades[i].price = hi
      /\ \E i \in W : trades[i].price = lo
  <2> HIDE DEF hi, lo
  <2>1. hi \in H /\ lo \in H /\ \A x \in H : lo <= x /\ x <= hi
    BY <1>4 DEF hi, lo
  <2>2. QED BY <2>1
<1>6. SumFunction([i \in W |-> trades[i].volume]) = SumFunctionOnSet(Volumes(trades), W)
  BY VolumeOf
<1> HIDE DEF hi, lo, H
<1>7. c = [start |-> starts[Min(W)], open |-> trades[Min(W)].price, close |-> trades[Max(W)].price,
           high |-> hi, low |-> lo, volume |-> SumFunctionOnSet(Volumes(trades), W)]
  BY <1>3, <1>6 DEF hi, lo
<1> HIDE DEF c
<1>8. /\ c.start = starts[Min(W)] /\ c.open = trades[Min(W)].price /\ c.close = trades[Max(W)].price
      /\ c.high = hi /\ c.low = lo /\ c.volume = SumFunctionOnSet(Volumes(trades), W)
  BY <1>7
<1>9. MadeOf(c, trades, W)
  BY <1>5, <1>8 DEF MadeOf
<1>10. QED BY <1>8, <1>9 DEF c

(* And no other that begins with them. *)
LEMMA MadeOfIsOne ==
  ASSUME NEW trades, NEW N, NEW W, Places(trades, N, W), NEW starts,
         NEW o, NEW c, NEW h, NEW l, NEW v, NEW candle,
         candle = [start |-> starts[Min(W)], open |-> o, close |-> c, high |-> h, low |-> l, volume |-> v],
         MadeOf(candle, trades, W)
  PROVE  candle = CandleOf(trades, starts, W)
<1> DEFINE H == {trades[i].price : i \in W}
<1>1. \A i \in W : trades[i].price \in Int
  BY PlacesOf
<1>2. /\ o = trades[Min(W)].price /\ c = trades[Max(W)].price
      /\ (\A i \in W : l <= trades[i].price /\ trades[i].price <= h)
      /\ (\E i \in W : trades[i].price = h) /\ (\E i \in W : trades[i].price = l)
      /\ v = SumFunctionOnSet(Volumes(trades), W)
  BY DEF MadeOf
<1>3. H \in SUBSET Int /\ h \in H /\ l \in H /\ \A x \in H : l <= x /\ x <= h
  BY <1>1, <1>2
<1>4. Max(H) = h /\ Min(H) = l
  <2> HIDE DEF H
  <2> QED BY <1>3, GreatestOf, LeastOf
<1>5. CandleOf(trades, starts, W) =
        [start |-> starts[Min(W)], open |-> trades[Min(W)].price, close |-> trades[Max(W)].price,
         high |-> Max(H), low |-> Min(H), volume |-> SumFunction([i \in W |-> trades[i].volume])]
  BY DEF CandleOf
<1>6. SumFunction([i \in W |-> trades[i].volume]) = v
  BY <1>2, VolumeOf
<1> HIDE DEF H
<1>7. QED BY <1>2, <1>4, <1>5, <1>6

(* Candles, the newest first, each made of the trades of its key.          *)
Layered(candles, c, F, trades, keys, N, C) ==
  /\ N \in Nat /\ trades \in [1 .. N -> LiveTrade] /\ keys \in [1 .. N -> Int] /\ C \in SUBSET (1 .. N)
  /\ \A i, j \in C : i <= j => keys[i] <= keys[j]
  /\ c \in Nat /\ F \in [1 .. c -> Int] /\ \A n, m \in 1 .. c : n < m => F[n] > F[m]
  /\ \A n \in 1 .. c : /\ With(keys, C, F[n]) # {}
                       /\ MadeOf(candles[n], trades, With(keys, C, F[n]))
                       /\ candles[n].start.at = Minute * F[n]

(* The trades of some of the candles. *)
OfAll(keys, C, F, P) == {i \in C : \E p \in P : keys[i] = F[p]}

(* Some of them put together are made of the trades of all.                *)
LEMMA MergedIsMade ==
  ASSUME NEW candles, NEW c, NEW F, NEW trades, NEW keys, NEW N, NEW C,
         Layered(candles, c, F, trades, keys, N, C),
         NEW P \in SUBSET (1 .. c), P # {}, NEW span
  PROVE  /\ Places(trades, N, OfAll(keys, C, F, P))
         /\ MadeOf(Merged(candles, P, span), trades, OfAll(keys, C, F, P))
         /\ Max(P) \in P
         /\ Merged(candles, P, span).start = SpanStart(candles[Max(P)], span)
<1> DEFINE Q == OfAll(keys, C, F, P)
           W(n) == With(keys, C, F[n])
           a == Max(P)
           b == Min(P)
           f == Volumes(trades)
           merged == Merged(candles, P, span)
<1>1. /\ N \in Nat /\ trades \in [1 .. N -> LiveTrade] /\ keys \in [1 .. N -> Int] /\ C \in SUBSET (1 .. N)
      /\ \A i, j \in C : i <= j => keys[i] <= keys[j]
  BY DEF Layered
<1>2. c \in Nat /\ F \in [1 .. c -> Int] /\ \A n, m \in 1 .. c : n < m => F[n] > F[m]
  BY DEF Layered
<1>3. \A n \in 1 .. c : /\ W(n) # {} /\ MadeOf(candles[n], trades, W(n))
                        /\ candles[n].start.at = Minute * F[n]
  BY DEF Layered
<1>4. IsFiniteSet(P) /\ P \in SUBSET Int
  BY <1>2, UptoIsFinite
<1>5. a \in P /\ b \in P /\ \A n \in P : b <= n /\ n <= a
  BY <1>4, Extremes
<1>6. ASSUME NEW n \in P PROVE Places(trades, N, W(n)) /\ W(n) \in SUBSET Q
  <2>1. W(n) # {}
    BY <1>3
  <2>2. W(n) \in SUBSET C /\ W(n) \in SUBSET Q
    BY DEF With, OfAll
  <2> HIDE DEF W, Q
  <2>3. QED BY <1>1, <2>1, <2>2 DEF Places
<1>7. ASSUME NEW i \in Q PROVE i \in C /\ \E n \in P : i \in W(n)
  BY DEF OfAll, With
<1>8. Places(trades, N, Q)
  <2> HIDE DEF Q, W
  <2>1. Q \in SUBSET (1 .. N)
    BY <1>1, <1>7
  <2>2. Q # {}
    <3>1. W(a) # {} /\ W(a) \in SUBSET Q
      BY <1>3, <1>5, <1>6
    <3>2. QED BY <3>1
  <2>3. QED BY <1>1, <2>1, <2>2 DEF Places
<1>9. ASSUME NEW n \in P, NEW i \in W(n) PROVE keys[i] = F[n] /\ i \in C /\ i \in 1 .. N
  BY <1>1 DEF With
<1>10. ASSUME NEW n \in 1 .. c, NEW m \in 1 .. c, n <= m PROVE F[m] <= F[n] /\ (F[m] = F[n] => m = n)
  <2>1. n = m \/ n < m
    BY <1>2, <1>10
  <2>2. F[n] \in Int /\ F[m] \in Int
    BY <1>2
  <2>3. CASE n = m
    BY <2>2, <2>3
  <2>4. CASE n < m
    <3>1. F[n] > F[m]
      BY <1>2, <2>4
    <3>2. QED BY <2>2, <3>1
  <2>5. QED BY <2>1, <2>3, <2>4
<1> HIDE DEF Q, W, a, b
<1>11. Min(Q) = Min(W(a))
  <2> DEFINE w == Min(W(a))
  <2>1. w \in W(a) /\ \A i \in W(a) : w <= i
    BY <1>5, <1>6, PlacesOf
  <2> HIDE DEF w
  <2>2. w \in Q /\ keys[w] = F[a] /\ w \in C /\ w \in 1 .. N
    BY <1>5, <1>6, <1>9, <2>1
  <2>3. ASSUME NEW i \in Q PROVE w <= i
    <3>1. PICK n \in P : i \in W(n)
      BY <1>7
    <3>2. keys[i] = F[n] /\ i \in C /\ i \in 1 .. N
      BY <1>9, <3>1
    <3>3. F[a] <= F[n] /\ (F[a] = F[n] => a = n)
      BY <1>5, <1>10
    <3>4. CASE a = n
      BY <2>1, <3>1, <3>4
    <3>5. CASE a # n
      <4>1. SUFFICES ASSUME i < w PROVE FALSE
        BY <2>2, <3>2
      <4>2. keys[i] <= keys[w]
        BY <1>1, <2>2, <3>2, <4>1
      <4>3. F[a] \in Int /\ F[n] \in Int
        BY <1>2, <1>5
      <4>4. QED BY <2>2, <3>2, <3>3, <3>5, <4>2, <4>3
    <3>6. QED BY <3>4, <3>5
  <2>4. Q \in SUBSET Int
    BY <1>8, PlacesOf
  <2>5. Min(Q) = w
    BY <2>2, <2>3, <2>4, LeastOf
  <2>6. QED BY <2>5 DEF w
<1>12. Max(Q) = Max(W(b))
  <2> DEFINE w == Max(W(b))
  <2>1. w \in W(b) /\ \A i \in W(b) : i <= w
    BY <1>5, <1>6, PlacesOf
  <2> HIDE DEF w
  <2>2. w \in Q /\ keys[w] = F[b] /\ w \in C /\ w \in 1 .. N
    BY <1>5, <1>6, <1>9, <2>1
  <2>3. ASSUME NEW i \in Q PROVE i <= w
    <3>1. PICK n \in P : i \in W(n)
      BY <1>7
    <3>2. keys[i] = F[n] /\ i \in C /\ i \in 1 .. N
      BY <1>9, <3>1
    <3>3. F[n] <= F[b] /\ (F[n] = F[b] => n = b)
      BY <1>5, <1>10
    <3>4. CASE b = n
      BY <2>1, <3>1, <3>4
    <3>5. CASE b # n
      <4>1. SUFFICES ASSUME w < i PROVE FALSE
        BY <2>2, <3>2
      <4>2. keys[w] <= keys[i]
        BY <1>1, <2>2, <3>2, <4>1
      <4>3. F[b] \in Int /\ F[n] \in Int
        BY <1>2, <1>5
      <4>4. QED BY <2>2, <3>2, <3>3, <3>5, <4>2, <4>3
    <3>6. QED BY <3>4, <3>5
  <2>4. Q \in SUBSET Int
    BY <1>8, PlacesOf
  <2>5. Max(Q) = w
    BY <2>2, <2>3, <2>4, GreatestOf
  <2>6. QED BY <2>5 DEF w
<1>13. ASSUME NEW n \in P, NEW m \in P, n < m
       PROVE  candles[m].start.at < candles[n].start.at
  <2> DEFINE x == F[m]
             y == F[n]
  <2>1. x \in Int /\ y \in Int /\ x + 1 <= y
    BY <1>2, <1>13
  <2>2. candles[m].start.at = Minute * x /\ candles[n].start.at = Minute * y
    BY <1>3
  <2> HIDE DEF x, y
  <2>3. Minute \in Nat \ {0}
    BY CandlesAssumption
  <2>4. Minute * (x + 1) <= Minute * y
    BY <2>1, <2>3, ProductOrder
  <2>5. Minute * (x + 1) = Minute * x + Minute * 1
    BY <2>1, <2>3, Distributed
  <2>6. Minute * x \in Int /\ Minute * y \in Int
    BY <2>1, <2>3
  <2>7. QED BY <2>2, <2>3, <2>4, <2>5, <2>6
<1>14. \A n \in P : candles[n].start.at \in Int
  <2>1. Minute \in Int
    BY CandlesAssumption
  <2>2. \A n \in P : F[n] \in Int
    BY <1>2
  <2>3. \A n \in P : Minute * F[n] \in Int
    BY <2>1, <2>2
  <2>4. QED BY <1>3, <2>3
<1>15. Oldest(candles, P) = candles[a]
  <2> DEFINE Ok(i) == \A j \in P : candles[i].start.at <= candles[j].start.at
             o == CHOOSE i \in P : Ok(i)
  <2>1. ASSUME NEW j \in P PROVE candles[a].start.at <= candles[j].start.at
    <3>1. a = j \/ j < a
      BY <1>4, <1>5
    <3>2. candles[a].start.at \in Int /\ candles[j].start.at \in Int
      BY <1>5, <1>14
    <3>3. CASE a = j
      BY <3>2, <3>3
    <3>4. CASE a # j
      BY <1>5, <1>13, <3>1, <3>2, <3>4
    <3>5. QED BY <3>3, <3>4
  <2>2. ASSUME NEW i \in P, Ok(i) PROVE i = a
    <3>1. i = a \/ i < a
      BY <1>4, <1>5
    <3>2. CASE i < a
      <4>1. candles[a].start.at < candles[i].start.at
        BY <1>5, <1>13, <3>2
      <4>2. candles[i].start.at <= candles[a].start.at
        BY <1>5, <2>2
      <4>3. QED BY <1>5, <1>14, <4>1, <4>2
    <3>3. QED BY <3>1, <3>2
  <2>3. o = a
    <3>1. a \in P /\ Ok(a)
      BY <1>5, <2>1
    <3> HIDE DEF Ok
    <3>2. o \in P /\ Ok(o)
      BY <3>1
    <3> HIDE DEF o
    <3>3. QED BY <2>2, <3>2
  <2>4. Oldest(candles, P) = candles[o]
    BY DEF Oldest
  <2> HIDE DEF o
  <2>5. QED BY <2>3, <2>4
<1>16. Latest(candles, P) = candles[b]
  <2> DEFINE Ok(i) == \A j \in P : candles[i].start.at >= candles[j].start.at
             o == CHOOSE i \in P : Ok(i)
  <2>1. ASSUME NEW j \in P PROVE candles[b].start.at >= candles[j].start.at
    <3>1. b = j \/ b < j
      BY <1>4, <1>5
    <3>2. candles[b].start.at \in Int /\ candles[j].start.at \in Int
      BY <1>5, <1>14
    <3>3. CASE b = j
      BY <3>2, <3>3
    <3>4. CASE b # j
      BY <1>5, <1>13, <3>1, <3>2, <3>4
    <3>5. QED BY <3>3, <3>4
  <2>2. ASSUME NEW i \in P, Ok(i) PROVE i = b
    <3>1. i = b \/ b < i
      BY <1>4, <1>5
    <3>2. CASE b < i
      <4>1. candles[i].start.at < candles[b].start.at
        BY <1>5, <1>13, <3>2
      <4>2. candles[i].start.at >= candles[b].start.at
        BY <1>5, <2>2
      <4>3. QED BY <1>5, <1>14, <4>1, <4>2
    <3>3. QED BY <3>1, <3>2
  <2>3. o = b
    <3>1. b \in P /\ Ok(b)
      BY <1>5, <2>1
    <3> HIDE DEF Ok
    <3>2. o \in P /\ Ok(o)
      BY <3>1
    <3> HIDE DEF o
    <3>3. QED BY <2>2, <3>2
  <2>4. Latest(candles, P) = candles[o]
    BY DEF Latest
  <2> HIDE DEF o
  <2>5. QED BY <2>3, <2>4
<1> DEFINE Hs == {candles[i].high : i \in P}
           Ls == {candles[i].low : i \in P}
           hi == Max(Hs)
           lo == Min(Ls)
           v == SumFunction([i \in P |-> candles[i].volume])
<1>17. /\ merged.start = SpanStart(candles[a], span)
       /\ merged.open = candles[a].open /\ merged.close = candles[b].close
       /\ merged.high = hi /\ merged.low = lo /\ merged.volume = v
  <2> HIDE DEF hi, lo, v
  <2>1. merged = [start |-> SpanStart(candles[a], span), open |-> candles[a].open, close |-> candles[b].close,
                  high |-> hi, low |-> lo, volume |-> v]
    BY <1>15, <1>16 DEF Merged, hi, lo, v
  <2> HIDE DEF merged
  <2>2. QED BY <2>1
<1>18. merged.open = trades[Min(Q)].price /\ merged.close = trades[Max(Q)].price
  <2>1. MadeOf(candles[a], trades, W(a)) /\ MadeOf(candles[b], trades, W(b))
    BY <1>3, <1>5
  <2>2. candles[a].open = trades[Min(W(a))].price /\ candles[b].close = trades[Max(W(b))].price
    BY <2>1 DEF MadeOf
  <2> HIDE DEF merged
  <2>3. QED BY <1>11, <1>12, <1>17, <2>2
<1>19. ASSUME NEW n \in P
       PROVE  /\ \A i \in W(n) : candles[n].low <= trades[i].price /\ trades[i].price <= candles[n].high
              /\ (\E i \in Q : trades[i].price = candles[n].high) /\ (\E i \in Q : trades[i].price = candles[n].low)
              /\ candles[n].high \in Int /\ candles[n].low \in Int
              /\ candles[n].volume = SumFunctionOnSet(f, W(n))
  <2>1. MadeOf(candles[n], trades, W(n)) /\ W(n) \in SUBSET Q
    BY <1>3, <1>6
  <2>2. \A i \in W(n) : trades[i].price \in Int
    BY <1>6, PlacesOf
  <2>3. /\ \A i \in W(n) : candles[n].low <= trades[i].price /\ trades[i].price <= candles[n].high
        /\ (\E i \in W(n) : trades[i].price = candles[n].high) /\ (\E i \in W(n) : trades[i].price = candles[n].low)
        /\ candles[n].volume = SumFunctionOnSet(f, W(n))
    BY <2>1 DEF MadeOf
  <2>4. QED BY <2>1, <2>2, <2>3
<1>20. /\ Hs \in SUBSET Int /\ IsFiniteSet(Hs) /\ Hs # {}
       /\ Ls \in SUBSET Int /\ IsFiniteSet(Ls) /\ Ls # {}
  <2> DEFINE h == [i \in P |-> candles[i].high]
             l == [i \in P |-> candles[i].low]
  <2>1. Hs = {h[i] : i \in P} /\ Ls = {l[i] : i \in P}
    OBVIOUS
  <2> HIDE DEF h, l
  <2>2. IsFiniteSet({h[i] : i \in P}) /\ IsFiniteSet({l[i] : i \in P})
    BY <1>4, ImageIsFinite
  <2>3. IsFiniteSet(Hs) /\ IsFiniteSet(Ls)
    BY <2>1, <2>2, Zenon
  <2>4. Hs \in SUBSET Int /\ Hs # {} /\ Ls \in SUBSET Int /\ Ls # {}
    BY <1>19
  <2>5. QED BY <2>3, <2>4
<1>21. hi \in Hs /\ lo \in Ls /\ (\A x \in Hs : x <= hi) /\ (\A x \in Ls : lo <= x)
  <2> HIDE DEF Hs, Ls
  <2> QED BY <1>20, Extremes
<1> HIDE DEF hi, lo
<1>22. hi \in Int /\ lo \in Int /\ \A n \in P : candles[n].high <= hi /\ lo <= candles[n].low
  <2>1. hi \in Int /\ lo \in Int
    <3> HIDE DEF Hs, Ls
    <3> QED BY <1>20, <1>21
  <2>2. QED BY <1>21, <2>1
<1>23. ASSUME NEW i \in Q PROVE lo <= trades[i].price /\ trades[i].price <= hi
  <2>1. PICK n \in P : i \in W(n)
    BY <1>7
  <2>2. candles[n].low <= trades[i].price /\ trades[i].price <= candles[n].high
    BY <1>19, <2>1
  <2>3. candles[n].low \in Int /\ candles[n].high \in Int /\ trades[i].price \in Int
    BY <1>8, <1>19, PlacesOf
  <2>4. QED BY <1>22, <2>2, <2>3
<1>24. (\E i \in Q : trades[i].price = hi) /\ (\E i \in Q : trades[i].price = lo)
  <2>1. PICK n \in P, m \in P : candles[n].high = hi /\ candles[m].low = lo
    BY <1>21
  <2>2. QED BY <1>19, <2>1
<1>25. v = SumFunctionOnSet(f, Q)
  <2> DEFINE g == [i \in P |-> candles[i].volume]
             part == [i \in Q |-> CHOOSE n \in P : i \in W(n)]
  <2>1. \A i \in Q : part[i] \in P /\ i \in W(part[i])
    BY <1>7
  <2>2. part \in [Q -> P]
    <3>1. part = [i \in Q |-> part[i]]
      OBVIOUS
    <3> HIDE DEF part
    <3>2. QED BY <2>1, <3>1
  <2> HIDE DEF part
  <2>3. ASSUME NEW n \in P PROVE W(n) = With(part, Q, n)
    <3>1. ASSUME NEW i \in Q PROVE i \in W(n) <=> part[i] = n
      <4>1. i \in W(part[i]) /\ part[i] \in P
        BY <2>1
      <4>2. ASSUME i \in W(n) PROVE part[i] = n
        <5>1. F[n] = F[part[i]]
          BY <1>9, <4>1, <4>2
        <5>2. n <= part[i] \/ part[i] <= n
          <6>1. n \in Int /\ part[i] \in Int
            BY <1>4, <4>1
          <6>2. QED BY <6>1
        <5>3. QED BY <1>10, <4>1, <5>1, <5>2
      <4>3. QED BY <4>1, <4>2
    <3>2. QED BY <1>6, <3>1 DEF With
  <2>4. IsFiniteSet(Q) /\ \A i \in Q : f[i] \in Int
    BY <1>8, PlacesOf
  <2>5. \A n \in P : g[n] = SumFunctionOnSet(f, With(part, Q, n))
    <3> SUFFICES ASSUME NEW n \in P PROVE g[n] = SumFunctionOnSet(f, With(part, Q, n))
      OBVIOUS
    <3>1. g[n] = candles[n].volume
      OBVIOUS
    <3> HIDE DEF g, f
    <3>2. QED BY <1>19, <2>3, <3>1
  <2>6. DOMAIN g = P /\ v = SumFunction(g)
    OBVIOUS
  <2> HIDE DEF g, f, v
  <2>7. SumFunctionOnSet(g, P) = SumFunctionOnSet(f, Q)
    <3> DEFINE R == P
    <3>1. /\ IsFiniteSet(Q) /\ (\A i \in Q : f[i] \in Int) /\ IsFiniteSet(R) /\ part \in [Q -> R]
          /\ \A n \in R : g[n] = SumFunctionOnSet(f, With(part, Q, n))
      BY <1>4, <2>2, <2>4, <2>5
    <3> HIDE DEF R
    <3>2. SumFunctionOnSet(g, R) = SumFunctionOnSet(f, Q)
      BY ONLY <3>1, SumByParts
    <3>3. QED BY <3>2 DEF R
  <2>8. QED BY <2>6, <2>7 DEF SumFunction
<1> HIDE DEF merged, v
<1>26. MadeOf(merged, trades, Q)
  BY <1>17, <1>18, <1>23, <1>24, <1>25 DEF MadeOf
<1>27. QED BY <1>5, <1>8, <1>17, <1>26 DEF merged, Q, a

-----------------------------------------------------------------------------
(* Minutes on one clock, as the trades that count make them.               *)
LEMMA MinuteLayers ==
  ASSUME NEW trades, NEW o, NEW N, OneClock(trades, o, N), NEW span, Whole(o, span),
         NEW keys, NEW C, NEW K, NEW F, NEW cs,
         keys = Minutes(trades), C = Counted(keys), K = Keys(keys, C), F = Falling(K),
         cs = CandlesBy(trades, keys, MinuteStarts(trades), C)
  PROVE  /\ Layered(cs, Cardinality(K), F, trades, keys, N, C)
         /\ cs \in Seq(LiveCandle) /\ Len(cs) = Cardinality(K)
         /\ \A n \in 1 .. Cardinality(K) :
              cs[n].start = StartOfMinute(F[n], o) /\ F[n] \in K
         /\ \A x \in K : \E n \in 1 .. Cardinality(K) : F[n] = x
<1> DEFINE c == Cardinality(K)
           starts == MinuteStarts(trades)
           W(n) == With(keys, C, F[n])
<1>1. N \in Nat \ {0} /\ trades \in [1 .. N -> LiveTrade]
  BY DEF OneClock
<1>2. Streams(trades, keys, starts, N)
  BY <1>1, MinutesMeet
<1>3. keys \in [1 .. N -> Int] /\ DOMAIN keys = 1 .. N
  BY <1>2 DEF Streams
<1>4. C \in SUBSET (1 .. N) /\ \A i \in C : \A j \in 1 .. i - 1 : keys[j] <= keys[i]
  BY <1>3 DEF Counted
<1>5. \A i, j \in C : i <= j => keys[i] <= keys[j]
  <2> SUFFICES ASSUME NEW i \in C, NEW j \in C, i <= j PROVE keys[i] <= keys[j]
    OBVIOUS
  <2>1. i \in 1 .. N /\ j \in 1 .. N
    BY <1>4
  <2>2. keys[i] \in Int /\ keys[j] \in Int
    BY <1>3, <2>1
  <2>3. i = j \/ i \in 1 .. j - 1
    BY <1>1, <2>1
  <2>4. QED BY <1>4, <2>2, <2>3
<1>6. K \in SUBSET Int /\ IsFiniteSet(K)
  BY <1>1, <1>3, <1>4, KeysOf
<1>7. Falls(F, K)
  BY <1>6, FallingIs
<1>8. c \in Nat /\ F \in [1 .. c -> K] /\ \A n, m \in 1 .. c : n < m => F[n] > F[m]
  BY <1>6, <1>7, FS_CardinalityType DEF Falls
<1>9. \A x \in K : \E n \in 1 .. c : F[n] = x
  BY <1>6, <1>7, OrderIsOnto
<1>10. /\ cs \in Seq(LiveCandle) /\ Len(cs) = c
       /\ \A n \in 1 .. c : cs[n] = CandleOf(trades, starts, W(n)) /\ W(n) # {}
  BY <1>2, <1>4, CandlesOfKeys
<1> HIDE DEF c, starts
<1>11. ASSUME NEW n \in 1 .. c
       PROVE  /\ MadeOf(cs[n], trades, W(n))
              /\ cs[n].start = StartOfMinute(F[n], o)
  <2> DEFINE P == W(n)
  <2>1. P # {} /\ P \in SUBSET (1 .. N) /\ \A i \in P : keys[i] = F[n]
    BY <1>4, <1>10 DEF With
  <2>2. cs[n] = CandleOf(trades, starts, P)
    BY <1>10
  <2> HIDE DEF P
  <2>3. Places(trades, N, P)
    BY <1>1, <2>1 DEF Places
  <2>4. MadeOf(CandleOf(trades, starts, P), trades, P) /\ CandleOf(trades, starts, P).start = starts[Min(P)]
    BY <2>3, CandleIsMadeOf
  <2>5. Min(P) \in P
    BY <2>3, PlacesOf
  <2>6. starts[Min(P)] = StartOfMinute(keys[Min(P)], o)
    <3>1. Min(P) \in 1 .. N
      BY <2>1, <2>5
    <3>2. MinuteStarts(trades)[Min(P)] = StartOfMinute(Minutes(trades)[Min(P)], o)
      BY <3>1, SpansOfTrades
    <3>3. QED BY <3>2 DEF starts
  <2>7. keys[Min(P)] = F[n]
    BY <2>1, <2>5
  <2>8. cs[n].start = StartOfMinute(F[n], o)
    BY <2>2, <2>4, <2>6, <2>7
  <2>9. MadeOf(cs[n], trades, P)
    BY <2>2, <2>4
  <2>10. QED BY <2>8, <2>9 DEF P
<1>12. \A n \in 1 .. c : W(n) # {} /\ MadeOf(cs[n], trades, W(n)) /\ cs[n].start.at = Minute * F[n]
  <2> SUFFICES ASSUME NEW n \in 1 .. c
               PROVE  W(n) # {} /\ MadeOf(cs[n], trades, W(n)) /\ cs[n].start.at = Minute * F[n]
    OBVIOUS
  <2> DEFINE b == Minute * F[n]
  <2>1. cs[n].start = [at |-> b, offset |-> o]
    BY <1>11 DEF StartOfMinute
  <2> HIDE DEF b
  <2>2. cs[n].start.at = b
    BY <2>1
  <2>3. QED BY <1>10, <1>11, <2>2 DEF b
<1>13. F \in [1 .. c -> Int]
  BY <1>6, <1>8
<1>14. Layered(cs, c, F, trades, keys, N, C)
  BY <1>1, <1>3, <1>4, <1>5, <1>8, <1>12, <1>13 DEF Layered
<1>15. \A n \in 1 .. c : F[n] \in K
  BY <1>8
<1>16. QED BY <1>9, <1>10, <1>11, <1>14, <1>15 DEF c

(* The bucket of such a minute, and where it begins. *)
LEMMA SpanOfMinute ==
  ASSUME NEW o, NEW span, Whole(o, span), NEW candle, NEW key \in Int,
         candle.start = StartOfMinute(key, o)
  PROVE  /\ SpanKey(candle, span) = <<SpanOf(key, o, span), o>>
         /\ SpanStart(candle, span) = StartOfSpan(SpanOf(key, o, span), o, span)
<1> DEFINE x == Minute * key
           m == candle.start
           b == x - ((x + o) % span)
<1>1. Minute \in Nat \ {0} /\ x \in Int
  BY CandlesAssumption
<1>2. x \div Minute = key
  <2>1. Minute * key <= x /\ x < Minute * key + Minute
    BY <1>1
  <2> HIDE DEF x
  <2>2. QED BY <1>1, <2>1, QuotientIs
<1>3. SpanOf(key, o, span) = (x + o) \div span
  BY DEF SpanOf
<1>4. m = [at |-> x, offset |-> o]
  BY DEF StartOfMinute
<1> HIDE DEF x, m
<1>5. m.at = x /\ m.offset = o
  BY <1>4
<1>6. WallClock(m) = x + o
  BY <1>5 DEF WallClock
<1>7. SpanKey(candle, span) = <<(x + o) \div span, o>>
  BY <1>5, <1>6 DEF SpanKey, m
<1>8. SpanStart(candle, span) = [m EXCEPT !.at = m.at - (WallClock(m) % span)]
  BY DEF SpanStart, m
<1>9. b = span * SpanOf(key, o, span) - o
  <2>1. x - ((x + o) % span) = span * SpanOf(x \div Minute, o, span) - o
    BY <1>1, SpanOfInstant
  <2>2. QED BY <1>2, <2>1
<1>10. SpanStart(candle, span) = [m EXCEPT !.at = b]
  BY <1>5, <1>6, <1>8
<1> HIDE DEF b
<1>11. SpanStart(candle, span) = [at |-> b, offset |-> o]
  BY <1>4, <1>10
<1>12. SpanStart(candle, span) = StartOfSpan(SpanOf(key, o, span), o, span)
  BY <1>9, <1>11 DEF StartOfSpan
<1>13. QED BY <1>3, <1>7, <1>12

(* On one clock the longer candles put together from the minutes are those *)
(* of the same trades.                                                     *)
LEMMA LongerOnOneClock ==
  ASSUME NEW trades, NEW o, NEW N, OneClock(trades, o, N), NEW span, Whole(o, span),
         NEW C, NEW cs, C = Counted(Minutes(trades)),
         cs = CandlesBy(trades, Minutes(trades), MinuteStarts(trades), C)
  PROVE  Aggregate(cs, span) = CandlesBy(trades, Spans(trades, span), SpanStarts(trades, span), C)
<1> DEFINE keys == Minutes(trades)
           spans == Spans(trades, span)
           starts == SpanStarts(trades, span)
           K == Keys(keys, C)
           F == Falling(K)
           c == Cardinality(K)
           S(key) == SpanOf(key, o, span)
           G == Keys(spans, C)
           first == {i \in 1 .. Len(cs) : i = Min(Members(cs, i, span))}
           order == Rising(first)
           k == Cardinality(first)
           u == [n \in 1 .. k |-> S(F[order[n]])]
<1>1. N \in Nat \ {0} /\ trades \in [1 .. N -> LiveTrade] /\ o \in Int
  BY DEF OneClock, Whole
<1>2. /\ Streams(trades, spans, starts, N)
      /\ \A i \in 1 .. N : /\ spans[i] = S(keys[i])
                           /\ starts[i] = StartOfSpan(spans[i], o, span)
  BY SpansOfTrades
<1>3. /\ Layered(cs, c, F, trades, keys, N, C)
      /\ cs \in Seq(LiveCandle) /\ Len(cs) = c
      /\ \A n \in 1 .. c : cs[n].start = StartOfMinute(F[n], o) /\ F[n] \in K
      /\ \A x \in K : \E n \in 1 .. c : F[n] = x
  <2> HIDE DEF keys, K, F
  <2>1. keys = Minutes(trades) /\ C = Counted(keys) /\ K = Keys(keys, C) /\ F = Falling(K)
        /\ cs = CandlesBy(trades, keys, MinuteStarts(trades), C)
    BY DEF keys, K, F
  <2>2. QED BY <2>1, MinuteLayers
<1>4. /\ C \in SUBSET (1 .. N) /\ c \in Nat /\ F \in [1 .. c -> Int]
      /\ \A n, m \in 1 .. c : n < m => F[n] > F[m]
  BY <1>3 DEF Layered
<1>5. ASSUME NEW n \in 1 .. c
      PROVE  /\ SpanKey(cs[n], span) = <<S(F[n]), o>>
             /\ SpanStart(cs[n], span) = StartOfSpan(S(F[n]), o, span)
  <2>1. F[n] \in Int /\ cs[n].start = StartOfMinute(F[n], o)
    BY <1>3, <1>4
  <2> HIDE DEF F
  <2>2. QED BY <2>1, SpanOfMinute
<1>6. ASSUME NEW n \in 1 .. c, NEW m \in 1 .. c
      PROVE  SpanKey(cs[n], span) = SpanKey(cs[m], span) <=> S(F[n]) = S(F[m])
  <2> DEFINE x == S(F[n])
             y == S(F[m])
  <2>1. SpanKey(cs[n], span) = <<x, o>> /\ SpanKey(cs[m], span) = <<y, o>>
    BY <1>5
  <2> HIDE DEF x, y
  <2>2. SpanKey(cs[n], span) = SpanKey(cs[m], span) <=> x = y
    BY <2>1
  <2>3. QED BY <2>2 DEF x, y
<1>7. Buckets(cs, span, first, order)
  BY DEF Buckets
<1>8. /\ IsFiniteSet(first) /\ k \in Nat /\ Rises(order, first)
      /\ \A n \in 1 .. k : order[n] \in 1 .. c
      /\ \A j \in 1 .. c : \E n \in 1 .. k : SpanKey(cs[j], span) = SpanKey(cs[order[n]], span)
      /\ \A n, m \in 1 .. k : SpanKey(cs[order[n]], span) = SpanKey(cs[order[m]], span) => n = m
  <2> HIDE DEF first, order, c
  <2>1. cs \in Seq(LiveCandle) /\ Len(cs) = c
    BY <1>3
  <2>2. IsFiniteSet(first) /\ k \in Nat /\ Rises(order, first)
    BY <1>7, <2>1, FirstOfBuckets
  <2>3. \A n \in 1 .. k : order[n] \in 1 .. Len(cs)
    BY <1>7, <2>1, FirstOfBuckets
  <2>4. ASSUME NEW j \in 1 .. Len(cs)
        PROVE  \E n \in 1 .. k : SpanKey(cs[j], span) = SpanKey(cs[order[n]], span)
    <3>1. Len(cs) \in Nat
      BY <2>1
    <3>2. QED BY <1>7, <2>1, <3>1, FirstOfBuckets
  <2>5. \A n, m \in 1 .. k : SpanKey(cs[order[n]], span) = SpanKey(cs[order[m]], span) => n = m
    BY <1>7, <2>1, FirstOfBuckets
  <2> HIDE DEF k
  <2>6. QED BY <2>1, <2>2, <2>3, <2>4, <2>5
<1>9. Aggregate(cs, span) = [n \in 1 .. k |-> Merged(cs, Members(cs, order[n], span), span)]
  <2>1. DOMAIN cs = 1 .. Len(cs)
    BY <1>3
  <2>2. QED BY <2>1 DEF Aggregate
<1>10. DOMAIN cs = 1 .. c
  <2> HIDE DEF c
  <2> QED BY <1>3
<1>11. \A i \in C : keys[i] \in K /\ spans[i] = S(keys[i])
  BY <1>2, <1>4 DEF Keys
<1>12. \A x \in K : \E i \in C : keys[i] = x
  BY DEF Keys
<1>13. G \in SUBSET Int /\ IsFiniteSet(G) /\ K \in SUBSET Int
  <2>1. spans \in [1 .. N -> Int]
    BY <1>2 DEF Streams
  <2>2. keys \in [1 .. N -> Int]
    BY <1>3 DEF Layered
  <2> HIDE DEF spans, keys
  <2>3. N \in Nat /\ C \in SUBSET (1 .. N)
    BY <1>1, <1>4
  <2>4. G \in SUBSET Int /\ IsFiniteSet(G)
    BY ONLY <2>1, <2>3, KeysOf
  <2>5. K \in SUBSET Int
    BY ONLY <2>2, <2>3, KeysOf
  <2>6. QED BY <2>4, <2>5
<1>14. /\ \A i \in C : spans[i] \in G
       /\ \A x \in G : \E i \in C : spans[i] = x
  BY DEF Keys
<1>15. \A n, m \in 1 .. k : n < m => order[n] < order[m]
  BY <1>8 DEF Rises
<1> HIDE DEF keys, spans, starts, K, F, c, G, first, order, k, S
<1>16. ASSUME NEW n \in 1 .. c, NEW m \in 1 .. c, n < m PROVE S(F[m]) <= S(F[n]) /\ S(F[m]) \in Int /\ S(F[n]) \in Int
  <2> DEFINE x == F[m]
             y == F[n]
  <2>1. x \in Int /\ y \in Int /\ x <= y
    <3>1. F[n] \in Int /\ F[m] \in Int /\ F[n] > F[m]
      BY <1>4, <1>16
    <3>2. QED BY <3>1
  <2> HIDE DEF x, y
  <2>2. SpanOf(x, o, span) \in Int /\ SpanOf(y, o, span) \in Int /\ SpanOf(x, o, span) <= SpanOf(y, o, span)
    BY <2>1, SpansRise
  <2>3. QED BY <2>2 DEF S, x, y
<1>17. \A n \in 1 .. k : u[n] = S(F[order[n]]) /\ u[n] \in G
  <2> SUFFICES ASSUME NEW n \in 1 .. k PROVE S(F[order[n]]) \in G
    OBVIOUS
  <2>1. F[order[n]] \in K
    BY <1>3, <1>8
  <2>2. PICK i \in C : keys[i] = F[order[n]]
    BY <1>12, <2>1
  <2>3. QED BY <1>11, <1>14, <2>2
<1>18. u \in [1 .. k -> G]
  <2>1. u = [n \in 1 .. k |-> u[n]]
    OBVIOUS
  <2> HIDE DEF u
  <2>2. QED BY <1>17, <2>1
<1> HIDE DEF u
<1>19. ASSUME NEW n \in 1 .. k, NEW m \in 1 .. k, n < m PROVE u[n] > u[m]
  <2> DEFINE x == order[n]
             y == order[m]
  <2>1. x \in 1 .. c /\ y \in 1 .. c /\ x < y
    BY <1>8, <1>15, <1>19
  <2>2. S(F[y]) <= S(F[x]) /\ S(F[x]) \in Int /\ S(F[y]) \in Int
    BY <1>16, <2>1
  <2>3. n # m
    BY <1>8, <1>19
  <2>4. S(F[x]) # S(F[y])
    BY <1>6, <1>8, <2>1, <2>3
  <2>5. u[n] = S(F[x]) /\ u[m] = S(F[y])
    BY <1>17
  <2> HIDE DEF x, y
  <2>6. QED BY <2>2, <2>4, <2>5
<1>20. ASSUME NEW z \in G PROVE \E n \in 1 .. k : u[n] = z
  <2>1. PICK i \in C : spans[i] = z
    BY <1>14
  <2>2. PICK j \in 1 .. c : F[j] = keys[i]
    BY <1>3, <1>11
  <2>3. PICK n \in 1 .. k : SpanKey(cs[j], span) = SpanKey(cs[order[n]], span)
    BY <1>8
  <2>4. S(F[j]) = S(F[order[n]])
    BY <1>6, <1>8, <2>3
  <2>5. QED BY <1>11, <1>17, <2>1, <2>2, <2>4
<1>21. Cardinality(G) = k /\ u = Falling(G)
  BY <1>8, <1>13, <1>18, <1>19, <1>20, FallingIsOne
<1>22. CandlesBy(trades, spans, starts, C) =
         [n \in 1 .. k |-> CandleOf(trades, starts, With(spans, C, u[n]))]
  <2>1. CandlesBy(trades, spans, starts, C) =
          [n \in 1 .. Cardinality(G) |-> CandleOf(trades, starts, With(spans, C, Falling(G)[n]))]
    BY DEF CandlesBy, Keys, With, G
  <2>2. QED BY <1>21, <2>1
<1>23. ASSUME NEW n \in 1 .. k
       PROVE  Merged(cs, Members(cs, order[n], span), span) = CandleOf(trades, starts, With(spans, C, u[n]))
  <2> DEFINE P == Members(cs, order[n], span)
             Q == OfAll(keys, C, F, P)
             merged == Merged(cs, P, span)
  <2>1. \A j : j \in P <=> j \in 1 .. c /\ S(F[j]) = u[n]
    <3>1. \A j : j \in P <=> j \in 1 .. c /\ SpanKey(cs[j], span) = SpanKey(cs[order[n]], span)
      BY <1>10 DEF Members
    <3> HIDE DEF P
    <3>2. QED BY <1>6, <1>8, <1>17, <3>1
  <2>2. order[n] \in P
    BY <1>8, <1>17, <2>1
  <2> HIDE DEF P
  <2>3. P \in SUBSET (1 .. c) /\ P # {}
    BY <2>1, <2>2
  <2>4. Q = With(spans, C, u[n])
    <3>1. ASSUME NEW i \in C PROVE (\E p \in P : keys[i] = F[p]) <=> spans[i] = u[n]
      <4>1. PICK j \in 1 .. c : F[j] = keys[i]
        BY <1>3, <1>11
      <4>2. spans[i] = S(keys[i])
        BY <1>11
      <4>3. QED BY <2>1, <4>1, <4>2
    <3>2. QED BY <3>1 DEF OfAll, With
  <2> HIDE DEF Q
  <2>5. /\ Places(trades, N, Q) /\ MadeOf(merged, trades, Q)
        /\ Max(P) \in P /\ merged.start = SpanStart(cs[Max(P)], span)
    BY <1>3, <2>3, MergedIsMade DEF Q
  <2>6. SpanStart(cs[Max(P)], span) = StartOfSpan(u[n], o, span)
    <3>1. Max(P) \in 1 .. c /\ S(F[Max(P)]) = u[n]
      BY <2>1, <2>5
    <3>2. QED BY <1>5, <3>1
  <2>7. starts[Min(Q)] = StartOfSpan(u[n], o, span)
    <3>1. Min(Q) \in Q
      BY <2>5, PlacesOf
    <3>2. Min(Q) \in 1 .. N /\ spans[Min(Q)] = u[n]
      BY <1>4, <2>4, <3>1 DEF With
    <3>3. QED BY <1>2, <3>2
  <2> DEFINE a == SpanStart(Oldest(cs, P), span)
             b == Oldest(cs, P).open
             d == Latest(cs, P).close
             h == Max({cs[i].high : i \in P})
             l == Min({cs[i].low : i \in P})
             v == SumFunction([i \in P |-> cs[i].volume])
  <2>8. merged = [start |-> a, open |-> b, close |-> d, high |-> h, low |-> l, volume |-> v]
    BY DEF Merged
  <2> HIDE DEF a, b, d, h, l, v, merged
  <2>9. a = starts[Min(Q)]
    <3>1. merged.start = a
      BY <2>8
    <3>2. QED BY <2>5, <2>6, <2>7, <3>1
  <2>10. merged = [start |-> starts[Min(Q)], open |-> b, close |-> d, high |-> h, low |-> l, volume |-> v]
    BY <2>8, <2>9
  <2>11. merged = CandleOf(trades, starts, Q)
    BY ONLY <2>5, <2>10, MadeOfIsOne
  <2>12. QED BY <2>4, <2>11 DEF merged, P
<1>24. QED
  <2>1. [n \in 1 .. k |-> Merged(cs, Members(cs, order[n], span), span)] =
          [n \in 1 .. k |-> CandleOf(trades, starts, With(spans, C, u[n]))]
    BY <1>23
  <2>2. QED BY <1>9, <1>22, <2>1 DEF spans, starts

(* Whatever the trades, their live candles are exact. *)
LEMMA CandlesMatch ==
  ASSUME NEW N \in Nat \ {0}, NEW trades \in [1 .. N -> LiveTrade],
         \A i \in 1 .. N : trades[i].moment.offset % Minute = 0,
         NEW span \in Nat \ {0}, span % Minute = 0
  PROVE  CandlesMatchTheTrades(trades, span)
<1> DEFINE C == Counted(Minutes(trades))
           minutes == FoldTrades("1m", trades)
           cs == CandlesBy(trades, Minutes(trades), MinuteStarts(trades), C)
           ds == CandlesBy(trades, Days(trades), DayStarts(trades), Counted(Days(trades)))
           long == Aggregate(minutes, span)
           o == trades[1].moment.offset
<1>1. minutes = Kept(cs) /\ FoldTrades("1d", trades) = Kept(ds)
  BY CandlesFolded
<1>2. cs \in Seq(LiveCandle)
  <2>1. Streams(trades, Minutes(trades), MinuteStarts(trades), N)
    BY MinutesMeet
  <2>2. C \in SUBSET (1 .. N)
    BY <2>1 DEF Streams, Counted
  <2> HIDE DEF C
  <2>3. QED BY <2>1, <2>2, CandlesOfKeys
<1>3. DOMAIN trades = 1 .. N /\ 1 \in 1 .. N
  OBVIOUS
<1> HIDE DEF cs, minutes, ds
<1>4. TotalVolume(long) = TotalVolume(minutes)
  <2>1. Kept(cs) \in Seq(LiveCandle)
    BY <1>2, KeptIs
  <2>2. QED BY <1>1, <2>1, VolumeIsKept
<1>5. ASSUME \A i \in 1 .. N : trades[i].moment.offset = o, Len(cs) <= Limit
      PROVE  long = CandlesBy(trades, Spans(trades, span), SpanStarts(trades, span), C)
  <2>1. minutes = cs
    BY <1>1, <1>2, <1>5, KeptWhole
  <2>2. o \in Int
    BY <1>3 DEF LiveTrade, Moment
  <2>3. o % Minute = 0
    BY <1>3
  <2> HIDE DEF o
  <2>4. OneClock(trades, o, N) /\ Whole(o, span)
    BY <1>5, <2>2, <2>3 DEF OneClock, Whole
  <2>5. Aggregate(cs, span) = CandlesBy(trades, Spans(trades, span), SpanStarts(trades, span), C)
    BY <2>4, LongerOnOneClock DEF cs
  <2>6. QED BY <2>1, <2>5
<1>6. QED
  BY <1>1, <1>3, <1>4, <1>5 DEF CandlesMatchTheTrades, cs, ds, minutes

-----------------------------------------------------------------------------
(* FactsAnnounceTheGates: whatever the order, its quote and the open       *)
(* orders are, the facts beside a confirmation announce the blocks of the  *)
(* gates, no more and no less.                                             *)
THEOREM EveryGateIsAnnounced == CalcSpec => []FactsAnnounceTheGates
<1>1. Asked => FactsAnnounceTheGates
  <2> SUFFICES ASSUME Asked, kind = "facts"
               PROVE  FactsMatchTheGates(input.intent, input.quote, input.orders)
    BY DEF FactsAnnounceTheGates
  <2>1. input.intent \in Intent /\ input.quote \in Quote
    BY InputsAreTyped DEF Asked
  <2>2. QED BY <2>1, FactsAnnounceEveryGate
<1>2. QED BY <1>1, AskedHolds, PTL

(* PassIsFounded: no PASS of what is unknown, stale or does not suffice.   *)
THEOREM EveryPassIsFounded == CalcSpec => []PassIsFounded
<1>1. Asked => PassIsFounded
  <2> SUFFICES ASSUME Asked, kind = "facts"
               PROVE  NoUnfoundedPass(input.intent, input.quote, input.orders)
    BY DEF PassIsFounded
  <2>1. /\ input.intent \in Intent /\ input.quote \in Quote
        /\ input.orders \in SUBSET OpenOrders \/ input.orders = None
    BY InputsAreTyped DEF Asked
  <2>2. QED BY <2>1, NoPassIsUnfounded
<1>2. QED BY <1>1, AskedHolds, PTL

(* LiveCandlesAreExact: whatever trades come, in whatever order and by     *)
(* whatever clocks, every trade that counts counts once, in the minute and *)
(* the day it belongs to, and longer candles are those of the same trades. *)
THEOREM EveryLiveCandleIsExact == CalcSpec => []LiveCandlesAreExact
<1>1. Asked => LiveCandlesAreExact
  <2> SUFFICES ASSUME Asked, kind = "trades" PROVE CandlesMatchTheTrades(input, Span)
    BY DEF LiveCandlesAreExact
  <2>1. PICK n \in 1 .. MaxTrades : input \in [1 .. n -> Trades]
    BY DEF Asked
  <2>2. Trades \subseteq Trade /\ MaxTrades \in Nat /\ Span \in Nat \ {0} /\ Span % Minute = 0
    BY InputsAreTyped DEF Amount
  <2>3. n \in Nat \ {0}
    BY <2>2
  <2>4. \A t \in Trade : t \in LiveTrade /\ t.moment.offset % Minute = 0
    BY DEF Trade, LiveTrade, Moment, Amount
  <2>5. input \in [1 .. n -> LiveTrade] /\ \A i \in 1 .. n : input[i].moment.offset % Minute = 0
    BY <2>1, <2>2, <2>4
  <2>6. QED BY <2>2, <2>3, <2>5, CandlesMatch
<1>2. QED BY <1>1, AskedHolds, PTL

(* PortfolioAddsUp: for any holdings and any rate every holding counts     *)
(* once, and the portfolio and the ticket agree on what can be sold.       *)
THEOREM EveryPortfolioAddsUp == CalcSpec => []PortfolioAddsUp
<1>1. Asked => PortfolioAddsUp
  <2> SUFFICES ASSUME Asked PROVE PortfolioAddsUp
    OBVIOUS
  <2>1. ASSUME kind = "portfolio" PROVE HoldingsAddUp(input, Rate)
    <3>1. input \in Portfolios
      BY <2>1 DEF Asked, Portfolios
    <3>2. QED BY <3>1, PortfolioCounts
  <2>2. ASSUME kind = "sellable" PROVE SellableAgreesWithTheTicket(input.item, input.orders)
    BY <2>2, SellableIsOne DEF Asked
  <2>3. QED BY <2>1, <2>2 DEF PortfolioAddsUp
<1>2. QED BY <1>1, AskedHolds, PTL

(* ReadingsAreEvenHanded: no reading, alignment, book or tape takes a      *)
(* side, and timeframes do not meddle with each other.                     *)
THEOREM EveryReadingIsEvenHanded == CalcSpec => []ReadingsAreEvenHanded
<1>1. Asked => ReadingsAreEvenHanded
  <2> SUFFICES ASSUME Asked PROVE ReadingsAreEvenHanded
    OBVIOUS
  <2>1. kind = "reading" => ReadingFollowsTheVotes(input)
    BY ReadingIsEven DEF Asked
  <2>2. kind = "alignment" => AlignmentIsUnanimous(input.intraday, input.day)
    BY AlignmentIsEven DEF Asked
  <2>3. kind = "timeframes" => TimeframesStandAlone(input.data, input.selected, input.stale)
    BY TimeframesAreAlone DEF Asked
  <2>4. kind = "book" => BookIsEven(input, Depth)
    BY InputsAreTyped, BookWeighsAlike DEF Asked, Amount
  <2>5. kind = "tape" => TapeIsEven(input)
    BY InputsAreTyped, TapeWeighsAlike DEF Asked, TapeTrade
  <2>6. QED BY <2>1, <2>2, <2>3, <2>4, <2>5 DEF ReadingsAreEvenHanded
<1>2. QED BY <1>1, AskedHolds, PTL

(* DirectionIsHonest: for any settings that leave room for a validation,   *)
(* none of it learns from the future, a full history suffices for it, and  *)
(* a BUY or SELL is earned.                                                *)
THEOREM EveryDirectionIsHonest == CalcSpec => []DirectionIsHonest
<1>1. Asked => DirectionIsHonest
  <2> SUFFICES ASSUME Asked, kind = "direction"
               PROVE  /\ LearnsFromThePast(input.mode, input.n, input.outlook)
                      /\ FullHistoryIsEnough(input.mode, input.n, input.outlook)
                      /\ SignalIsEarned(input.mode, input.n, input.outlook)
    BY DEF DirectionIsHonest
  <2>1. /\ input.mode \in DOMAIN Horizon /\ input.n \in Nat
        /\ input.outlook.score \in 0 .. 100 /\ input.outlook.agreement \in 0 .. 100
    <3>1. MaxCandles \in Nat
      BY DirectionAssumption
    <3>2. Lengths \subseteq 0 .. MaxCandles /\ Outlooks \subseteq Outlook
      BY InputsAreTyped
    <3>3. QED BY <3>1, <3>2 DEF Asked, Outlook
  <2>2. QED BY <2>1, NoLookAhead, HistorySuffices, DirectionEarned
<1>2. QED BY <1>1, AskedHolds, PTL

(* What is calculated of a chart leaves no average outside its candles. *)
LEMMA AveragesOfChart == Asked => AveragesStayInside
<1> SUFFICES ASSUME Asked, kind = "chart"
             PROVE  /\ EmaStaysInside(input, Period)
                    /\ VwapStaysInSession(input)
                    /\ RsiIsMirrored(input, Period)
                    /\ VolumeRatioStaysInside(input, Recent, Least)
  BY DEF AveragesStayInside
<1>1. input \in Charted
  BY InputsAreTyped DEF Asked, Charted
<1>2. Period \in Nat \ {0} /\ Recent \in Nat /\ Least \in Nat \ {0}
  BY InputsAreTyped DEF Amount
<1>3. QED BY <1>1, <1>2, EmaStays, VwapStays, RsiMirrored, VolumeStaysInside

(* AveragesStayInside: for any chart, and any lengths of the windows, no   *)
(* average leaves the candles it is made of, no volume ratio the volumes,  *)
(* and strength is measured like weakness.                                 *)
THEOREM EveryAverageStaysInside == CalcSpec => []AveragesStayInside
BY AveragesOfChart, AskedHolds, PTL

(* ChartIsTrue: for any chart and any daily candles, averages stay inside, *)
(* only the swing of the edge repaints, levels enclose the price, few      *)
(* columns keep the chart, and the close of the day before stays it.       *)
THEOREM EveryChartIsTrue == CalcSpec => []ChartIsTrue
<1>1. Asked => ChartIsTrue
  <2> SUFFICES ASSUME Asked PROVE ChartIsTrue
    OBVIOUS
  <2>1. Window \in Nat \ {0} /\ Recent \in Nat \ {0}
    BY InputsAreTyped DEF Amount
  <2>2. ASSUME kind = "chart"
        PROVE  /\ SwingsRepaintAtTheEdgeOnly(input, Window)
               /\ LevelsEnclose(input, Tail(input), Recent, Window)
               /\ ColumnsKeepTheChart(input)
    <3>1. input \in Charted /\ input # << >>
      BY <2>2, InputsAreTyped DEF Asked, Charted
    <3>2. Tail(input) \in Charted
      BY <3>1 DEF Charted
    <3>3. SwingsRepaintAtTheEdgeOnly(input, Window)
      BY <2>1, <3>1, SwingsAreOfTheEdge
    <3>4. QED BY <2>1, <3>1, <3>2, <3>3, LevelsAreAround, ColumnsKeep
  <2>3. ASSUME kind = "day" PROVE PreviousCloseStands(input.price, input.day, input.dailies, input.opened)
    <3> DEFINE dailies == input.dailies
               opened == input.opened
               price == input.price
               day == input.day
    <3>1. dailies \in Dailies /\ opened \in Opened /\ day = opened.day /\ dailies[1].day <= day
      BY <2>3 DEF Asked
    <3>2. /\ dailies \in Seq(Candle("day")) /\ dailies # << >> /\ opened \in Candle("day")
          /\ \A i, j \in DOMAIN dailies : i < j => dailies[i].day > dailies[j].day
      BY <3>1, InputsAreTyped
    <3> HIDE DEF dailies, opened, price, day
    <3>3. PreviousCloseStands(price, opened.day, dailies, opened)
      BY <3>1, <3>2, CloseOfTheDayBefore
    <3>4. QED BY <3>1, <3>3, Zenon DEF dailies, opened, price, day
  <2>4. QED BY <2>2, <2>3, AveragesOfChart DEF ChartIsTrue
<1>2. QED BY <1>1, AskedHolds, PTL

=============================================================================
