-------------------------- MODULE SharedFileProofs --------------------------
(***************************************************************************)
(* The two files that separate processes share.                            *)
(*                                                                         *)
(* The session lock, for any number of processes: sessions exclude each    *)
(* other, so no token is invalidated by a sibling, and nobody is refused   *)
(* without a session.                                                      *)
(*                                                                         *)
(* The alert rules in the settings file, for any rules, writers, symbols   *)
(* and crossings: ids stay unique over lost updates, and the evaluator     *)
(* fires a rule at most once per crossing.                                 *)
(***************************************************************************)
EXTENDS SessionLock, Alerts, FiniteSetTheorems, WellFoundedInduction, TLAPS

-----------------------------------------------------------------------------
(* The session lock. *)

(* Where a command can be. *)
States == {"idle", "create", "open", "flock", "refused"} \cup InSession

(* There is never a second file at the lock path, so every flock is on the *)
(* same inode; a session owns it, and only a session does.                 *)
OneInode ==
  /\ pc \in [Processes -> States]
  /\ inodes \in {0, 1} /\ path = inodes
  /\ fd \in [Processes -> {0, 1}]
  /\ owner \in [1 .. MaxInodes -> Processes \cup {Nobody}]
  /\ \A i \in 1 .. MaxInodes : owner[i] # Nobody => i = 1 /\ pc[owner[i]] \in InSession
  /\ \A c \in Processes :
       /\ fd[c] <= inodes
       /\ pc[c] = "flock" => fd[c] = 1
       /\ pc[c] \in InSession => fd[c] = 1 /\ owner[1] = c

(* Only sessions have tokens, and the last one issued is the valid one.    *)
TokenOfSession ==
  /\ token \in [Processes -> Nat] /\ valid \in Nat /\ minted \in Nat
  /\ \A c \in Processes : token[c] # 0 => pc[c] \in InSession /\ token[c] = valid

(* The inductive invariant of the session lock. *)
SessionInv == OneInode /\ TokenOfSession

(* Every step keeps the flocks on one inode. *)
LEMMA InodeStep == ASSUME OneInode, [LockNext]_lockVars PROVE OneInode'
<1> USE SessionLockAssumption DEF SessionLockAssumption, OneInode, InSession, States
<1>1. ASSUME NEW c \in Processes, Look(c) \/ LostCreateRace(c) \/ AcquireFails(c)
      PROVE  OneInode'
  BY <1>1 DEF Look, LostCreateRace, AcquireFails
<1>2. ASSUME NEW c \in Processes, Create(c) \/ Open(c) PROVE OneInode'
  <2>1. /\ pc' = [pc EXCEPT ![c] = "flock"] /\ fd' = [fd EXCEPT ![c] = 1] /\ owner' = owner
        /\ pc[c] \notin InSession /\ inodes' = 1 /\ path' = 1
    BY <1>2 DEF Create, Open
  <2>2. QED BY <2>1
<1>3. ASSUME NEW c \in Processes, Flock(c) PROVE OneInode'
  <2>1. fd[c] = 1 /\ inodes = 1 /\ owner[1] = Nobody /\ 1 \in 1 .. MaxInodes
    BY <1>3 DEF Flock
  <2>2. /\ owner' = [owner EXCEPT ![1] = c] /\ pc' = [pc EXCEPT ![c] = "marking"]
        /\ UNCHANGED <<path, inodes, fd>>
    BY <1>3, <2>1 DEF Flock
  <2>3. QED BY <2>1, <2>2
<1>4. ASSUME NEW c \in Processes, Contended(c) \/ Mark(c) PROVE OneInode'
  BY <1>4 DEF Contended, Mark
<1>5. ASSUME NEW c \in Processes, Release(c) \/ Dies(c) PROVE OneInode'
  <2>1. fd[c] = 1 /\ owner[1] = c /\ path' = path /\ 1 \in 1 .. MaxInodes
    BY <1>5 DEF Release, Dies, PathAfterRelease
  <2>2. /\ owner' = [owner EXCEPT ![1] = Nobody] /\ pc' = [pc EXCEPT ![c] = "idle"]
        /\ fd' = [fd EXCEPT ![c] = 0] /\ UNCHANGED <<inodes, path>>
    BY <1>5, <2>1 DEF Release, Dies, Leave, Unlocked
  <2>3. \A d \in Processes \ {c} : pc[d] \notin InSession
    BY <2>1
  <2>4. \A i \in 1 .. MaxInodes : owner'[i] = Nobody
    BY <2>2, <2>3
  <2>5. QED BY <2>2, <2>3, <2>4
<1>6. ASSUME NEW c \in Processes, Mint(c) PROVE OneInode'
  BY <1>6 DEF Mint
<1>7. CASE UNCHANGED lockVars
  BY <1>7 DEF lockVars
<1>8. QED BY <1>1, <1>2, <1>3, <1>4, <1>5, <1>6, <1>7 DEF LockNext

(* Every step keeps the valid token with the one session. *)
LEMMA SessionTokenStep ==
  ASSUME OneInode, TokenOfSession, [LockNext]_lockVars PROVE TokenOfSession'
<1> USE DEF TokenOfSession, tokenVars
<1>1. pc \in [Processes -> States]
      /\ \A c, d \in Processes : pc[c] \in InSession /\ pc[d] \in InSession => c = d
  BY DEF OneInode
<1>2. ASSUME NEW c \in Processes, Mint(c) PROVE TokenOfSession'
  BY <1>1, <1>2 DEF Mint, InSession
<1>3. ASSUME NEW c \in Processes, Release(c) \/ Dies(c) PROVE TokenOfSession'
  BY <1>1, <1>3 DEF Release, Dies, Leave
<1>4. ASSUME NEW c \in Processes, Mark(c) \/ Flock(c) PROVE TokenOfSession'
  BY <1>1, <1>4 DEF Mark, Flock, InSession, States
<1>5. ASSUME NEW c \in Processes,
             \/ Look(c) \/ Create(c) \/ LostCreateRace(c) \/ Open(c)
             \/ AcquireFails(c) \/ Contended(c)
      PROVE  TokenOfSession'
  BY <1>1, <1>5
     DEF Look, Create, LostCreateRace, Open, AcquireFails, Contended, InSession
<1>6. CASE UNCHANGED lockVars
  BY <1>6 DEF lockVars
<1>7. QED BY <1>2, <1>3, <1>4, <1>5, <1>6 DEF LockNext

(* The inductive invariant of the session lock. *)
LEMMA SessionInvHolds == LockSpec => []SessionInv
<1>1. LockInit => SessionInv
  BY SessionLockAssumption
     DEF SessionLockAssumption, LockInit, SessionInv, OneInode, TokenOfSession,
         InSession, States
<1>2. SessionInv /\ [LockNext]_lockVars => SessionInv'
  BY InodeStep, SessionTokenStep DEF SessionInv
<1>3. QED BY <1>1, <1>2, PTL DEF LockSpec

-----------------------------------------------------------------------------
(* The lock never leaves its types: in particular no flock survives its    *)
(* session.                                                                *)
THEOREM SessionTypeCorrect == LockSpec => []LockTypeOK
<1>1. SessionInv => LockTypeOK
  <2> SUFFICES ASSUME SessionInv PROVE LockTypeOK
    OBVIOUS
  <2> USE DEF SessionInv, OneInode, TokenOfSession
  <2>1. inodes \in 0 .. MaxInodes /\ path \in 0 .. inodes
    BY SessionLockAssumption DEF SessionLockAssumption
  <2>2. fd \in [Processes -> 0 .. inodes]
    <3>1. ASSUME NEW c \in Processes PROVE fd[c] \in 0 .. inodes
      <4>1. fd[c] \in {0, 1} /\ fd[c] <= inodes /\ inodes \in {0, 1}
        OBVIOUS
      <4>2. QED BY ONLY <4>1
    <3>2. QED BY <3>1
  <2>3. owner \in [1 .. MaxInodes -> {c \in Processes : pc[c] \in InSession} \cup {Nobody}]
    OBVIOUS
  <2>4. QED BY <2>1, <2>2, <2>3 DEF LockTypeOK, States
<1>2. QED BY <1>1, SessionInvHolds, PTL

(* A sibling command never has a token issued while a session runs: the    *)
(* lock file is never removed, so all flocks meet on one inode.            *)
THEOREM TokensAreNotCrossed == LockSpec => []SessionTokenIsValid
<1>1. SessionInv => SessionTokenIsValid
  BY DEF SessionInv, TokenOfSession, SessionTokenIsValid
<1>2. QED BY <1>1, SessionInvHolds, PTL

(* A command is refused only while another one is in a session: the kernel *)
(* gives the lock back on every way out, also a kill.                      *)
THEOREM RefusalHasACause == LockSpec => RefusedOnlyByASession
<1>1. SessionInv /\ [LockNext]_lockVars =>
        [\A c \in Processes :
           pc[c] # "refused" /\ pc'[c] = "refused" =>
             \E d \in Processes \ {c} : pc[d] \in InSession]_lockVars
  <2> SUFFICES ASSUME SessionInv, LockNext, NEW c \in Processes,
                      pc[c] # "refused", pc'[c] = "refused"
               PROVE  \E d \in Processes \ {c} : pc[d] \in InSession
    OBVIOUS
  <2> USE DEF SessionInv, OneInode
  <2>1. Contended(c)
    BY DEF LockNext, Look, Create, LostCreateRace, Open, AcquireFails, Flock,
           Contended, Mark, Release, Dies, Leave, Mint
  <2>2. fd[c] = 1 /\ owner[1] # Nobody /\ 1 \in 1 .. MaxInodes
    BY <2>1, SessionLockAssumption DEF SessionLockAssumption, Contended
  <2>3. owner[1] \in Processes /\ pc[owner[1]] \in InSession
    BY <2>2
  <2>4. owner[1] # c
    BY <2>1, <2>3 DEF Contended, InSession
  <2>5. QED BY <2>3, <2>4
<1>2. QED BY <1>1, SessionInvHolds, PTL DEF LockSpec, RefusedOnlyByASession

-----------------------------------------------------------------------------
(* A set of bounded numbers that is not empty has a greatest member, Max:  *)
(* the one with the least distance to the bound.                           *)
LEMMA MaxOfBounded ==
  ASSUME NEW n \in Nat, NEW S \in SUBSET (0 .. n), S # {}
  PROVE  Max(S) \in S /\ \A m \in S : m <= Max(S)
<1> DEFINE R == OpToRel(<, Nat)
           T == {d \in 0 .. n : n - d \in S}
<1>1. IsWellFoundedOn(R, Nat)
  BY NatLessThanWellFounded
<1>2. \A k, m \in Nat : k < m => <<k, m>> \in R
  BY DEF OpToRel
<1>3. ASSUME NEW k \in S PROVE n - k \in T /\ k \in 0 .. n
  OBVIOUS
<1>4. \E d \in T : \A e \in T : <<e, d>> \notin R
  <2>1. T \in SUBSET Nat
    OBVIOUS
  <2>2. T # {}
    <3>1. PICK k \in S : TRUE
      OBVIOUS
    <3> HIDE DEF T
    <3>2. QED BY <1>3, <3>1
  <2> HIDE DEF R, T
  <2>3. QED BY <1>1, <2>1, <2>2, WFMin
<1>5. PICK d \in T : \A e \in T : d <= e
  <2>1. PICK d \in T : \A e \in T : <<e, d>> \notin R
    BY <1>4
  <2>2. T \in SUBSET Nat
    OBVIOUS
  <2> HIDE DEF R, T
  <2>3. \A e \in T : ~(e < d) /\ e \in Nat /\ d \in Nat
    BY <1>2, <2>1, <2>2
  <2>4. QED BY <2>1, <2>3
<1>6. n - d \in S /\ \A k \in S : k <= n - d
  <2>1. n - d \in S /\ d \in 0 .. n
    BY <1>5
  <2>2. ASSUME NEW k \in S PROVE k <= n - d
    <3>1. d <= n - k /\ k \in 0 .. n
      BY <1>3, <1>5
    <3>2. QED BY <2>1, <3>1
  <2>3. QED BY <2>1, <2>2
<1>7. \E x \in S : \A y \in S : x >= y
  BY <1>6
<1>8. Max(S) \in S /\ \A y \in S : Max(S) >= y
  <2> HIDE DEF R, T
  <2> QED BY <1>7 DEF Max
<1>9. QED BY <1>3, <1>8

-----------------------------------------------------------------------------
(* Every copy of the alerts, in the file, in memory and under change, has  *)
(* one rule per id: the id of a new one is above all the others.           *)
Distinct(alerts) == \A r, s \in alerts : r.id = s.id => r = s

CopiesAreDistinct ==
  /\ file \subseteq Rules /\ Distinct(file)
  /\ rules \subseteq Rules /\ Distinct(rules)
  /\ loaded \in [Writers -> {None} \cup SUBSET Rules]
  /\ \A w \in Writers : loaded[w] # None => Distinct(loaded[w])

(* The next id is above every id in use. *)
LEMMA NextIdIsNew ==
  ASSUME NEW alerts \in SUBSET Rules
  PROVE  NextId(alerts) \in Nat /\ \A r \in alerts : r.id \in Nat /\ r.id < NextId(alerts)
<1> DEFINE S == {r.id : r \in alerts} \cup {0}
<1>1. MaxRules \in Nat
  BY AlertsAssumption DEF AlertsAssumption
<1>2. \A r \in alerts : r.id \in 1 .. MaxRules
  BY DEF Rules, Ids
<1>3. S \in SUBSET (0 .. MaxRules) /\ S # {}
  BY <1>1, <1>2
<1>4. \A r \in alerts : r.id \in S
  OBVIOUS
<1>5. NextId(alerts) = Max(S) + 1
  BY DEF NextId
<1> HIDE DEF S
<1>6. Max(S) \in S /\ \A m \in S : m <= Max(S)
  BY <1>1, <1>3, MaxOfBounded
<1>7. Max(S) \in 0 .. MaxRules
  BY <1>3, <1>6
<1>8. QED BY <1>1, <1>2, <1>4, <1>5, <1>6, <1>7

(* Every step leaves the copies with one rule per id.                      *)
LEMMA CopiesStep == CopiesAreDistinct /\ [Next]_vars => CopiesAreDistinct'
<1> SUFFICES ASSUME CopiesAreDistinct, [Next]_vars PROVE CopiesAreDistinct'
  OBVIOUS
<1> USE DEF CopiesAreDistinct
<1>1. ASSUME NEW w \in Writers, Load(w) PROVE CopiesAreDistinct'
  BY <1>1 DEF Load
<1>2. ASSUME NEW w \in Writers, NEW alerts \in SUBSET Rules, Distinct(alerts), Replace(w, alerts)
      PROVE  CopiesAreDistinct'
  BY <1>2 DEF Replace
<1>3. ASSUME NEW w \in Writers, NEW target \in Wanted, AddAlert(w, target)
      PROVE  CopiesAreDistinct'
  <2> DEFINE new == [id |-> NextId(loaded[w]), target |-> target]
  <2>1. loaded[w] \in SUBSET Rules /\ Distinct(loaded[w]) /\ NextId(loaded[w]) \in Ids
        /\ Replace(w, loaded[w] \cup {new})
    BY <1>3 DEF AddAlert
  <2>2. new \in Rules
    BY <2>1, AlertsAssumption DEF AlertsAssumption, Rules
  <2>3. \A r \in loaded[w] : r.id \in Nat /\ r.id < NextId(loaded[w]) /\ NextId(loaded[w]) \in Nat
    BY <2>1, NextIdIsNew
  <2>4. \A r \in loaded[w] : r.id # new.id
    BY <2>3
  <2>5. Distinct(loaded[w] \cup {new})
    <3> HIDE DEF new
    <3> QED BY <2>1, <2>4 DEF Distinct
  <2> HIDE DEF new
  <2>6. loaded[w] \cup {new} \in SUBSET Rules
    BY <2>1, <2>2
  <2>7. QED BY <1>2, <2>1, <2>5, <2>6
<1>4. ASSUME NEW w \in Writers, NEW i \in Ids, RemoveAlert(w, i) PROVE CopiesAreDistinct'
  <2>1. {r \in loaded[w] : r.id # i} \in SUBSET Rules /\ Distinct({r \in loaded[w] : r.id # i})
    BY <1>4 DEF RemoveAlert, Distinct
  <2>2. QED BY <1>2, <1>4, <2>1 DEF RemoveAlert
<1>5. ASSUME NEW w \in Writers, WatchlistCommand(w) PROVE CopiesAreDistinct'
  BY <1>2, <1>5 DEF WatchlistCommand
<1>6. ASSUME NEW w \in Writers, SaveFails(w) PROVE CopiesAreDistinct'
  BY <1>2, <1>6 DEF SaveFails
<1>7. CASE WatchlistAdded
  <2>1. Tui \in Writers
    BY DEF Writers
  <2>2. QED BY <1>7, <2>1 DEF WatchlistAdded
<1>8. CASE UNCHANGED <<file, loaded, rules>>
  BY <1>8
<1>9. SettingsStep \/ UNCHANGED <<file, loaded, rules>>
  BY DEF Next, ActiveEvaluated, Poll, PollDue, PollRead, PollApplied, PollFails, PollOver,
     SwitchSymbol, Crosses, vars, fileVars
<1>10. QED BY <1>1, <1>3, <1>4, <1>5, <1>6, <1>7, <1>8, <1>9 DEF SettingsStep

(* At the start the file has no rule or one. *)
LEMMA CopiesInit == Init => CopiesAreDistinct
<1> SUFFICES ASSUME Init PROVE CopiesAreDistinct
  OBVIOUS
<1>1. [id : Ids, target : Wanted] \subseteq Rules
  BY AlertsAssumption DEF AlertsAssumption, Rules
<1>2. file \subseteq Rules /\ Distinct(file)
  BY <1>1 DEF Init, Distinct
<1>3. QED BY <1>2 DEF Init, CopiesAreDistinct

THEOREM IdsStayUnique == Spec => []IdsAreUnique
<1>1. CopiesAreDistinct => IdsAreUnique
  BY DEF CopiesAreDistinct, Distinct, IdsAreUnique
<1>2. QED BY <1>1, CopiesInit, CopiesStep, PTL DEF Spec

-----------------------------------------------------------------------------
(* A price that is evaluated is not of the future, nor is a poll's answer, *)
(* and while a poll is under way it is noted which symbols have been       *)
(* active: it has no older price than the last of any other.               *)
Observed ==
  /\ crossings \in [Symbols -> Nat] /\ \A s \in Symbols : crossings[s] <= MaxCrossings[s]
  /\ symbol \in Symbols
  /\ last \in [Symbols -> Nat] /\ \A s \in Symbols : last[s] <= crossings[s]
  /\ rewound \in [Symbols -> Nat]
  /\ prices \in [Symbols -> Nat]
  /\ poll = "answered" => \A s \in Symbols : /\ prices[s] <= crossings[s]
                                             /\ s \notin visited => last[s] <= prices[s]
  /\ poll # "idle" => symbol \in visited

(* The evaluator's memory: it has a condition for an id once it has seen   *)
(* its rule, from then on, and has fired no id before.                     *)
Memory ==
  /\ conditions \in [Ids -> BOOLEAN \cup {None}]
  /\ base \in [Ids -> Nat \cup {None}]
  /\ fires \in [Ids -> Nat]
  /\ \A i \in Ids : /\ conditions[i] = None <=> base[i] = None
                    /\ conditions[i] = None => fires[i] = 0

(* The moments of (b, m] at which the condition of rule r came true.       *)
RisesBetween(r, b, m) == {k \in Moments : b < k /\ k <= m /\ Holds(r.target, k)}

(* How far the last price of the symbol of r is older than moment k. *)
Gap(r, k) == IF k > last[r.target.symbol] THEN k - last[r.target.symbol] ELSE 0

(* The evaluator saw r last at moment k, and at no moment after t: what it *)
(* may fire for again on the way from k to t has been paid for.            *)
LastSeen(r, t, k) ==
  /\ base[r.id] # None
  /\ base[r.id] <= t /\ k <= t /\ t <= crossings[r.target.symbol]
  /\ conditions[r.id] = Holds(r.target, k)
  /\ fires[r.id] + Cardinality(RisesBetween(r, k, t)) + Gap(r, k)
       <= Cardinality(RisesBetween(r, base[r.id], t)) + rewound[r.target.symbol]

Followed(r) == conditions[r.id] = None \/ \E t, k \in Nat : LastSeen(r, t, k)

RulesAreFollowed == \A r \in rules : r.id \notin reused => Followed(r)

(* The prices of symbol s go back by no more than is noted. *)
Paid(s) == rewound[s] <= rewound'[s] /\ rewound[s] + last[s] <= rewound'[s] + last'[s]

(* A condition holds or does not. *)
LEMMA HoldsOrNot == \A target, m : Holds(target, m) \in BOOLEAN
BY DEF Holds

(* The rises of an interval are those of its two parts. *)
LEMMA RisesSplit ==
  ASSUME NEW r, NEW b \in Nat, NEW m \in Nat, NEW n \in Nat, b <= m, m <= n
  PROVE  /\ Cardinality(RisesBetween(r, b, n)) \in Nat
         /\ Cardinality(RisesBetween(r, b, m)) \in Nat
         /\ Cardinality(RisesBetween(r, m, n)) \in Nat
         /\ Cardinality(RisesBetween(r, b, n)) =
              Cardinality(RisesBetween(r, b, m)) + Cardinality(RisesBetween(r, m, n))
<1> DEFINE All == RisesBetween(r, b, n)
           Before == RisesBetween(r, b, m)
           After == RisesBetween(r, m, n)
<1>1. \A k \in Moments : k \in Nat
  BY AlertsAssumption DEF AlertsAssumption, Moments
<1>2. /\ All \subseteq 0 .. n /\ Before \subseteq 0 .. n /\ After \subseteq 0 .. n
      /\ All = Before \cup After /\ Before \cap After = {}
  BY <1>1 DEF RisesBetween
<1> HIDE DEF All, Before, After
<1>3. /\ IsFiniteSet(All) /\ IsFiniteSet(Before) /\ IsFiniteSet(After)
  <2>1. IsFiniteSet(0 .. n)
    BY FS_Interval
  <2>2. QED BY <1>2, <2>1, FS_Subset
<1>4. Cardinality(All) \in Nat /\ Cardinality(Before) \in Nat /\ Cardinality(After) \in Nat
  BY <1>3, FS_CardinalityType
<1>5. Cardinality(All) = Cardinality(Before) + Cardinality(After)
  <2>1. Cardinality(All) = Cardinality(Before) + Cardinality(After) - Cardinality(Before \cap After)
    BY <1>2, <1>3, FS_Union
  <2>2. Cardinality(Before \cap After) = 0
    BY <1>2, FS_EmptySet
  <2>3. QED BY <1>4, <2>1, <2>2
<1>6. QED BY <1>4, <1>5 DEF All, Before, After

(* There are no more rises than moments; the last is none where the        *)
(* condition does not hold, and is one where it does and did not before.   *)
LEMMA RisesAreFew ==
  ASSUME NEW r, NEW m \in Nat, NEW n \in Nat, m <= n
  PROVE  /\ Cardinality(RisesBetween(r, m, n)) \in Nat
         /\ Cardinality(RisesBetween(r, m, n)) <= n - m
         /\ Holds(r.target, m) /\ ~Holds(r.target, n) =>
              Cardinality(RisesBetween(r, m, n)) + 1 <= n - m
         /\ ~Holds(r.target, m) /\ Holds(r.target, n) /\ n \in Moments =>
              Cardinality(RisesBetween(r, m, n)) >= 1
<1> DEFINE Rose == RisesBetween(r, m, n)
<1>1. \A k \in Moments : k \in Nat
  BY AlertsAssumption DEF AlertsAssumption, Moments
<1>2. ASSUME NEW e \in {n, n - 1}, m <= e, Rose \subseteq (m + 1) .. e
      PROVE  IsFiniteSet(Rose) /\ Cardinality(Rose) \in Nat /\ Cardinality(Rose) <= e - m
  <2>1. e \in Int /\ m + 1 \in Int
    OBVIOUS
  <2>2. IsFiniteSet((m + 1) .. e)
    BY <2>1, FS_Interval
  <2>3. Cardinality((m + 1) .. e) = IF m + 1 > e THEN 0 ELSE e - (m + 1) + 1
    BY <2>1, FS_Interval
  <2>4. Cardinality((m + 1) .. e) = e - m
    BY <1>2, <2>3
  <2> HIDE DEF Rose
  <2>5. IsFiniteSet(Rose) /\ Cardinality(Rose) <= Cardinality((m + 1) .. e)
    BY <1>2, <2>2, FS_Subset
  <2>6. QED BY <2>4, <2>5, FS_CardinalityType
<1>3. Rose \subseteq (m + 1) .. n
  BY <1>1 DEF RisesBetween
<1>4. IsFiniteSet(Rose) /\ Cardinality(Rose) \in Nat /\ Cardinality(Rose) <= n - m
  BY <1>2, <1>3
<1>5. ASSUME Holds(r.target, m), ~Holds(r.target, n) PROVE Cardinality(Rose) + 1 <= n - m
  <2>1. m <= n - 1
    BY <1>5
  <2>2. Rose \subseteq (m + 1) .. (n - 1)
    BY <1>1, <1>5 DEF RisesBetween
  <2> HIDE DEF Rose
  <2>3. Cardinality(Rose) \in Nat /\ Cardinality(Rose) <= (n - 1) - m
    BY <1>2, <2>1, <2>2 DEF Rose
  <2>4. QED BY <2>3
<1>6. ASSUME ~Holds(r.target, m), Holds(r.target, n), n \in Moments PROVE Cardinality(Rose) >= 1
  <2>1. n \in Rose
    <3>1. m # n
      BY <1>6
    <3>2. QED BY <1>6, <3>1 DEF RisesBetween
  <2> HIDE DEF Rose
  <2>2. Cardinality(Rose) # 0
    BY <1>4, <2>1, FS_EmptySet
  <2>3. QED BY <1>4, <2>2
<1>7. QED BY <1>4, <1>5, <1>6

(* What an evaluation does to one rule: nothing, when it has no            *)
(* observation of it, or the memory of its id follows this observation.    *)
Seen(r, m) ==
  /\ conditions'[r.id] = Holds(r.target, m)
  /\ fires'[r.id] = IF Fires(r.id, Holds(r.target, m)) THEN fires[r.id] + 1 ELSE fires[r.id]
  /\ base'[r.id] = IF base[r.id] = None THEN m ELSE base[r.id]

Unseen(r) ==
  /\ conditions'[r.id] = conditions[r.id]
  /\ fires'[r.id] = fires[r.id]
  /\ base'[r.id] = base[r.id]

LEMMA EvaluateRule ==
  ASSUME CopiesAreDistinct, NEW r \in rules, NEW reply, NEW full, Evaluate(reply, full)
  PROVE  \/ r.target.symbol \in DOMAIN reply /\ Seen(r, reply[r.target.symbol])
         \/ Unseen(r)
<1> DEFINE observed == {q \in rules : /\ q.target.symbol \in DOMAIN reply
                                      /\ q.target.kind = "change" => full}
           ids == {q.id : q \in observed}
           Rule(i) == CHOOSE q \in observed : q.id = i
           Now(q) == Holds(q.target, reply[q.target.symbol])
<1>1. r.id \in Ids
  BY DEF CopiesAreDistinct, Rules
<1>2. /\ conditions' = [i \in Ids |-> IF i \in ids THEN Now(Rule(i)) ELSE conditions[i]]
      /\ fires' = [i \in Ids |-> IF i \in ids /\ Fires(i, Now(Rule(i)))
                                 THEN fires[i] + 1 ELSE fires[i]]
      /\ base' = [i \in Ids |-> IF i \in ids /\ base[i] = None
                                THEN reply[Rule(i).target.symbol] ELSE base[i]]
  BY DEF Evaluate
<1>3. CASE r \in observed
  <2>1. r.id \in ids /\ Rule(r.id) = r /\ r.target.symbol \in DOMAIN reply
    <3>1. \A q \in observed : q.id = r.id => q = r
      BY DEF CopiesAreDistinct, Distinct
    <3>2. QED BY <1>3, <3>1
  <2> HIDE DEF observed, ids, Rule
  <2>2. QED BY <1>1, <1>2, <2>1 DEF Seen
<1>4. CASE r \notin observed
  <2>1. r.id \notin ids
    BY <1>4 DEF CopiesAreDistinct, Distinct
  <2> HIDE DEF observed, ids, Rule
  <2>2. QED BY <1>1, <1>2, <2>1 DEF Unseen
<1>5. QED BY <1>3, <1>4

(* An evaluation leaves the memory so. *)
LEMMA EvaluateMemory ==
  ASSUME Memory, NEW D, NEW reply \in [D -> Nat], NEW full, Evaluate(reply, full)
  PROVE  Memory'
<1> DEFINE observed == {q \in rules : /\ q.target.symbol \in DOMAIN reply
                                      /\ q.target.kind = "change" => full}
           ids == {q.id : q \in observed}
           Rule(i) == CHOOSE q \in observed : q.id = i
           Now(q) == Holds(q.target, reply[q.target.symbol])
<1>1. /\ conditions' = [i \in Ids |-> IF i \in ids THEN Now(Rule(i)) ELSE conditions[i]]
      /\ fires' = [i \in Ids |-> IF i \in ids /\ Fires(i, Now(Rule(i)))
                                 THEN fires[i] + 1 ELSE fires[i]]
      /\ base' = [i \in Ids |-> IF i \in ids /\ base[i] = None
                                THEN reply[Rule(i).target.symbol] ELSE base[i]]
  BY DEF Evaluate
<1>2. ASSUME NEW i \in ids PROVE reply[Rule(i).target.symbol] \in Nat
  <2>1. Rule(i) \in observed
    OBVIOUS
  <2>2. Rule(i).target.symbol \in D
    BY <2>1
  <2>3. QED BY <2>2
<1>3. \A q : Now(q) \in BOOLEAN
  BY HoldsOrNot
<1>4. None \notin Nat /\ None \notin BOOLEAN
  BY AlertsAssumption DEF AlertsAssumption
<1> HIDE DEF observed, ids, Rule, Now
<1>5. ASSUME NEW i \in Ids
      PROVE  /\ conditions'[i] \in BOOLEAN \cup {None}
             /\ base'[i] \in Nat \cup {None}
             /\ fires'[i] \in Nat
             /\ conditions'[i] = None <=> base'[i] = None
             /\ conditions'[i] = None => fires'[i] = 0
  <2>1. CASE i \in ids
    <3>1. conditions'[i] = Now(Rule(i)) /\ conditions'[i] \in BOOLEAN /\ conditions'[i] # None
      <4>1. conditions'[i] = Now(Rule(i))
        BY <1>1, <2>1
      <4>2. QED BY <1>3, <1>4, <4>1
    <3>2. base'[i] \in Nat
      BY <1>1, <1>2, <2>1 DEF Memory
    <3>3. fires'[i] \in Nat
      <4>1. fires'[i] = fires[i] \/ fires'[i] = fires[i] + 1
        BY <1>1
      <4>2. QED BY <4>1 DEF Memory
    <3>4. QED BY <1>4, <3>1, <3>2, <3>3
  <2>2. CASE i \notin ids
    BY <1>1, <2>2 DEF Memory
  <2>3. QED BY <2>1, <2>2
<1>6. /\ conditions' = [i \in Ids |-> conditions'[i]] /\ base' = [i \in Ids |-> base'[i]]
      /\ fires' = [i \in Ids |-> fires'[i]]
  BY <1>1
<1>7. QED BY <1>5, <1>6 DEF Memory

(* What is noted of an evaluation pays for the prices that go back. *)
LEMMA NotedPays ==
  ASSUME Observed, NEW D \in SUBSET Symbols, NEW reply \in [D -> Nat],
         NEW returning \in SUBSET D, Noted(reply, returning),
         \A s \in D \ returning : last[s] <= reply[s]
  PROVE  /\ last' \in [Symbols -> Nat] /\ rewound' \in [Symbols -> Nat]
         /\ \A s \in Symbols : /\ Paid(s)
                               /\ s \in D => last'[s] = reply[s]
                               /\ s \notin D => last'[s] = last[s]
<1>1. /\ last' = [s \in Symbols |-> IF s \in D THEN reply[s] ELSE last[s]]
      /\ rewound' = [s \in Symbols |->
                       IF s \in returning /\ reply[s] < last[s]
                       THEN rewound[s] + last[s] - reply[s] ELSE rewound[s]]
  BY DEF Noted
<1>2. ASSUME NEW s \in Symbols
      PROVE  /\ last'[s] \in Nat /\ rewound'[s] \in Nat /\ Paid(s)
             /\ s \in D => last'[s] = reply[s]
             /\ s \notin D => last'[s] = last[s]
  <2>1. last[s] \in Nat /\ rewound[s] \in Nat
    BY DEF Observed
  <2>2. CASE s \notin D
    BY <1>1, <2>1, <2>2 DEF Paid
  <2>3. CASE s \in D
    <3>1. reply[s] \in Nat /\ last'[s] = reply[s]
      BY <1>1, <2>3
    <3>2. rewound'[s] = IF s \in returning /\ reply[s] < last[s]
                        THEN rewound[s] + last[s] - reply[s] ELSE rewound[s]
      BY <1>1
    <3>3. s \notin returning => last[s] <= reply[s]
      BY <2>3
    <3>4. QED BY <2>1, <2>3, <3>1, <3>2, <3>3 DEF Paid
  <2>4. QED BY <2>2, <2>3
<1>3. last' = [s \in Symbols |-> last'[s]] /\ rewound' = [s \in Symbols |-> rewound'[s]]
  BY <1>1
<1>4. QED BY <1>2, <1>3

(* An evaluation of the active symbol, of a moment there has been. *)
LEMMA ActiveStep ==
  ASSUME Observed, ActiveEvaluated
  PROVE  \E m \in Nat, full \in BOOLEAN :
           /\ Evaluate([s \in {symbol} |-> m], full)
           /\ m <= crossings[symbol]
           /\ UNCHANGED <<fileVars, rules, reused, marketVars, visited>>
           /\ last' \in [Symbols -> Nat] /\ rewound' \in [Symbols -> Nat]
           /\ \A s \in Symbols : /\ Paid(s)
                                 /\ s = symbol => last'[s] = m
                                 /\ s # symbol => last'[s] = last[s]
<1>1. PICK m \in 0 .. crossings[symbol], full \in BOOLEAN :
             /\ Evaluate([s \in {symbol} |-> m], full)
             /\ Noted([s \in {symbol} |-> m], {symbol})
             /\ UNCHANGED <<fileVars, rules, reused, marketVars, visited>>
  BY DEF ActiveEvaluated
<1>2. m \in Nat /\ m <= crossings[symbol]
  BY DEF Observed
<1> DEFINE reply == [s \in {symbol} |-> m]
<1>3. /\ reply \in [{symbol} -> Nat] /\ {symbol} \in SUBSET Symbols /\ reply[symbol] = m
      /\ \A s \in {symbol} \ {symbol} : last[s] <= reply[s]
  BY <1>2 DEF Observed
<1>4. Noted(reply, {symbol})
  BY <1>1
<1> HIDE DEF reply
<1>5. /\ last' \in [Symbols -> Nat] /\ rewound' \in [Symbols -> Nat]
      /\ \A s \in Symbols : /\ Paid(s)
                            /\ s \in {symbol} => last'[s] = reply[s]
                            /\ s \notin {symbol} => last'[s] = last[s]
  BY <1>3, <1>4, NotedPays
<1>6. QED BY <1>1, <1>2, <1>3, <1>5

(* The evaluation of a poll's answer. *)
LEMMA PollStep ==
  ASSUME Observed, PollApplied
  PROVE  \E fresh \in SUBSET Symbols :
           /\ Evaluate([s \in fresh |-> prices[s]], FALSE)
           /\ last' \in [Symbols -> Nat] /\ rewound' \in [Symbols -> Nat]
           /\ \A s \in Symbols : /\ Paid(s) /\ prices[s] <= crossings[s]
                                 /\ s \in fresh => last'[s] = prices[s]
                                 /\ s \notin fresh => last'[s] = last[s]
<1>1. PICK fresh \in SUBSET PolledFor :
             /\ Evaluate([s \in fresh |-> prices[s]], FALSE)
             /\ Noted([s \in fresh |-> prices[s]], (fresh \cap visited) \ {symbol})
  BY DEF PollApplied
<1> DEFINE reply == [s \in fresh |-> prices[s]]
           returning == (fresh \cap visited) \ {symbol}
<1>2. /\ fresh \in SUBSET Symbols /\ reply \in [fresh -> Nat] /\ returning \in SUBSET fresh
      /\ \A s \in fresh : reply[s] = prices[s]
  BY DEF PolledFor, Observed
<1>3. \A s \in Symbols : prices[s] <= crossings[s] /\ (s \notin visited => last[s] <= prices[s])
  BY DEF PollApplied, Observed
<1>4. \A s \in fresh \ returning : last[s] <= reply[s]
  BY <1>2, <1>3 DEF PolledFor
<1>5. Noted(reply, returning)
  BY <1>1
<1> HIDE DEF reply, returning
<1>6. /\ last' \in [Symbols -> Nat] /\ rewound' \in [Symbols -> Nat]
      /\ \A s \in Symbols : /\ Paid(s)
                            /\ s \in fresh => last'[s] = reply[s]
                            /\ s \notin fresh => last'[s] = last[s]
  BY <1>2, <1>4, <1>5, NotedPays
<1>7. QED BY <1>1, <1>2, <1>3, <1>6

(* Every step keeps what is observed and remembered so.                    *)
LEMMA ObservedStep ==
  ASSUME Observed, Memory, [Next]_vars
  PROVE  Observed' /\ Memory'
<1> USE AlertsAssumption DEF AlertsAssumption, Observed
<1>1. CASE SettingsStep \/ UNCHANGED vars
  <2>1. UNCHANGED <<marketVars, evalVars, historyVars>>
    BY <1>1 DEF SettingsStep, WatchlistAdded, Load, AddAlert, RemoveAlert, WatchlistCommand, SaveFails,
       Replace, vars
  <2>2. QED BY <2>1 DEF marketVars, evalVars, historyVars, Memory
<1>2. CASE ActiveEvaluated
  <2>1. PICK m \in Nat, full \in BOOLEAN :
               /\ Evaluate([s \in {symbol} |-> m], full)
               /\ m <= crossings[symbol]
               /\ UNCHANGED <<fileVars, rules, reused, marketVars, visited>>
               /\ last' \in [Symbols -> Nat] /\ rewound' \in [Symbols -> Nat]
               /\ \A s \in Symbols : /\ s = symbol => last'[s] = m
                                     /\ s # symbol => last'[s] = last[s]
    BY <1>2, ActiveStep
  <2>2. [s \in {symbol} |-> m] \in [{symbol} -> Nat]
    OBVIOUS
  <2>3. Memory'
    BY <2>1, <2>2, EvaluateMemory
  <2>4. Observed'
    <3>1. UNCHANGED <<symbol, poll, prices, crossings, visited>>
      BY <2>1 DEF marketVars
    <3>2. \A s \in Symbols : last'[s] <= crossings[s]
      BY <2>1
    <3>3. poll = "answered" => \A s \in Symbols : s \notin visited => last'[s] <= prices[s]
      BY <2>1
    <3>4. QED BY <2>1, <3>1, <3>2, <3>3
  <2>5. QED BY <2>3, <2>4
<1>3. CASE PollDue \/ PollRead
  BY <1>3 DEF PollDue, PollRead, evalVars, historyVars, Memory
<1>4. CASE PollApplied
  <2>1. PICK fresh \in SUBSET Symbols :
           /\ Evaluate([s \in fresh |-> prices[s]], FALSE)
           /\ last' \in [Symbols -> Nat] /\ rewound' \in [Symbols -> Nat]
           /\ \A s \in Symbols : /\ prices[s] <= crossings[s]
                                 /\ s \in fresh => last'[s] = prices[s]
                                 /\ s \notin fresh => last'[s] = last[s]
    BY <1>4, PollStep
  <2>2. [s \in fresh |-> prices[s]] \in [fresh -> Nat]
    OBVIOUS
  <2>3. Memory'
    BY <2>1, <2>2, EvaluateMemory
  <2>4. \A s \in Symbols : last'[s] <= crossings[s]
    BY <2>1
  <2>5. Observed'
    BY <1>4, <2>1, <2>4 DEF PollApplied, PollOver
  <2>6. QED BY <2>3, <2>5
<1>5. CASE PollFails
  BY <1>5 DEF PollFails, PollOver, evalVars, Memory
<1>6. ASSUME NEW s \in Symbols, SwitchSymbol(s) PROVE Observed' /\ Memory'
  BY <1>6 DEF SwitchSymbol, evalVars, Memory
<1>7. ASSUME NEW s \in Symbols, Crosses(s) PROVE Observed' /\ Memory'
  <2>1. /\ crossings' = [crossings EXCEPT ![s] = @ + 1] /\ crossings[s] < MaxCrossings[s]
        /\ UNCHANGED <<symbol, poll, prices, evalVars, visited, last, rewound>>
    BY <1>7 DEF Crosses, historyVars
  <2>2. crossings' \in [Symbols -> Nat]
        /\ \A q \in Symbols : crossings[q] <= crossings'[q] /\ crossings'[q] <= MaxCrossings[q]
    BY <2>1
  <2>3. \A q \in Symbols : last'[q] <= crossings'[q]
    BY <2>1, <2>2
  <2>4. poll' = "answered" => \A q \in Symbols : /\ prices'[q] <= crossings'[q]
                                                 /\ q \notin visited' => last'[q] <= prices'[q]
    BY <2>1, <2>2
  <2>5. QED BY <2>1, <2>2, <2>3, <2>4 DEF evalVars, Memory
<1>8. QED BY <1>1, <1>2, <1>3, <1>4, <1>5, <1>6, <1>7 DEF Next, Poll

(* Rule r, observed since b, last at k and never after t, is seen again at *)
(* moment m with at most one alert more; f alerts and w crossings gone back*)
(* over before are v of them now, and g is the gap to k.                   *)
Again(r, b, t, k, m, fired, f, g, w, v) ==
  /\ b \in Nat /\ t \in Nat /\ k \in Nat /\ m \in Nat /\ m \in Moments
  /\ f \in Nat /\ g \in Nat /\ w \in Nat /\ v \in Nat
  /\ b <= t /\ k <= t /\ w <= v /\ k - m <= g + (v - w)
  /\ fired \in {0, 1}
  /\ fired = 1 => ~Holds(r.target, k) /\ Holds(r.target, m)
  /\ f + Cardinality(RisesBetween(r, k, t)) + g <= Cardinality(RisesBetween(r, b, t)) + w

(* The alert is for a rise that was not seen before, or has been paid for. *)
LEMMA Refired ==
  ASSUME NEW r, NEW b, NEW t, NEW k, NEW m, NEW fired, NEW f, NEW g, NEW w, NEW v,
         Again(r, b, t, k, m, fired, f, g, w, v)
  PROVE  \E u \in Nat :
           /\ b <= u /\ m <= u /\ u \in {m, t}
           /\ f + fired + Cardinality(RisesBetween(r, m, u)) <=
                Cardinality(RisesBetween(r, b, u)) + v
<1> USE DEF Again
<1>1. Cardinality(RisesBetween(r, k, t)) \in Nat /\ Cardinality(RisesBetween(r, b, t)) \in Nat
  BY RisesAreFew
<1>2. CASE k <= m /\ m <= t
  <2>1. /\ Cardinality(RisesBetween(r, k, m)) \in Nat /\ Cardinality(RisesBetween(r, m, t)) \in Nat
        /\ Cardinality(RisesBetween(r, k, t)) =
             Cardinality(RisesBetween(r, k, m)) + Cardinality(RisesBetween(r, m, t))
    BY <1>2, RisesSplit
  <2>2. fired <= Cardinality(RisesBetween(r, k, m))
    BY <1>2, <2>1, RisesAreFew
  <2>3. f + fired + Cardinality(RisesBetween(r, m, t)) <= Cardinality(RisesBetween(r, b, t)) + v
    BY <1>1, <2>1, <2>2
  <2>4. QED BY <1>2, <2>3
<1>3. CASE k <= m /\ ~(m <= t)
  <2>1. t <= m /\ m <= m /\ b <= m
    BY <1>3
  <2>2. /\ Cardinality(RisesBetween(r, t, m)) \in Nat /\ Cardinality(RisesBetween(r, k, m)) \in Nat
        /\ Cardinality(RisesBetween(r, k, m)) =
             Cardinality(RisesBetween(r, k, t)) + Cardinality(RisesBetween(r, t, m))
    BY <2>1, RisesSplit
  <2>3. /\ Cardinality(RisesBetween(r, b, m)) \in Nat
        /\ Cardinality(RisesBetween(r, b, m)) =
             Cardinality(RisesBetween(r, b, t)) + Cardinality(RisesBetween(r, t, m))
    BY <2>1, RisesSplit
  <2>4. Cardinality(RisesBetween(r, m, m)) \in Nat /\ Cardinality(RisesBetween(r, m, m)) <= m - m
    BY <2>1, RisesAreFew
  <2>5. fired <= Cardinality(RisesBetween(r, k, m))
    BY <1>3, <2>2, RisesAreFew
  <2>6. f + fired + Cardinality(RisesBetween(r, m, m)) <= Cardinality(RisesBetween(r, b, m)) + v
    BY <1>1, <2>2, <2>3, <2>4, <2>5
  <2>7. QED BY <2>1, <2>6
<1>4. CASE ~(k <= m)
  <2>1. m <= k /\ m <= t
    BY <1>4
  <2>2. /\ Cardinality(RisesBetween(r, m, k)) \in Nat /\ Cardinality(RisesBetween(r, m, t)) \in Nat
        /\ Cardinality(RisesBetween(r, m, t)) =
             Cardinality(RisesBetween(r, m, k)) + Cardinality(RisesBetween(r, k, t))
    BY <2>1, RisesSplit
  <2>3. Cardinality(RisesBetween(r, m, k)) + fired <= k - m
    <3>1. Cardinality(RisesBetween(r, m, k)) <= k - m
      BY <2>1, RisesAreFew
    <3>2. fired = 1 => Cardinality(RisesBetween(r, m, k)) + 1 <= k - m
      BY <2>1, RisesAreFew
    <3>3. QED BY <2>2, <3>1, <3>2
  <2>4. f + fired + Cardinality(RisesBetween(r, m, t)) <= Cardinality(RisesBetween(r, b, t)) + v
    BY <1>1, <2>2, <2>3
  <2>5. QED BY <2>1, <2>4
<1>5. QED BY <1>2, <1>3, <1>4

(* A rule that is seen again stays followed.                               *)
LEMMA SeenAgain ==
  ASSUME Observed, Observed', Memory, NEW r \in Rules, Followed(r), NEW m \in Nat, Seen(r, m),
         m <= crossings[r.target.symbol], crossings' = crossings,
         Paid(r.target.symbol), last'[r.target.symbol] = m
  PROVE  Followed(r)'
<1> DEFINE i == r.id
           s == r.target.symbol
<1>1. i \in Ids /\ s \in Symbols
  BY DEF Rules, Targets
<1>2. m \in Moments
  <2>1. m \in 0 .. MaxCrossings[s]
    BY <1>1, AlertsAssumption DEF AlertsAssumption, Observed
  <2>2. QED BY <1>1, <2>1 DEF Moments
<1>3. None \notin Nat /\ None \notin BOOLEAN
  BY AlertsAssumption DEF AlertsAssumption
<1>4. /\ conditions[i] \in BOOLEAN \cup {None} /\ base[i] \in Nat \cup {None} /\ fires[i] \in Nat
      /\ conditions[i] = None <=> base[i] = None
      /\ conditions[i] = None => fires[i] = 0
  BY <1>1 DEF Memory
<1>5. /\ last[s] \in Nat /\ rewound[s] \in Nat /\ rewound'[s] \in Nat /\ crossings[s] \in Nat
      /\ rewound[s] <= rewound'[s] /\ rewound[s] + last[s] <= rewound'[s] + m
  BY <1>1 DEF Observed, Paid
<1>6. Gap(r, m)' = 0
  BY DEF Gap
<1>7. CASE conditions[i] = None
  <2>1. base'[i] = m /\ fires'[i] = 0
    BY <1>3, <1>4, <1>7 DEF Seen, Fires
  <2>2. Cardinality(RisesBetween(r, m, m)) \in Nat
    BY RisesAreFew
  <2>3. 0 + Cardinality(RisesBetween(r, m, m)) + 0 <= Cardinality(RisesBetween(r, m, m)) + rewound'[s]
    BY <1>5, <2>2
  <2>4. LastSeen(r, m, m)'
    BY <1>3, <1>6, <2>1, <2>3 DEF LastSeen, Seen, RisesBetween
  <2>5. QED BY <2>4 DEF Followed
<1>8. CASE conditions[i] # None
  <2>1. PICK t \in Nat, k \in Nat : LastSeen(r, t, k)
    BY <1>8 DEF Followed
  <2> DEFINE f == fires[i]
             g == Gap(r, k)
             b == base[i]
             w == rewound[s]
             v == rewound'[s]
             fired == IF Fires(i, Holds(r.target, m)) THEN 1 ELSE 0
  <2>2. /\ b \in Nat /\ b <= t /\ k <= t /\ t <= crossings[s]
        /\ conditions[i] = Holds(r.target, k)
        /\ f + Cardinality(RisesBetween(r, k, t)) + g <= Cardinality(RisesBetween(r, b, t)) + w
    BY <1>4, <2>1 DEF LastSeen
  <2>3. g \in Nat /\ k - last[s] <= g
    BY <1>5 DEF Gap
  <2>4. base'[i] = b /\ fires'[i] = f + fired
    BY <1>3, <1>4, <2>2 DEF Seen
  <2>5. fired \in {0, 1} /\ (fired = 1 => ~Holds(r.target, k) /\ Holds(r.target, m))
    BY <2>2 DEF Fires
  <2>6. f \in Nat /\ w \in Nat /\ v \in Nat /\ w <= v
    BY <1>4, <1>5
  <2> HIDE DEF f, g, b, w, v, fired
  <2>7. k - m <= g + (v - w)
    BY <1>5, <2>3, <2>6 DEF w, v
  <2>8. PICK u \in Nat :
           /\ b <= u /\ m <= u /\ u \in {m, t}
           /\ f + fired + Cardinality(RisesBetween(r, m, u)) <=
                Cardinality(RisesBetween(r, b, u)) + v
    <3>1. Again(r, b, t, k, m, fired, f, g, w, v)
      BY <1>2, <2>2, <2>3, <2>5, <2>6, <2>7 DEF Again
    <3>2. QED BY <3>1, Refired
  <2>9. u <= crossings[s]
    BY <2>2, <2>8
  <2>10. fires'[i] + Cardinality(RisesBetween(r, m, u)) + 0 <=
           Cardinality(RisesBetween(r, b, u)) + rewound'[s]
    <3>1. f + fired \in Nat /\ Cardinality(RisesBetween(r, m, u)) \in Nat
      BY <2>5, <2>6, <2>8, RisesAreFew
    <3>2. QED BY <2>4, <2>8, <3>1 DEF v
  <2>11. LastSeen(r, u, m)'
    <3>1. base'[i] # None
      BY <1>3, <2>2, <2>4
    <3>2. QED BY <1>6, <2>4, <2>8, <2>9, <2>10, <3>1 DEF LastSeen, Seen, RisesBetween
  <2>12. QED BY <2>11 DEF Followed
<1>9. QED BY <1>7, <1>8

(* A rule that is not seen stays followed, while time goes on. *)
LEMMA StillFollowed ==
  ASSUME NEW r \in Rules, Followed(r), Unseen(r), Observed, Observed', Memory,
         crossings[r.target.symbol] <= crossings'[r.target.symbol], Paid(r.target.symbol)
  PROVE  Followed(r)'
<1> DEFINE s == r.target.symbol
<1>1. CASE conditions[r.id] = None
  BY <1>1 DEF Followed, Unseen
<1>2. CASE conditions[r.id] # None
  <2>1. PICK t \in Nat, k \in Nat : LastSeen(r, t, k)
    BY <1>2 DEF Followed
  <2>2. /\ crossings[s] \in Nat /\ crossings'[s] \in Nat /\ last[s] \in Nat /\ last'[s] \in Nat
        /\ rewound[s] \in Nat /\ rewound'[s] \in Nat
        /\ fires[r.id] \in Nat /\ base[r.id] \in Nat \cup {None}
    BY DEF Rules, Targets, Observed, Memory
  <2>3. t <= crossings'[s]
    BY <2>1, <2>2 DEF LastSeen
  <2>4. Gap(r, k)' <= Gap(r, k) + (rewound'[s] - rewound[s]) /\ Gap(r, k) \in Nat /\ Gap(r, k)' \in Nat
    BY <2>2 DEF Gap, Paid
  <2>5. base[r.id] \in Nat /\ base[r.id] <= t /\ k <= t
    BY <2>1, <2>2 DEF LastSeen
  <2> DEFINE again == Cardinality(RisesBetween(r, k, t))
             all == Cardinality(RisesBetween(r, base[r.id], t))
  <2>6. again \in Nat /\ all \in Nat
    BY <2>5, RisesAreFew
  <2>7. fires[r.id] + again + Gap(r, k) <= all + rewound[s]
    BY <2>1 DEF LastSeen
  <2> HIDE DEF again, all
  <2>8. fires[r.id] + again + Gap(r, k)' <= all + rewound'[s]
    BY <2>2, <2>4, <2>6, <2>7
  <2>9. LastSeen(r, t, k)'
    BY <2>1, <2>3, <2>8 DEF LastSeen, Unseen, RisesBetween, again, all
  <2>10. QED BY <2>9 DEF Followed
<1>3. QED BY <1>1, <1>2

(* Every step leaves the rules followed. *)
LEMMA FollowedStep ==
  ASSUME CopiesAreDistinct, Observed, Memory, Observed', CopiesAreDistinct', RulesAreFollowed, [Next]_vars
  PROVE  RulesAreFollowed'
<1> SUFFICES ASSUME NEW r \in rules', r.id \notin reused'
             PROVE  Followed(r)'
  BY DEF RulesAreFollowed
<1> DEFINE s == r.target.symbol
<1>1. r \in Rules /\ r.id \in Ids /\ s \in Symbols
  BY DEF CopiesAreDistinct, Rules, Targets
<1>2. crossings[s] \in Nat /\ prices[s] \in Nat
  BY <1>1 DEF Observed
<1>3. ASSUME rules' = rules, reused' = reused
      PROVE  r \in rules /\ Followed(r)
  BY <1>3 DEF RulesAreFollowed
<1>4. ASSUME Followed(r), UNCHANGED <<marketVars, evalVars, historyVars>> PROVE Followed(r)'
  BY <1>4 DEF Followed, LastSeen, Gap, RisesBetween, marketVars, evalVars, historyVars
<1>5. CASE UNCHANGED vars
  BY <1>3, <1>4, <1>5 DEF vars
<1>6. ASSUME NEW w \in Writers,
             \/ Load(w) \/ WatchlistCommand(w) \/ SaveFails(w)
             \/ \E target \in Wanted : AddAlert(w, target)
             \/ \E i \in Ids : RemoveAlert(w, i)
      PROVE  Followed(r)'
  <2>1. UNCHANGED <<rules, reused, marketVars, evalVars, historyVars>>
    BY <1>6 DEF Load, WatchlistCommand, SaveFails, AddAlert, RemoveAlert, Replace
  <2>2. QED BY <1>3, <1>4, <2>1
<1>7. CASE WatchlistAdded
  <2>1. UNCHANGED <<marketVars, evalVars, historyVars>>
        /\ reused' = reused \cup {i \in Ids : conditions[i] # None /\ \E q \in rules' \ rules : q.id = i}
    BY <1>7 DEF WatchlistAdded
  <2>2. Followed(r)
    <3>1. CASE r \in rules
      BY <2>1, <3>1 DEF RulesAreFollowed
    <3>2. CASE r \notin rules
      BY <1>1, <2>1, <3>2 DEF Followed
    <3>3. QED BY <3>1, <3>2
  <2>3. QED BY <1>4, <2>1, <2>2
<1>8. CASE ActiveEvaluated
  <2>1. PICK m \in Nat, full \in BOOLEAN :
               /\ Evaluate([q \in {symbol} |-> m], full)
               /\ m <= crossings[symbol]
               /\ UNCHANGED <<fileVars, rules, reused, marketVars, visited>>
               /\ \A q \in Symbols : Paid(q) /\ (q = symbol => last'[q] = m)
    BY <1>8, ActiveStep
  <2>2. r \in rules /\ Followed(r)
    BY <1>3, <2>1
  <2>3. crossings' = crossings /\ Paid(s)
    BY <1>1, <2>1 DEF marketVars
  <2>4. (s = symbol /\ Seen(r, m)) \/ Unseen(r)
    <3> DEFINE reply == [q \in {symbol} |-> m]
    <3>1. DOMAIN reply = {symbol} /\ (s = symbol => reply[s] = m)
      OBVIOUS
    <3>2. Evaluate(reply, full)
      BY <2>1
    <3> HIDE DEF reply
    <3>3. (s \in DOMAIN reply /\ Seen(r, reply[s])) \/ Unseen(r)
      BY <2>2, <3>2, EvaluateRule
    <3>4. QED BY <3>1, <3>3
  <2>5. CASE s = symbol /\ Seen(r, m)
    <3>1. last'[s] = m /\ m <= crossings[s]
      BY <1>1, <2>1, <2>5
    <3>2. QED BY <1>1, <2>2, <2>3, <2>5, <3>1, SeenAgain
  <2>6. CASE Unseen(r)
    <3>1. crossings[s] <= crossings'[s]
      BY <1>2, <2>3
    <3>2. QED BY <1>1, <2>2, <2>3, <2>6, <3>1, StillFollowed
  <2>7. QED BY <2>4, <2>5, <2>6
<1>9. CASE PollApplied
  <2>1. PICK fresh \in SUBSET Symbols :
           /\ Evaluate([q \in fresh |-> prices[q]], FALSE)
           /\ \A q \in Symbols : /\ Paid(q) /\ prices[q] <= crossings[q]
                                 /\ q \in fresh => last'[q] = prices[q]
    BY <1>9, PollStep
  <2>2. UNCHANGED <<rules, reused, crossings>>
    BY <1>9 DEF PollApplied, PollOver
  <2>3. r \in rules /\ Followed(r)
    BY <1>3, <2>2
  <2>4. (s \in fresh /\ Seen(r, prices[s])) \/ Unseen(r)
    <3> DEFINE reply == [q \in fresh |-> prices[q]]
    <3>1. DOMAIN reply = fresh /\ (s \in fresh => reply[s] = prices[s])
      OBVIOUS
    <3>2. Evaluate(reply, FALSE)
      BY <2>1
    <3> HIDE DEF reply
    <3>3. (s \in DOMAIN reply /\ Seen(r, reply[s])) \/ Unseen(r)
      BY <2>3, <3>2, EvaluateRule
    <3>4. QED BY <3>1, <3>3
  <2>5. CASE s \in fresh /\ Seen(r, prices[s])
    <3>1. PICK m \in Nat : m = prices[s]
      BY <1>2
    <3>2. m <= crossings[s] /\ last'[s] = m /\ Paid(s) /\ Seen(r, m)
      BY <1>1, <2>1, <2>5, <3>1
    <3>3. QED BY <1>1, <2>2, <2>3, <3>2, SeenAgain
  <2>6. CASE Unseen(r)
    <3>1. crossings[s] <= crossings'[s] /\ Paid(s)
      BY <1>1, <1>2, <2>1, <2>2
    <3>2. QED BY <1>1, <2>3, <2>6, <3>1, StillFollowed
  <2>7. QED BY <2>4, <2>5, <2>6
<1>10. ASSUME UNCHANGED <<rules, reused, last, rewound, evalVars>>, crossings[s] <= crossings'[s]
       PROVE  Followed(r)'
  <2>1. Unseen(r)
    BY <1>10 DEF Unseen, evalVars
  <2>2. Paid(s)
    BY <1>1, <1>10 DEF Paid, Observed
  <2>3. QED BY <1>1, <1>3, <1>10, <2>1, <2>2, StillFollowed
<1>11. ASSUME NEW q \in Symbols, PollDue \/ PollRead \/ PollFails \/ SwitchSymbol(q)
       PROVE  Followed(r)'
  <2>1. UNCHANGED <<rules, reused, last, rewound, evalVars, crossings>>
    BY <1>11 DEF PollDue, PollRead, PollFails, PollOver, SwitchSymbol, historyVars
  <2>2. QED BY <1>2, <1>10, <2>1
<1>12. ASSUME NEW q \in Symbols, Crosses(q) PROVE Followed(r)'
  <2>1. /\ UNCHANGED <<rules, reused, last, rewound, evalVars>>
        /\ crossings' = [crossings EXCEPT ![q] = @ + 1]
    BY <1>12 DEF Crosses, historyVars
  <2>2. crossings[s] <= crossings'[s]
    BY <1>1, <2>1 DEF Observed
  <2>3. QED BY <1>10, <2>1, <2>2
<1>13. QED BY <1>1, <1>5, <1>6, <1>7, <1>8, <1>9, <1>11, <1>12 DEF Next, SettingsStep, Poll

(* The inductive invariant of the alerts. *)
AlertsInv == CopiesAreDistinct /\ Observed /\ Memory /\ RulesAreFollowed

LEMMA AlertsInvHolds == Spec => []AlertsInv
<1>1. Init => AlertsInv
  <2> SUFFICES ASSUME Init PROVE AlertsInv
    OBVIOUS
  <2> USE AlertsAssumption DEF AlertsAssumption
  <2>1. Observed
    BY DEF Init, Observed
  <2>2. Memory
    BY DEF Init, Memory
  <2>3. RulesAreFollowed
    <3>1. \A r \in rules : r.id \in Ids
      BY DEF Init
    <3>2. QED BY <3>1 DEF Init, RulesAreFollowed, Followed
  <2>4. CopiesAreDistinct
    BY CopiesInit
  <2>5. QED BY <2>1, <2>2, <2>3, <2>4 DEF AlertsInv
<1>2. AlertsInv /\ [Next]_vars => AlertsInv'
  BY CopiesStep, ObservedStep, FollowedStep DEF AlertsInv
<1>3. QED BY <1>1, <1>2, PTL DEF Spec

(* A rule fires at most once per crossing of its threshold, and per        *)
(* crossing that the prices of its symbol go back over, in any number of   *)
(* crossings, polls, switches and rewritten files.                         *)
THEOREM AlertsFireOnce == Spec => []OneAlertPerCrossing
<1>1. AlertsInv => OneAlertPerCrossing
  <2> SUFFICES ASSUME AlertsInv, NEW r \in rules, r.id \notin reused
               PROVE  FiresPerCrossing(r)
    BY DEF OneAlertPerCrossing
  <2> USE DEF AlertsInv
  <2>1. Followed(r) /\ r \in Rules /\ r.id \in Ids /\ r.target.symbol \in Symbols
    BY DEF RulesAreFollowed, CopiesAreDistinct, Rules, Targets
  <2>2. base[r.id] \in Nat \cup {None} /\ fires[r.id] \in Nat
        /\ (conditions[r.id] = None <=> base[r.id] = None)
        /\ (conditions[r.id] = None => fires[r.id] = 0)
        /\ crossings[r.target.symbol] \in Nat
        /\ rewound[r.target.symbol] \in Nat /\ last[r.target.symbol] \in Nat
    BY <2>1 DEF Memory, Observed
  <2>3. CASE base[r.id] = None
    BY <2>2, <2>3 DEF FiresPerCrossing
  <2>4. CASE base[r.id] # None
    <3>1. PICK t \in Nat, k \in Nat : LastSeen(r, t, k)
      BY <2>1, <2>2, <2>4 DEF Followed
    <3>2. PICK b \in Nat : b = base[r.id]
      BY <2>2, <2>4
    <3>3. PICK n \in Nat : n = crossings[r.target.symbol]
      BY <2>2
    <3>4. /\ b <= t /\ k <= t /\ t <= n
          /\ fires[r.id] + Cardinality(RisesBetween(r, k, t)) + Gap(r, k)
               <= Cardinality(RisesBetween(r, b, t)) + rewound[r.target.symbol]
      BY <3>1, <3>2, <3>3 DEF LastSeen
    <3>5. Rises(r) = RisesBetween(r, b, n)
      BY <3>2, <3>3 DEF Rises, RisesBetween
    <3>6. /\ Cardinality(RisesBetween(r, b, t)) \in Nat /\ Cardinality(RisesBetween(r, b, n)) \in Nat
          /\ Cardinality(RisesBetween(r, b, t)) <= Cardinality(RisesBetween(r, b, n))
          /\ Cardinality(RisesBetween(r, k, t)) \in Nat
      <4>1. /\ Cardinality(RisesBetween(r, b, t)) \in Nat /\ Cardinality(RisesBetween(r, b, n)) \in Nat
            /\ Cardinality(RisesBetween(r, t, n)) \in Nat
            /\ Cardinality(RisesBetween(r, b, n)) =
                 Cardinality(RisesBetween(r, b, t)) + Cardinality(RisesBetween(r, t, n))
        BY <3>4, RisesSplit
      <4>2. Cardinality(RisesBetween(r, k, t)) \in Nat
        BY <3>4, RisesAreFew
      <4>3. QED BY <4>1, <4>2
    <3>7. fires[r.id] <= Cardinality(Rises(r)) + rewound[r.target.symbol]
      <4>1. Gap(r, k) \in Nat
        BY <2>2 DEF Gap
      <4>2. QED BY <2>2, <3>4, <3>5, <3>6, <4>1
    <3>8. QED BY <2>4, <3>7 DEF FiresPerCrossing
  <2>5. QED BY <2>3, <2>4
<1>2. QED BY <1>1, AlertsInvHolds, PTL
-----------------------------------------------------------------------------
(* Prices are of moments there are, and what is noted of them, of symbols  *)
(* and of ids is about those there are.                                    *)
Bounds ==
  /\ commands \in 0 .. MaxCommands
  /\ poll \in {"idle", "asked", "answered"}
  /\ \A s \in Symbols : prices[s] \in Moments
  /\ base \in [Ids -> Moments \cup {None}]
  /\ \A s \in Symbols : rewound[s] <= MaxBack
  /\ visited \subseteq Symbols /\ reused \subseteq Ids

(* The moments of a symbol so far are among all. *)
LEMMA MomentsSoFar ==
  ASSUME Observed, NEW s \in Symbols
  PROVE  0 .. crossings[s] \subseteq Moments /\ crossings[s] \in Moments /\ 0 \in Moments
<1>1. crossings[s] \in Nat /\ MaxCrossings[s] \in Nat /\ crossings[s] <= MaxCrossings[s]
  BY AlertsAssumption DEF AlertsAssumption, Observed
<1>2. \A m \in 0 .. crossings[s] : m \in 0 .. MaxCrossings[s]
  BY <1>1
<1>3. 0 .. MaxCrossings[s] \subseteq Moments
  BY DEF Moments
<1>4. crossings[s] \in 0 .. crossings[s] /\ 0 \in 0 .. crossings[s]
  BY <1>1
<1>5. QED BY <1>2, <1>3, <1>4

(* An evaluation notes a moment of its reply. *)
LEMMA EvaluateBase ==
  ASSUME base \in [Ids -> Moments \cup {None}], NEW D, NEW reply \in [D -> Moments], NEW full,
         Evaluate(reply, full)
  PROVE  base' \in [Ids -> Moments \cup {None}]
<1> DEFINE observed == {q \in rules : /\ q.target.symbol \in DOMAIN reply
                                      /\ q.target.kind = "change" => full}
           ids == {q.id : q \in observed}
           Rule(i) == CHOOSE q \in observed : q.id = i
<1>1. base' = [i \in Ids |-> IF i \in ids /\ base[i] = None
                             THEN reply[Rule(i).target.symbol] ELSE base[i]]
  BY DEF Evaluate
<1>2. ASSUME NEW i \in ids PROVE reply[Rule(i).target.symbol] \in Moments
  <2>1. Rule(i) \in observed
    OBVIOUS
  <2>2. Rule(i).target.symbol \in D
    BY <2>1
  <2>3. QED BY <2>2
<1> HIDE DEF observed, ids, Rule
<1>3. QED BY <1>1, <1>2

(* Every step keeps them so. *)
LEMMA BoundsStep ==
  ASSUME CopiesAreDistinct, Observed, Bounds, [Next]_vars
  PROVE  Bounds'
<1> USE DEF Bounds
<1>0. symbol \in Symbols /\ crossings \in [Symbols -> Nat] /\ \A s \in Symbols : 0 \in Moments
  BY MomentsSoFar DEF Observed
<1>1. ASSUME NEW w \in Writers, Load(w) PROVE Bounds'
  <2>1. commands' = commands \/ (commands < MaxCommands /\ commands' = commands + 1)
    BY <1>1 DEF Load
  <2>2. commands' \in 0 .. MaxCommands
    BY <2>1, AlertsAssumption DEF AlertsAssumption
  <2>3. QED BY <1>1, <2>2 DEF Load, marketVars, evalVars, historyVars
<1>2. ASSUME NEW w \in Writers, NEW alerts, Replace(w, alerts) PROVE Bounds'
  BY <1>2 DEF Replace, marketVars, evalVars, historyVars
<1>3. CASE WatchlistAdded
  BY <1>3 DEF WatchlistAdded, marketVars, evalVars, historyVars
<1>4. CASE ActiveEvaluated
  <2>1. PICK m \in 0 .. crossings[symbol], full \in BOOLEAN :
               /\ Evaluate([s \in {symbol} |-> m], full)
               /\ Noted([s \in {symbol} |-> m], {symbol})
               /\ UNCHANGED <<fileVars, rules, reused, marketVars, visited>>
    BY <1>4 DEF ActiveEvaluated
  <2>2. m \in 0 .. crossings[symbol]
    BY <2>1 DEF Observed
  <2>3. [s \in {symbol} |-> m] \in [{symbol} -> Moments]
    BY <1>0, <2>2, MomentsSoFar
  <2>4. base' \in [Ids -> Moments \cup {None}]
    <3> DEFINE reply == [s \in {symbol} |-> m]
    <3>1. reply \in [{symbol} -> Moments] /\ Evaluate(reply, full)
      BY <2>1, <2>3
    <3> HIDE DEF reply
    <3>2. QED BY <3>1, EvaluateBase
  <2>5. \A s \in Symbols : rewound'[s] <= MaxBack
    BY <2>1 DEF Noted
  <2>6. QED BY <2>1, <2>4, <2>5 DEF fileVars, marketVars
<1>5. CASE PollDue
  BY <1>0, <1>5 DEF PollDue, fileVars, evalVars
<1>6. CASE PollRead
  <2>1. \A s \in Symbols : prices'[s] \in Moments
    BY <1>6, MomentsSoFar DEF PollRead
  <2>2. QED BY <1>6, <2>1 DEF PollRead, fileVars, evalVars, historyVars
<1>7. ASSUME PollOver PROVE /\ \A s \in Symbols : prices'[s] \in Moments
                            /\ UNCHANGED <<commands, reused>> /\ poll' = "idle" /\ visited' = {}
  BY <1>0, <1>7 DEF PollOver, fileVars
<1>8. CASE PollApplied
  <2>1. PICK fresh \in SUBSET PolledFor :
               /\ Evaluate([s \in fresh |-> prices[s]], FALSE)
               /\ Noted([s \in fresh |-> prices[s]], (fresh \cap visited) \ {symbol})
    BY <1>8 DEF PollApplied
  <2>2. base' \in [Ids -> Moments \cup {None}]
    <3> DEFINE reply == [s \in fresh |-> prices[s]]
    <3>1. reply \in [fresh -> Moments] /\ Evaluate(reply, FALSE)
      BY <2>1 DEF PolledFor
    <3> HIDE DEF reply
    <3>2. QED BY <3>1, EvaluateBase
  <2>3. \A s \in Symbols : rewound'[s] <= MaxBack
    BY <2>1 DEF Noted
  <2>4. QED BY <1>7, <1>8, <2>1, <2>2, <2>3 DEF PollApplied
<1>9. CASE PollFails
  BY <1>7, <1>9 DEF PollFails, evalVars
<1>10. ASSUME NEW s \in Symbols, SwitchSymbol(s) \/ Crosses(s) PROVE Bounds'
  BY <1>10 DEF SwitchSymbol, Crosses, fileVars, evalVars, historyVars
<1>11. CASE UNCHANGED vars
  BY <1>11 DEF vars, fileVars, marketVars, evalVars, historyVars
<1>12. QED BY <1>1, <1>2, <1>3, <1>4, <1>5, <1>6, <1>8, <1>9, <1>10, <1>11
           DEF Next, SettingsStep, Poll, AddAlert, RemoveAlert, WatchlistCommand, SaveFails

(* Every copy of the rules, the market, the evaluator's memory and what is *)
(* noted of them stay in their sets, and no id is twice in memory.         *)
THEOREM AlertsTypeCorrect == Spec => []TypeOK
<1>1. Init => Bounds
  <2> SUFFICES ASSUME Init PROVE Bounds
    OBVIOUS
  <2>1. First \in Symbols /\ MaxCrossings[First] \in Nat /\ MaxCommands \in Nat /\ MaxBack \in Nat
    BY AlertsAssumption DEF AlertsAssumption
  <2>2. 0 \in 0 .. MaxCrossings[First] /\ 0 \in 0 .. MaxCommands
    BY <2>1
  <2>3. 0 \in Moments
    BY <2>1, <2>2 DEF Moments
  <2>4. QED BY <2>1, <2>2, <2>3 DEF Init, Bounds
<1>2. AlertsInv /\ Bounds /\ [Next]_vars => Bounds'
  BY BoundsStep DEF AlertsInv
<1>3. AlertsInv /\ Bounds => TypeOK
  <2> SUFFICES ASSUME AlertsInv, Bounds PROVE TypeOK
    OBVIOUS
  <2>1. \A i \in Ids : Cardinality({r \in rules : r.id = i}) <= 1
    <3> SUFFICES ASSUME NEW i \in Ids PROVE Cardinality({r \in rules : r.id = i}) <= 1
      OBVIOUS
    <3> DEFINE S == {r \in rules : r.id = i}
    <3>1. CASE S = {}
      BY <3>1, FS_EmptySet
    <3>2. CASE S # {}
      <4>1. PICK r \in S : TRUE
        BY <3>2
      <4>2. \A q \in S : q = r
        BY <4>1 DEF AlertsInv, CopiesAreDistinct, Distinct
      <4> HIDE DEF S
      <4>3. S = {r}
        BY <4>1, <4>2
      <4>4. Cardinality(S) = 1
        BY <4>3, FS_Singleton
      <4>5. QED BY <4>4 DEF S
    <3>3. QED BY <3>1, <3>2
  <2>2. crossings \in [Symbols -> Moments] /\ prices \in [Symbols -> Moments]
    <3>1. Observed
      BY DEF AlertsInv
    <3>2. \A s \in Symbols : crossings[s] \in Moments /\ prices[s] \in Moments
      BY <3>1, MomentsSoFar DEF Bounds
    <3>3. QED BY <3>1, <3>2 DEF Observed
  <2>3. /\ \A s \in Symbols : last[s] \in 0 .. crossings[s]
        /\ rewound \in [Symbols -> 0 .. MaxBack]
    <3>1. /\ last \in [Symbols -> Nat] /\ rewound \in [Symbols -> Nat] /\ crossings \in [Symbols -> Nat]
          /\ \A s \in Symbols : last[s] <= crossings[s]
          /\ \A s \in Symbols : rewound[s] <= MaxBack
      BY DEF AlertsInv, Observed, Bounds
    <3>2. MaxBack \in Nat /\ rewound = [s \in Symbols |-> rewound[s]]
      BY <3>1, AlertsAssumption DEF AlertsAssumption
    <3>3. \A s \in Symbols : last[s] \in 0 .. crossings[s] /\ rewound[s] \in 0 .. MaxBack
      BY <3>1, <3>2
    <3>4. QED BY <3>2, <3>3
  <2>4. QED BY <2>1, <2>2, <2>3 DEF TypeOK, AlertsInv, CopiesAreDistinct, Observed, Memory, Bounds
<1>4. QED BY <1>1, <1>2, <1>3, AlertsInvHolds, PTL DEF Spec
=============================================================================
