-------------------------- MODULE TokenCacheProofs --------------------------
(***************************************************************************)
(* For any number of coroutines and any number of losses: the cache and its*)
(* lock keep their types, and no token is issued without a loss.           *)
(***************************************************************************)
EXTENDS TokenCache, SequenceTheorems, TLAPS

-----------------------------------------------------------------------------
(* What a queue looks like after its head went to the back, as by a lock   *)
(* owner that queues again.                                                *)
LEMMA RotatedQueue ==
  ASSUME NEW S, NEW q \in Seq(S), q # << >>, NEW c \in S,
         NEW r, r = Append(Tail(q), c)
  PROVE  /\ r \in Seq(S)
         /\ Len(r) = Len(q) /\ Len(q) \in Nat \ {0}
         /\ \A i \in 1 .. Len(q) : r[i] = IF i < Len(q) THEN q[i + 1] ELSE c
<1> DEFINE Q == Tail(q)
<1>1. /\ Q \in Seq(S)
      /\ Len(q) \in Nat \ {0}
      /\ Len(Q) = Len(q) - 1
      /\ \A i \in 1 .. Len(q) - 1 : Q[i] = q[i + 1]
  BY HeadTailProperties, EmptySeq
<1>2. /\ r \in Seq(S)
      /\ Len(r) = Len(Q) + 1
      /\ \A i \in 1 .. Len(Q) : r[i] = Q[i]
      /\ r[Len(Q) + 1] = c
  BY <1>1, AppendProperties
<1> HIDE DEF Q
<1>3. ASSUME NEW i \in 1 .. Len(q)
      PROVE  r[i] = IF i < Len(q) THEN q[i + 1] ELSE c
  <2>1. CASE i < Len(q)
    <3>1. i \in 1 .. Len(q) - 1 /\ i \in 1 .. Len(Q)
      BY <1>1, <2>1
    <3>2. QED BY <1>1, <1>2, <2>1, <3>1
  <2>2. CASE i = Len(q)
    BY <1>1, <1>2, <2>2
  <2>3. QED BY <1>1, <2>1, <2>2
<1>4. QED BY <1>1, <1>2, <1>3

(* What a queue looks like without its k-th element (Lock.acquire removes  *)
(* a cancelled waiter).                                                    *)
LEMMA ShortenedQueue ==
  ASSUME NEW S, NEW q \in Seq(S), NEW k \in 1 .. Len(q)
  PROVE  /\ RemoveAt(q, k) \in Seq(S)
         /\ Len(RemoveAt(q, k)) = Len(q) - 1 /\ Len(q) \in Nat
         /\ \A i \in 1 .. Len(q) - 1 :
              RemoveAt(q, k)[i] = IF i < k THEN q[i] ELSE q[i + 1]
<1> DEFINE front == SubSeq(q, 1, k - 1)
           back == SubSeq(q, k + 1, Len(q))
<1>1. Len(q) \in Nat
  BY LenProperties
<1>2. /\ front \in Seq(S) /\ Len(front) = k - 1
      /\ \A i \in 1 .. k - 1 : front[i] = q[i]
  BY <1>1, ElementOfSeq, SubSeqProperties
<1>3. /\ back \in Seq(S) /\ Len(back) = Len(q) - k
      /\ \A i \in 1 .. Len(q) - k : back[i] = q[k + i]
  BY <1>1, ElementOfSeq, SubSeqProperties
<1> HIDE DEF front, back
<1>4. /\ front \o back \in Seq(S)
      /\ Len(front \o back) = Len(front) + Len(back)
      /\ \A i \in 1 .. Len(front) + Len(back) : (front \o back)[i] =
           IF i <= Len(front) THEN front[i] ELSE back[i - Len(front)]
  BY <1>2, <1>3, ConcatProperties
<1>5. ASSUME NEW i \in 1 .. Len(q) - 1
      PROVE  (front \o back)[i] = IF i < k THEN q[i] ELSE q[i + 1]
  <2>1. i \in 1 .. Len(front) + Len(back)
    BY <1>1, <1>2, <1>3
  <2>2. CASE i < k
    <3>1. i <= Len(front) /\ i \in 1 .. k - 1
      BY <1>1, <1>2, <2>2
    <3>2. QED BY <1>2, <1>4, <2>1, <2>2, <3>1
  <2>3. CASE ~(i < k)
    <3>1. ~(i <= Len(front)) /\ i - Len(front) \in 1 .. Len(q) - k
          /\ k + (i - Len(front)) = i + 1
      BY <1>1, <1>2, <2>3
    <3>2. QED BY <1>3, <1>4, <2>1, <2>3, <3>1
  <2>4. QED BY <2>2, <2>3
<1>6. RemoveAt(q, k) = front \o back
  BY DEF RemoveAt, front, back
<1>7. Len(front \o back) = Len(q) - 1
  BY <1>1, <1>2, <1>3, <1>4
<1>8. QED BY <1>1, <1>4, <1>5, <1>6, <1>7

-----------------------------------------------------------------------------
(* The lock: who waits is queued once and is not the owner; only the owner *)
(* issues a token.                                                         *)
Orderly(h, w, P) ==
  /\ P \in [Callers -> States]
  /\ h \in Callers \cup {NoCaller}
  /\ h # NoCaller => P[h] \in Queued \cup {"issuing"}
  /\ w \in Seq(Callers)
  /\ h = NoCaller => w = << >>
  /\ \A i \in 1 .. Len(w) : w[i] # h /\ P[w[i]] \in Queued
  /\ \A i, j \in 1 .. Len(w) : w[i] = w[j] => i = j
  /\ \A c \in Callers : P[c] = "issuing" => h = c

(* The lock as it is now. *)
LockOK == Orderly(holder, waiters, pc)

(* A coroutine that starts waiting is queued behind the others. *)
LEMMA AcquireKeeps ==
  ASSUME LockOK, NEW c \in Callers, pc[c] \in {"idle", "sent"}, Acquire(c),
         NEW s \in Queued, pc' = [pc EXCEPT ![c] = s]
  PROVE  LockOK'
<1> USE TokenCacheAssumption DEF TokenCacheAssumption, LockOK, Orderly, Queued, States
<1>1. holder # c /\ \A i \in 1 .. Len(waiters) : waiters[i] # c
  OBVIOUS
<1>2. CASE holder = NoCaller
  BY <1>2 DEF Acquire
<1>3. CASE holder # NoCaller
  <2>1. waiters' = Append(waiters, c) /\ holder' = holder
    BY <1>3 DEF Acquire
  <2>2. /\ waiters' \in Seq(Callers)
        /\ Len(waiters') = Len(waiters) + 1
        /\ \A i \in 1 .. Len(waiters) : waiters'[i] = waiters[i]
        /\ waiters'[Len(waiters) + 1] = c
    BY <2>1, AppendProperties
  <2>3. \A i \in 1 .. Len(waiters') :
           waiters'[i] # holder' /\ pc'[waiters'[i]] \in Queued
    BY <1>1, <2>1, <2>2
  <2>4. \A i, j \in 1 .. Len(waiters') : waiters'[i] = waiters'[j] => i = j
    BY <1>1, <2>2
  <2>5. QED BY <1>1, <1>3, <2>1, <2>2, <2>3, <2>4
<1>4. QED BY <1>2, <1>3

(* The owner leaves: the lock goes to the head of the queue. *)
LEMMA ReleaseKeeps ==
  ASSUME LockOK, NEW c \in Callers, holder = c, Release,
         pc' = [pc EXCEPT ![c] = "idle"] \/ pc' = [pc EXCEPT ![c] = "sent"]
  PROVE  LockOK'
<1> USE TokenCacheAssumption DEF TokenCacheAssumption, LockOK, Orderly, Queued, States
<1>1. \A d \in Callers : pc'[d] # "issuing"
  OBVIOUS
<1>2. CASE waiters = << >>
  BY <1>1, <1>2 DEF Release
<1>3. CASE waiters # << >>
  <2>1. holder' = waiters[1] /\ waiters' = Tail(waiters)
    BY <1>3 DEF Release
  <2>2. /\ waiters' \in Seq(Callers)
        /\ Len(waiters) \in Nat \ {0}
        /\ Len(waiters') = Len(waiters) - 1
        /\ \A i \in 1 .. Len(waiters') : waiters'[i] = waiters[i + 1]
    BY <1>3, <2>1, HeadTailProperties, EmptySeq
  <2>3. holder' \in Callers /\ holder' # c /\ pc'[holder'] \in Queued
    BY <2>1, <2>2
  <2>4. \A i \in 1 .. Len(waiters') :
           waiters'[i] # holder' /\ pc'[waiters'[i]] \in Queued
    BY <2>1, <2>2
  <2>5. \A i, j \in 1 .. Len(waiters') : waiters'[i] = waiters'[j] => i = j
    BY <2>2
  <2>6. QED BY <1>1, <2>2, <2>3, <2>4, <2>5
<1>4. QED BY <1>2, <1>3

(* The owner lets the next one in and queues again as the last. *)
LEMMA RequeueOrderly ==
  ASSUME NEW h \in Callers, NEW w, NEW P, Orderly(h, w, P),
         NEW r \in Seq(Callers), Len(r) = Len(w), Len(w) \in Nat \ {0},
         \A i \in 1 .. Len(w) : r[i] = IF i < Len(w) THEN w[i + 1] ELSE h
  PROVE  Orderly(w[1], r, [P EXCEPT ![h] = "waiting"])
<1> DEFINE Q == [P EXCEPT ![h] = "waiting"]
<1>1. \A i \in 1 .. Len(w) : w[i] \in Callers \ {h} /\ P[w[i]] \in Queued
  BY ElementOfSeq DEF Orderly
<1>2. /\ Q \in [Callers -> States]
      /\ Q[h] \in Queued /\ \A d \in Callers \ {h} : Q[d] = P[d]
      /\ \A d \in Callers : Q[d] # "issuing"
  BY DEF Orderly, Queued, States
<1>3. \A i, j \in 1 .. Len(w) : w[i] = w[j] => i = j
  BY DEF Orderly
<1> HIDE DEF Q
<1>4. w[1] \in Callers \ {h} /\ Q[w[1]] \in Queued /\ w[1] # NoCaller
  BY <1>1, <1>2, TokenCacheAssumption DEF TokenCacheAssumption
<1>5. ASSUME NEW i \in 1 .. Len(r)
      PROVE  r[i] # w[1] /\ Q[r[i]] \in Queued
  <2>1. CASE i < Len(w)
    <3>1. i + 1 \in 1 .. Len(w) /\ 1 \in 1 .. Len(w) /\ i + 1 # 1
      BY <2>1
    <3>2. r[i] = w[i + 1]
      BY <2>1
    <3>3. QED BY <1>1, <1>2, <1>3, <3>1, <3>2
  <2>2. CASE i = Len(w)
    BY <1>2, <1>4, <2>2
  <2>3. QED BY <2>1, <2>2
<1>6. ASSUME NEW i \in 1 .. Len(r), NEW j \in 1 .. Len(r), r[i] = r[j]
      PROVE  i = j
  <2>1. CASE i < Len(w) /\ j < Len(w)
    <3>1. i + 1 \in 1 .. Len(w) /\ j + 1 \in 1 .. Len(w)
      BY <2>1
    <3>2. w[i + 1] = w[j + 1]
      BY <1>6, <2>1
    <3>3. QED BY <1>3, <3>1, <3>2
  <2>2. CASE i < Len(w) /\ j = Len(w)
    <3>1. i + 1 \in 1 .. Len(w) /\ w[i + 1] = h
      BY <1>6, <2>2
    <3>2. QED BY <1>1, <3>1
  <2>3. CASE i = Len(w) /\ j < Len(w)
    <3>1. j + 1 \in 1 .. Len(w) /\ w[j + 1] = h
      BY <1>6, <2>3
    <3>2. QED BY <1>1, <3>1
  <2>4. QED BY <2>1, <2>2, <2>3
<1>7. QED BY <1>2, <1>4, <1>5, <1>6 DEF Orderly, Q

(* So the retry after a dropped token keeps the lock orderly. *)
LEMMA RequeueKeeps ==
  ASSUME LockOK, NEW c \in Callers, holder = c, waiters # << >>,
         holder' = Head(waiters), waiters' = Append(Tail(waiters), c),
         pc' = [pc EXCEPT ![c] = "waiting"]
  PROVE  LockOK'
<1>1. waiters \in Seq(Callers) /\ Head(waiters) = waiters[1]
  BY DEF LockOK, Orderly
<1>2. /\ waiters' \in Seq(Callers)
      /\ Len(waiters') = Len(waiters) /\ Len(waiters) \in Nat \ {0}
      /\ \A i \in 1 .. Len(waiters) :
           waiters'[i] = IF i < Len(waiters) THEN waiters[i + 1] ELSE c
  BY <1>1, RotatedQueue
<1>3. Orderly(c, waiters, pc)
  BY DEF LockOK
<1>4. Orderly(waiters[1], waiters', [pc EXCEPT ![c] = "waiting"])
  BY ONLY c \in Callers, <1>2, <1>3, RequeueOrderly
<1>5. QED BY <1>1, <1>4 DEF LockOK

(* A cancelled coroutine leaves the queue, wherever it stood in it. *)
LEMMA ShortenedOrderly ==
  ASSUME NEW h, NEW w, NEW P, Orderly(h, w, P),
         NEW k \in 1 .. Len(w), Len(w) \in Nat,
         NEW r \in Seq(Callers), Len(r) = Len(w) - 1,
         \A i \in 1 .. Len(w) - 1 : r[i] = IF i < k THEN w[i] ELSE w[i + 1]
  PROVE  Orderly(h, r, [P EXCEPT ![w[k]] = "idle"])
<1> DEFINE Q == [P EXCEPT ![w[k]] = "idle"]
<1>1. \A i \in 1 .. Len(w) : w[i] \in Callers \ {h} /\ P[w[i]] \in Queued
  BY ElementOfSeq DEF Orderly
<1>2. /\ Q \in [Callers -> States]
      /\ \A d \in Callers \ {w[k]} : Q[d] = P[d]
      /\ \A d \in Callers : Q[d] = "issuing" => h = d
  BY <1>1 DEF Orderly, Queued, States
<1>3. \A i, j \in 1 .. Len(w) : w[i] = w[j] => i = j
  BY DEF Orderly
<1>4. h \in Callers /\ h # NoCaller /\ w[k] # h /\ Q[h] \in Queued \cup {"issuing"}
  <2>1. h # NoCaller
    BY EmptySeq DEF Orderly
  <2>2. QED BY <1>1, <1>2, <2>1 DEF Orderly
<1> HIDE DEF Q
<1>5. ASSUME NEW i \in 1 .. Len(r)
      PROVE  (IF i < k THEN i ELSE i + 1) \in (1 .. Len(w)) \ {k}
             /\ r[i] = w[IF i < k THEN i ELSE i + 1]
  OBVIOUS
<1>6. ASSUME NEW i \in 1 .. Len(r)
      PROVE  r[i] # h /\ Q[r[i]] \in Queued
  <2>1. PICK m \in (1 .. Len(w)) \ {k} : r[i] = w[m]
    BY <1>5
  <2>2. w[m] # w[k]
    BY <1>3, <2>1
  <2>3. QED BY <1>1, <1>2, <2>1, <2>2
<1>7. ASSUME NEW i \in 1 .. Len(r), NEW j \in 1 .. Len(r), r[i] = r[j]
      PROVE  i = j
  <2> DEFINE m == IF i < k THEN i ELSE i + 1
             n == IF j < k THEN j ELSE j + 1
  <2>1. m \in 1 .. Len(w) /\ n \in 1 .. Len(w) /\ w[m] = w[n]
    BY <1>5, <1>7
  <2>2. m = n
    BY <1>3, <2>1
  <2>3. QED BY <2>2
<1>8. QED BY <1>2, <1>4, <1>6, <1>7 DEF Orderly, Q

(* So a cancellation in the queue keeps the lock orderly. *)
LEMMA LeaveQueueKeeps ==
  ASSUME LockOK, NEW k \in 1 .. Len(waiters),
         waiters' = RemoveAt(waiters, k), holder' = holder,
         pc' = [pc EXCEPT ![waiters[k]] = "idle"]
  PROVE  LockOK'
<1>1. waiters \in Seq(Callers)
  BY DEF LockOK, Orderly
<1>2. /\ waiters' \in Seq(Callers)
      /\ Len(waiters') = Len(waiters) - 1 /\ Len(waiters) \in Nat
      /\ \A i \in 1 .. Len(waiters) - 1 :
           waiters'[i] = IF i < k THEN waiters[i] ELSE waiters[i + 1]
  BY <1>1, ShortenedQueue
<1>3. Orderly(holder, waiters, pc)
  BY DEF LockOK
<1>4. Orderly(holder, waiters', [pc EXCEPT ![waiters[k]] = "idle"])
  BY ONLY k \in 1 .. Len(waiters), <1>2, <1>3, ShortenedOrderly
<1>5. QED BY <1>4 DEF LockOK

-----------------------------------------------------------------------------
(* The tokens.  They are named by their number; a dropping reader's token  *)
(* is dead, and whoever issues one has no usable token to share.           *)
Types ==
  /\ attempt \in [Callers -> {1, 2}]
  /\ held \in [Callers -> Nat]
  /\ cached \in Nat
  /\ fresh \in BOOLEAN
  /\ valid \in Nat
  /\ minted \in Nat
  /\ answer \in [Callers -> Nat]
  /\ losses \in Nat
  /\ disturbed \in SUBSET Callers
  /\ refused \in SUBSET Callers

(* Tokens are numbered by their issuance; who issues has found none usable. *)
TokenNumbers ==
  /\ valid \in {0, minted}
  /\ cached <= minted
  /\ \A c \in Callers :
       /\ held[c] <= minted
       /\ answer[c] # 0 => pc[c] = "issuing" /\ answer[c] = minted
       /\ pc[c] \in {"sent", "dropping"} => held[c] # 0
       /\ pc[c] = "dropping" => held[c] # valid
       /\ pc[c] = "issuing" => ~Usable

(* The last token issued is still good, in the cache or on its way there.  *)
InUse ==
  /\ minted # 0 /\ valid = minted
  /\ (Usable /\ cached = minted) \/ (\E c \in Callers : answer[c] = minted)

(* At most one issuance ahead of the losses, and that one is in use. *)
Budget == minted <= losses \/ (InUse /\ minted <= losses + 1)

(* The inductive invariant of the token cache, in two parts. *)
TokensOK == Types /\ TokenNumbers /\ Budget

IInv == LockOK /\ TokensOK

(* Every step keeps the lock orderly. *)
LEMMA LockStep == ASSUME LockOK, [Next]_vars PROVE LockOK'
<1> USE DEF clientVars, lockVars, providerVars, historyVars
<1>1. ASSUME NEW c \in Callers, Start(c) PROVE LockOK'
  <2>1. CASE Acquire(c) /\ pc' = [pc EXCEPT ![c] = "waiting"]
    <3>1. "waiting" \in Queued
      BY DEF Queued
    <3>2. QED BY ONLY LockOK, <1>1, <2>1, <3>1, AcquireKeeps DEF Start
  <2>2. CASE UNCHANGED lockVars /\ pc' = [pc EXCEPT ![c] = "sent"]
    BY <1>1, <2>2 DEF Start, LockOK, Orderly, Queued, States
  <2>3. QED BY <1>1, <2>1, <2>2 DEF Start
<1>2. ASSUME NEW c \in Callers, CheckAgain(c) PROVE LockOK'
  <2>1. CASE Release /\ pc' = [pc EXCEPT ![c] = "sent"]
    BY <1>2, <2>1, ReleaseKeeps DEF CheckAgain
  <2>2. CASE UNCHANGED lockVars /\ pc' = [pc EXCEPT ![c] = "issuing"]
    BY <1>2, <2>2 DEF CheckAgain, LockOK, Orderly, Queued, States
  <2>3. QED BY <1>2, <2>1, <2>2 DEF CheckAgain
<1>3. ASSUME NEW c \in Callers, IssueReturns(c) \/ IssueFails(c) PROVE LockOK'
  <2>1. holder = c
    BY <1>3 DEF IssueReturns, IssueFails, LockOK, Orderly
  <2>2. QED BY <1>3, <2>1, ReleaseKeeps DEF IssueReturns, IssueFails, OnIssueError
<1>4. ASSUME NEW c \in Callers, DropAndRetry(c) PROVE LockOK'
  <2>1. CASE Release /\ pc' = [pc EXCEPT ![c] = "sent"]
    BY <1>4, <2>1, ReleaseKeeps DEF DropAndRetry
  <2>2. CASE waiters = << >> /\ UNCHANGED lockVars /\ pc' = [pc EXCEPT ![c] = "waiting"]
    BY <1>4, <2>2 DEF DropAndRetry, LockOK, Orderly, Queued, States
  <2>3. CASE waiters # << >> /\ holder' = Head(waiters)
             /\ waiters' = Append(Tail(waiters), c) /\ pc' = [pc EXCEPT ![c] = "waiting"]
    BY <1>4, <2>3, RequeueKeeps DEF DropAndRetry
  <2>4. QED BY <1>4, <2>1, <2>2, <2>3 DEF DropAndRetry
<1>5. ASSUME NEW c \in Callers, Answered(c) PROVE LockOK'
  BY <1>5 DEF Answered, LockOK, Orderly, Queued, States
<1>6. ASSUME NEW c \in Callers, Answered401(c) PROVE LockOK'
  <2>1. CASE Acquire(c) /\ pc' = [pc EXCEPT ![c] = "dropping"]
    <3>1. "dropping" \in Queued
      BY DEF Queued
    <3>2. QED BY ONLY LockOK, <1>6, <2>1, <3>1, AcquireKeeps DEF Answered401
  <2>2. CASE UNCHANGED lockVars /\ pc' = [pc EXCEPT ![c] = "idle"]
    BY <1>6, <2>2 DEF Answered401, LockOK, Orderly, Queued, States
  <2>3. QED BY <1>6, <2>1, <2>2 DEF Answered401
<1>7. ASSUME NEW c \in Callers, Cancelled(c) PROVE LockOK'
  <2>1. CASE holder = c
    BY <1>7, <2>1, ReleaseKeeps DEF Cancelled
  <2>2. CASE holder # c /\ \E i \in 1 .. Len(waiters) :
               waiters[i] = c /\ waiters' = RemoveAt(waiters, i) /\ UNCHANGED holder
    BY <1>7, <2>2, LeaveQueueKeeps DEF Cancelled
  <2>3. CASE pc[c] = "sent" /\ UNCHANGED lockVars
    BY <1>7, <2>3 DEF Cancelled, LockOK, Orderly, Queued, States
  <2>4. QED BY <1>7, <2>1, <2>2, <2>3 DEF Cancelled
<1>8. ASSUME UNCHANGED <<pc, lockVars>> PROVE LockOK'
  BY <1>8 DEF LockOK
<1>9. QED
  BY <1>1, <1>2, <1>3, <1>4, <1>5, <1>6, <1>7, <1>8
     DEF Next, Client, Issues, Revoked, MarginReached, vars

(* Every step keeps the tokens accounted for. *)
LEMMA TokenStep == ASSUME LockOK, TokensOK, [Next]_vars PROVE TokensOK'
<1> USE DEF TokensOK, Types, TokenNumbers, Budget, InUse, Usable,
            clientVars, lockVars, providerVars, historyVars
<1>0. /\ pc \in [Callers -> States]
      /\ \A c \in Callers : pc[c] = "issuing" => holder = c
  BY DEF LockOK, Orderly
<1>1. ASSUME NEW c \in Callers, Start(c) PROVE TokensOK'
  BY <1>0, <1>1 DEF Start, States, Queued
<1>2. ASSUME NEW c \in Callers, CheckAgain(c) PROVE TokensOK'
  BY <1>0, <1>2 DEF CheckAgain, States, Queued
<1>3. ASSUME NEW c \in Callers, IssueReturns(c) PROVE TokensOK'
  BY <1>0, <1>3 DEF IssueReturns, States, Queued
<1>4. ASSUME NEW c \in Callers, IssueFails(c) PROVE TokensOK'
  BY <1>0, <1>4 DEF IssueFails, Lose, States, Queued
<1>5. ASSUME NEW c \in Callers, DropAndRetry(c) PROVE TokensOK'
  <2>1. pc[c] = "dropping" /\ held[c] # valid /\ held[c] # 0
    BY <1>5 DEF DropAndRetry
  <2>2. \A d \in Callers : pc[d] # "issuing" /\ answer[d] = 0
    BY <1>0, <1>5, <2>1 DEF DropAndRetry
  <2>3. cached' \in {0, cached} /\ fresh' \in BOOLEAN /\ (fresh' => fresh)
        /\ (fresh' => cached' # 0)
    BY <1>5 DEF DropAndRetry, AfterDrop
  <2>4. Types'
    BY <1>5, <2>3 DEF DropAndRetry
  <2>5. TokenNumbers'
    BY <1>0, <1>5, <2>2, <2>3 DEF DropAndRetry, States, Queued
  <2>6. InUse => InUse'
    <3>1. CASE cached = held[c]
      BY <2>1, <2>2, <3>1
    <3>2. CASE cached # held[c]
      BY <1>5, <2>2, <3>2 DEF DropAndRetry, AfterDrop
    <3>3. QED BY <3>1, <3>2
  <2>7. UNCHANGED <<minted, losses>>
    BY <1>5 DEF DropAndRetry
  <2>8. QED BY ONLY TokensOK, <2>4, <2>5, <2>6, <2>7 DEF TokensOK, Types, Budget
<1>6. ASSUME NEW c \in Callers, Answered(c) \/ Answered401(c) PROVE TokensOK'
  BY <1>0, <1>6 DEF Answered, Answered401, States, Queued
<1>7. ASSUME NEW c \in Callers, Cancelled(c) PROVE TokensOK'
  BY <1>0, <1>7 DEF Cancelled, Lose, States, Queued
<1>8. ASSUME NEW c \in Callers, Issues(c) PROVE TokensOK'
  BY <1>0, <1>8 DEF Issues
<1>9. CASE Revoked \/ MarginReached
  <2>1. minted' <= losses' /\ losses' \in Nat
    BY <1>9 DEF Revoked, MarginReached, Lose
  <2>2. CASE Revoked
    BY <1>0, <2>2 DEF Revoked, Lose
  <2>3. CASE MarginReached
    <3>1. Types' /\ TokenNumbers'
      <4>1. /\ losses' \in Nat /\ disturbed' \in SUBSET Callers
            /\ UNCHANGED <<pc, attempt, held, cached, valid, minted, answer, refused>>
        BY <2>1, <2>3 DEF MarginReached, Lose
      <4>2. fresh' = FALSE
        BY <2>3 DEF MarginReached
      <4>3. Types'
        BY <4>1, <4>2
      <4>4. TokenNumbers'
        BY <4>1, <4>2
      <4>5. QED BY <4>3, <4>4
    <3>2. QED BY <2>1, <3>1
  <2>4. QED BY <1>9, <2>2, <2>3
<1>10. CASE UNCHANGED vars
  BY <1>10 DEF vars
<1>11. QED
  BY <1>1, <1>2, <1>3, <1>4, <1>5, <1>6, <1>7, <1>8, <1>9, <1>10 DEF Next, Client

(* A queue whose members lie in a set is a queue over that set. *)
LEMMA QueueOver ==
  ASSUME NEW S, NEW T, NEW q \in Seq(S), \A i \in 1 .. Len(q) : q[i] \in T
  PROVE  q \in Seq(T)
<1>1. Len(q) \in Nat /\ SubSeq(q, 1, Len(q)) = q
  BY LenProperties, SubSeqFull
<1>2. SubSeq(q, 1, Len(q)) \in Seq(T)
  BY <1>1, SubSeqProperties
<1>3. QED BY <1>1, <1>2

(* The lock is orderly and the tokens are accounted for, always. *)
LEMMA IInvHolds == Spec => []IInv
<1>1. Init => IInv
  <2> SUFFICES ASSUME Init PROVE IInv
    OBVIOUS
  <2>1. LockOK
    <3>1. << >> \in Seq(Callers) /\ Len(<< >>) = 0
      BY EmptySeq
    <3>2. QED BY <3>1 DEF Init, LockOK, Orderly, Queued, States
  <2>2. TokensOK
    <3>1. /\ attempt \in [Callers -> {1, 2}]
          /\ held \in [Callers -> Nat] /\ answer \in [Callers -> Nat]
          /\ fresh \in BOOLEAN
      BY DEF Init
    <3>2. Types
      BY <3>1 DEF Init, Types
    <3>3. TokenNumbers /\ Budget
      BY DEF Init, TokenNumbers, Usable, Budget
    <3>4. QED BY <3>2, <3>3 DEF TokensOK
  <2>3. QED BY <2>1, <2>2 DEF IInv
<1>2. IInv /\ [Next]_vars => IInv'
  BY LockStep, TokenStep DEF IInv
<1>3. QED BY <1>1, <1>2, PTL DEF Spec

-----------------------------------------------------------------------------
(* The cache and its lock never leave their types: whoever owns or awaits  *)
(* _token_lock is inside its block, whichever coroutine fails or is        *)
(* cancelled meanwhile.                                                    *)
THEOREM TokenTypeCorrect == Spec => []TypeOK
<1>1. IInv => TypeOK
  <2> SUFFICES ASSUME IInv PROVE TypeOK
    OBVIOUS
  <2>1. waiters \in Seq({c \in Callers : pc[c] \in Queued})
    <3>1. \A i \in 1 .. Len(waiters) : waiters[i] \in {c \in Callers : pc[c] \in Queued}
      BY ElementOfSeq DEF IInv, LockOK, Orderly
    <3>2. QED BY <3>1, QueueOver DEF IInv, LockOK, Orderly
  <2>2. QED BY <2>1 DEF IInv, LockOK, Orderly, TokensOK, Types, TypeOK
<1>2. QED BY <1>1, IInvHolds, PTL

(* No token is issued without a loss, for every number of coroutines: the  *)
(* second look inside the lock and the comparison in                       *)
(* _invalidate_token_if_stale share one issuance among all of them.        *)
THEOREM IssuanceIsShared == Spec => []NoNeedlessIssuance
<1>1. IInv => NoNeedlessIssuance
  BY DEF IInv, TokensOK, Types, Budget, NoNeedlessIssuance
<1>2. QED BY <1>1, IInvHolds, PTL

-----------------------------------------------------------------------------
(* A request that no loss disturbed: every token that is on its way is the *)
(* valid one, and a usable cached one is valid unless it is the one the    *)
(* request was first sent with.  After the retry has dropped that one, the *)
(* cache only offers the valid token, and the retry is sent with it.       *)
NothingElseIsDead(c) ==
  /\ \A d \in Callers : answer[d] # 0 => answer[d] = valid
  /\ Usable => cached \in {held[c], valid}

(* What this means for c at each of its steps. *)
Undisturbed(c) ==
  /\ pc[c] \in {"sent", "dropping"} => NothingElseIsDead(c)
  /\ attempt[c] = 2 /\ pc[c] \in {"waiting", "issuing"} =>
       NothingElseIsDead(c) /\ (Usable => cached = valid)
  /\ attempt[c] = 2 /\ pc[c] = "sent" => Usable /\ cached = valid /\ held[c] = valid

(* The inductive invariant of the one retry. *)
RetryInv == \A c \in Callers : c \notin disturbed /\ pc[c] # "idle" => Undisturbed(c)

(* Every step of a coroutine, the provider or the clock keeps RetryInv.    *)
LEMMA RetryStep == ASSUME IInv, RetryInv, [Next]_vars PROVE RetryInv'
<1> SUFFICES ASSUME NEW c \in Callers, c \notin disturbed', pc'[c] # "idle"
             PROVE  Undisturbed(c)'
  BY DEF RetryInv
<1> USE DEF clientVars, lockVars, providerVars, historyVars, Undisturbed, NothingElseIsDead, Usable
<1>0. /\ pc \in [Callers -> States]
      /\ \A d \in Callers : pc[d] = "issuing" => holder = d
      /\ Types /\ TokenNumbers
      /\ \A d \in Callers : answer[d] # 0 => pc[d] = "issuing" /\ answer[d] = minted
      /\ Usable => \A d \in Callers : answer[d] = 0
      /\ c \notin disturbed /\ pc[c] # "idle" => Undisturbed(c)
  BY DEF IInv, LockOK, Orderly, TokensOK, TokenNumbers, RetryInv
<1>1. ASSUME NEW d \in Callers, Start(d) PROVE Undisturbed(c)'
  BY <1>0, <1>1 DEF Start, Types
<1>2. ASSUME NEW d \in Callers, CheckAgain(d) PROVE Undisturbed(c)'
  BY <1>0, <1>2 DEF CheckAgain, Types
<1>3. ASSUME NEW d \in Callers, IssueReturns(d) PROVE Undisturbed(c)'
  BY <1>0, <1>3 DEF IssueReturns, Types, TokenNumbers
<1>4. ASSUME NEW d \in Callers, IssueFails(d) PROVE Undisturbed(c)'
  BY <1>0, <1>4 DEF IssueFails, Lose, Types
<1>5. ASSUME NEW d \in Callers, DropAndRetry(d) PROVE Undisturbed(c)'
  BY <1>0, <1>5 DEF DropAndRetry, AfterDrop, Types, TokenNumbers
<1>6. ASSUME NEW d \in Callers, Answered(d) \/ Answered401(d) PROVE Undisturbed(c)'
  BY <1>0, <1>6 DEF Answered, Answered401, Types
<1>7. ASSUME NEW d \in Callers, Cancelled(d) PROVE Undisturbed(c)'
  BY <1>0, <1>7 DEF Cancelled, Lose, Types
<1>8. ASSUME NEW d \in Callers, Issues(d) PROVE Undisturbed(c)'
  BY <1>0, <1>8 DEF Issues, Types, TokenNumbers
<1>9. CASE Revoked \/ MarginReached
  BY <1>9 DEF Revoked, MarginReached, Lose
<1>10. CASE UNCHANGED vars
  BY <1>0, <1>10 DEF vars
<1>11. QED
  BY <1>1, <1>2, <1>3, <1>4, <1>5, <1>6, <1>7, <1>8, <1>9, <1>10 DEF Next, Client

(* The one retry of a request is enough: whoever else fails, retries or is *)
(* cancelled, a reader gets a 401 for it only when a token was lost while  *)
(* the request was under way.                                              *)
THEOREM OneRetryIsEnough == Spec => []RetryRecovers
<1>1. Init => RetryInv /\ RetryRecovers
  BY DEF Init, RetryInv, RetryRecovers
<1>2. IInv /\ RetryInv /\ RetryRecovers /\ [Next]_vars => (RetryInv /\ RetryRecovers)'
  <2> SUFFICES ASSUME IInv, RetryInv, RetryRecovers, [Next]_vars
               PROVE  (RetryInv /\ RetryRecovers)'
    OBVIOUS
  <2>1. RetryInv'
    BY RetryStep
  <2>2. ASSUME NEW c \in Readers, c \in refused', c \notin disturbed' PROVE FALSE
    <3> USE DEF clientVars, lockVars, providerVars, historyVars
    <3>1. c \in Callers
      BY TokenCacheAssumption DEF TokenCacheAssumption
    <3>2. CASE Answered401(c)
      <4>1. \/ attempt[c] = 2 /\ pc[c] = "sent" /\ held[c] # valid
            \/ c \in refused /\ c \notin disturbed
        BY <2>2, <3>2 DEF Answered401
      <4>2. c \notin disturbed /\ pc[c] # "idle"
        BY <2>2, <3>2 DEF Answered401
      <4>3. QED BY <3>1, <4>1, <4>2 DEF RetryInv, Undisturbed, RetryRecovers
    <3>3. CASE ~Answered401(c)
      <4>1. c \in refused
        BY <2>2, <3>1, <3>3 DEF Next, Client, Start, CheckAgain, IssueReturns, IssueFails,
           DropAndRetry, Answered, Answered401, Cancelled, Issues, Revoked, MarginReached, vars
      <4>2. c \notin disturbed
        BY <2>2, <3>1, <3>3, <4>1 DEF Next, Client, Start, CheckAgain, IssueReturns, IssueFails,
           DropAndRetry, Answered, Answered401, Cancelled, Issues, Revoked, MarginReached, Lose, vars
      <4>3. QED BY <4>1, <4>2 DEF RetryRecovers
    <3>4. QED BY <3>2, <3>3
  <2>3. QED BY <2>1, <2>2 DEF RetryRecovers
<1>3. QED BY <1>1, <1>2, IInvHolds, PTL DEF Spec
=============================================================================
