-------------------------- MODULE AuditFileProofs ---------------------------
(***************************************************************************)
(* For any number of processes, records and pieces: a line is shared only  *)
(* after a failure, and an append that returned is on disk for good.       *)
(***************************************************************************)
EXTENDS AuditFile, SequenceTheorems, TLAPS

-----------------------------------------------------------------------------
(* The plain state; the file holds only pieces of records begun.           *)
Plain ==
  /\ pc \in [Writers -> {"idle", "look", "create", "open", "opened"} \cup Locked]
  /\ rec \in [Writers -> 0 .. begun]
  /\ written \in [Writers -> 0 .. Size]
  /\ owner \in Writers \cup {Nobody}
  /\ begun \in 0 .. NumRecords
  /\ done \subseteq 1 .. begun /\ broken \subseteq 1 .. begun

(* ok is a truth value, for whichever process. *)
Outcomes == ok \in [Writers -> BOOLEAN]

(* What the file holds, and how much of it is synced. *)
Disk ==
  /\ file \in Seq((1 .. begun) \X (1 .. Size))
  /\ durable \in 0 .. Len(file)

(* Who is between flock and LOCK_UN is the owner, and knows how far it is. *)
Turns ==
  \A w \in Writers :
    /\ owner = w <=> pc[w] \in Locked
    /\ pc[w] \in Locked => rec[w] # 0
    /\ pc[w] = "write" => written[w] < Size
    /\ pc[w] = "sync" => written[w] = Size
    /\ pc[w] \in {"look", "create", "open", "opened"} /\ rec[w] # 0 => written[w] = 0

(* The file ends with what the owner has written of its line, and with all *)
(* of it, synced, when nothing failed.                                     *)
OwnLine ==
  \A w \in Writers : pc[w] \in Locked =>
    /\ written[w] <= Len(file)
    /\ \A k \in 1 .. written[w] : file[Len(file) - written[w] + k] = <<rec[w], k>>

(* The owner has written and synced its line and nothing failed. *)
Complete(w) == pc[w] = "unlock" /\ ok[w]

Synchronised ==
  \A w \in Writers : Complete(w) => written[w] = Size /\ durable = Len(file)

(* A line that could be cut here, by its writer or by a power loss, is     *)
(* broken or still being written.                                          *)
BeingWritten(r) ==
  \E w \in Writers : pc[w] \in Locked /\ ~Complete(w) /\ written[w] > 0 /\ rec[w] = r

TornOrOwn ==
  \A i \in 1 .. Len(file) :
    i >= durable /\ file[i][2] # Size => file[i][1] \in broken \/ BeingWritten(file[i][1])

(* An append that returned is whole in the synced part of the file. *)
DoneIsStored == done \subseteq Stored

(* The inductive invariant of the audit file. *)
FileInv ==
  Plain /\ Outcomes /\ Disk /\ Turns /\ OwnLine /\ Synchronised /\ TornOrOwn
        /\ OnlyTornLinesAreShared /\ DoneIsStored

(* A place behind the first l of l + n is one of the other n. *)
LEMMA PlaceBehind ==
  ASSUME NEW l \in Nat, NEW n \in Nat, NEW i \in 1 .. l + n, ~(i <= l)
  PROVE  i - l \in 1 .. n /\ l + (i - l) = i
OBVIOUS

(* And each of the other n has its place there. *)
LEMMA PlaceOfNew ==
  ASSUME NEW l \in Nat, NEW n \in Nat, NEW k \in 1 .. n
  PROVE  l + k \in 1 .. l + n /\ ~(l + k <= l) /\ l + k - l = k
OBVIOUS

(* Every step leaves the outcomes truth values. *)
LEMMA OutcomesStep == Outcomes /\ [Next]_vars => Outcomes'
<1> SUFFICES ASSUME Outcomes, [Next]_vars PROVE Outcomes'
  OBVIOUS
<1>1. ok' = ok \/ \E w \in Writers : ok' = [ok EXCEPT ![w] = TRUE] \/ ok' = [ok EXCEPT ![w] = FALSE]
  BY DEF Next, Step, BeginAppend, BeginPrepare, Look, Create, Open, OpenFails, Flock, Write, Sync,
     WriteFails, Finish, Killed, PowerLoss, vars
<1>2. QED BY <1>1 DEF Outcomes

(* Every step leaves the plain state in its sets. *)
LEMMA PlainStep == Plain /\ [Next]_vars => Plain'
<1> SUFFICES ASSUME Plain, [Next]_vars PROVE Plain'
  OBVIOUS
<1> USE AuditFileAssumption DEF AuditFileAssumption, Plain, Locked, Goes, diskVars, historyVars
<1>1. \A w \in Writers : Appending(w) \subseteq 1 .. begun
  BY DEF Appending
<1>2. ASSUME NEW w \in Writers, NEW success \in BOOLEAN, Over(w, success),
             UNCHANGED <<rec, written>>
      PROVE  Plain'
  BY <1>1, <1>2 DEF Over, Unlocked
<1>3. ASSUME NEW w \in Writers, BeginAppend(w) \/ BeginPrepare(w)
      PROVE  Plain'
  <2>1. CASE BeginAppend(w)
    <3>1. begun' = begun + 1 /\ begun' \in 0 .. NumRecords /\ rec' = [rec EXCEPT ![w] = begun']
      BY <2>1 DEF BeginAppend
    <3>2. rec' \in [Writers -> 0 .. begun']
      BY <3>1
    <3>3. 1 .. begun \subseteq 1 .. begun'
      BY <3>1
    <3>4. QED BY <2>1, <3>1, <3>2, <3>3 DEF BeginAppend
  <2>2. CASE BeginPrepare(w)
    BY <2>2 DEF BeginPrepare
  <2>3. QED BY <1>3, <2>1, <2>2
<1>4. ASSUME NEW w \in Writers, Look(w) \/ Create(w) \/ Open(w) \/ Flock(w) \/ WriteFails(w)
      PROVE  Plain'
  <2>1. CASE Look(w) \/ Create(w) \/ Open(w)
    BY <2>1 DEF Look, Create, Open
  <2>2. CASE Flock(w)
    BY <2>2 DEF Flock
  <2>3. CASE WriteFails(w)
    BY <2>3 DEF WriteFails
  <2>4. QED BY <1>4, <2>1, <2>2, <2>3
<1>5. ASSUME NEW w \in Writers, Write(w)
      PROVE  Plain'
  <2>1. PICK n \in 1 .. Size - written[w] : written' = [written EXCEPT ![w] = @ + n]
    BY <1>5 DEF Write
  <2>2. written[w] + n \in 0 .. Size
    OBVIOUS
  <2>3. written' \in [Writers -> 0 .. Size]
    BY <2>1, <2>2
  <2>4. QED BY <1>5, <2>3 DEF Write, AfterWrite
<1>6. ASSUME NEW w \in Writers, Sync(w)
      PROVE  Plain'
  <2>1. CASE rec[w] = 0
    BY <1>2, <1>6, <2>1 DEF Sync
  <2>2. CASE rec[w] # 0
    BY <1>6, <2>2 DEF Sync
  <2>3. QED BY <2>1, <2>2
<1>7. ASSUME NEW w \in Writers, OpenFails(w) \/ Finish(w) \/ Killed(w)
      PROVE  Plain'
  <2>1. UNCHANGED <<rec, written>> /\ (Over(w, FALSE) \/ Over(w, ok[w]))
    BY <1>7 DEF OpenFails, Finish, Killed
  <2>2. CASE Over(w, TRUE)
    BY <1>2, <2>1, <2>2
  <2>3. QED BY <1>1, <2>1 DEF Over, Unlocked
<1>8. CASE PowerLoss
  <2>1. UNION {Appending(w) : w \in {v \in Writers : pc[v] # "idle"}} \subseteq 1 .. begun
    BY <1>1
  <2>2. QED BY <1>8, <2>1 DEF PowerLoss
<1>9. CASE UNCHANGED vars
  BY <1>9 DEF vars
<1>10. QED BY <1>3, <1>4, <1>5, <1>6, <1>7, <1>8, <1>9 DEF Next, Step

(* What one os.write leaves behind. *)
Appended(w, n) ==
  /\ file' \in Seq((1 .. begun) \X (1 .. Size)) /\ Len(file') = Len(file) + n
  /\ \A i \in 1 .. Len(file) : file'[i] = file[i]
  /\ \A k \in 1 .. n : file'[Len(file) + k] = <<rec[w], written[w] + k>>
  /\ written' = [written EXCEPT ![w] = @ + n]
  /\ n \in 1 .. Size - written[w]

(* A write appends one or more pieces of the line of its process. *)
LEMMA WriteAppends ==
  ASSUME Plain, Disk, Turns, NEW w \in Writers, Write(w)
  PROVE  \E n \in Nat : Appended(w, n)
<1> USE AuditFileAssumption DEF AuditFileAssumption, Plain, Disk
<1>1. PICK n \in 1 .. Size - written[w] :
             /\ file' = file \o [i \in 1 .. n |-> <<rec[w], written[w] + i>>]
             /\ written' = [written EXCEPT ![w] = @ + n]
  BY DEF Write
<1> DEFINE S == (1 .. begun) \X (1 .. Size)
           new == [i \in 1 .. n |-> <<rec[w], written[w] + i>>]
<1>2. rec[w] \in 1 .. begun
  BY DEF Turns, Write, Locked
<1>3. n \in Nat /\ \A i \in 1 .. n : written[w] + i \in 1 .. Size
  OBVIOUS
<1>4. new \in [1 .. n -> S]
  BY <1>2, <1>3
<1>5. new \in Seq(S)
  BY <1>3, <1>4, SeqDef
<1>6. Len(new) = n
  BY <1>3, <1>5, LenProperties
<1>7. \A k \in 1 .. n : new[k] = <<rec[w], written[w] + k>>
  OBVIOUS
<1>8. file \in Seq(S) /\ Len(file) \in Nat
  BY LenProperties
<1> HIDE DEF S, new
<1>9. /\ file \o new \in Seq(S) /\ Len(file \o new) = Len(file) + n
      /\ \A i \in 1 .. Len(file) + n :
           (file \o new)[i] = IF i <= Len(file) THEN file[i] ELSE new[i - Len(file)]
  BY <1>5, <1>6, <1>8, ConcatProperties
<1>10. \A i \in 1 .. Len(file) : (file \o new)[i] = file[i]
  BY <1>3, <1>8, <1>9
<1>11. \A k \in 1 .. n : (file \o new)[Len(file) + k] = <<rec[w], written[w] + k>>
  <2> SUFFICES ASSUME NEW k \in 1 .. n
               PROVE  (file \o new)[Len(file) + k] = <<rec[w], written[w] + k>>
    OBVIOUS
  <2>1. /\ Len(file) + k \in 1 .. Len(file) + n /\ ~(Len(file) + k <= Len(file))
        /\ Len(file) + k - Len(file) = k
    <3> DEFINE l == Len(file)
    <3>1. n \in Nat /\ l \in Nat
      BY <1>3, <1>8
    <3> HIDE DEF l
    <3>2. l + k \in 1 .. l + n /\ ~(l + k <= l) /\ l + k - l = k
      BY ONLY <3>1, k \in 1 .. n, PlaceOfNew
    <3>3. QED BY <3>2 DEF l
  <2>2. (file \o new)[Len(file) + k] = new[Len(file) + k - Len(file)]
    BY ONLY <1>9, <2>1
  <2>3. (file \o new)[Len(file) + k] = new[k]
    BY ONLY <2>1, <2>2
  <2>4. QED BY <1>7, <2>3
<1>12. file' = file \o new
  BY <1>1 DEF new
<1>13. QED BY <1>1, <1>3, <1>9, <1>10, <1>11, <1>12 DEF Appended, S

(* What a power loss leaves: a beginning of the file, all of it durable. *)
LEMMA PowerLossKeepsABeginning ==
  ASSUME Plain, Disk, PowerLoss
  PROVE  /\ file' \in Seq((1 .. begun) \X (1 .. Size))
         /\ durable' \in durable .. Len(file) /\ Len(file') = durable'
         /\ \A i \in 1 .. durable' : file'[i] = file[i]
<1> USE DEF Plain, Disk
<1>1. PICK n \in durable .. Len(file) : file' = SubSeq(file, 1, n) /\ durable' = n
  BY DEF PowerLoss
<1> DEFINE S == (1 .. begun) \X (1 .. Size)
<1>2. Len(file) \in Nat /\ n \in Nat /\ n \in Int /\ 1 \in Int /\ n <= Len(file)
  BY LenProperties
<1>3. \A i \in 1 .. n : file[i] \in S
  BY <1>2, ElementOfSeq
<1> HIDE DEF S
<1>4. /\ SubSeq(file, 1, n) \in Seq(S)
      /\ Len(SubSeq(file, 1, n)) = IF 1 <= n THEN n - 1 + 1 ELSE 0
      /\ \A i \in 1 .. n - 1 + 1 : SubSeq(file, 1, n)[i] = file[1 + i - 1]
  BY <1>2, <1>3, SubSeqProperties
<1>5. 1 .. n - 1 + 1 = 1 .. n /\ (IF 1 <= n THEN n - 1 + 1 ELSE 0) = n /\ \A i \in 1 .. n : 1 + i - 1 = i
  BY <1>2
<1>6. QED BY <1>1, <1>4, <1>5 DEF S

(* All other steps leave the pieces alone. *)
LEMMA FileChanges ==
  ASSUME [Next]_vars, file' # file
  PROVE  PowerLoss \/ \E w \in Writers : Write(w)
BY DEF Next, Step, BeginAppend, BeginPrepare, Look, Create, Open, OpenFails, Flock, Sync, WriteFails,
   Finish, Killed, vars, diskVars

(* Every step leaves the file one of pieces of records begun. *)
LEMMA DiskStep == Plain /\ Disk /\ Turns /\ [Next]_vars => Disk'
<1> SUFFICES ASSUME Plain, Disk, Turns, [Next]_vars PROVE Disk'
  OBVIOUS
<1>1. Len(file) \in Nat /\ durable \in 0 .. Len(file) /\ begun \in Nat
  BY LenProperties DEF Disk, Plain
<1>2. CASE PowerLoss
  <2>1. begun' = begun
    BY <1>2 DEF PowerLoss
  <2>2. QED BY <1>1, <1>2, <2>1, PowerLossKeepsABeginning DEF Disk
<1>3. ASSUME NEW w \in Writers, Write(w)
      PROVE  Disk'
  <2>1. PICK n \in Nat : Appended(w, n)
    BY <1>3, WriteAppends
  <2>2. durable' = durable /\ begun' = begun
    BY <1>3 DEF Write, historyVars
  <2>3. QED BY <1>1, <2>1, <2>2 DEF Disk, Appended
<1>4. CASE file' = file
  <2>1. begun' \in {begun, begun + 1}
    BY DEF Next, Step, BeginAppend, BeginPrepare, Look, Create, Open, OpenFails, Flock, Write, Sync,
       WriteFails, Finish, Killed, Over, PowerLoss, vars, historyVars
  <2>2. durable' \in 0 .. Len(file)
    BY <1>1, <1>4 DEF Next, Step, BeginAppend, BeginPrepare, Look, Create, Open, OpenFails, Flock, Write,
       Sync, Synced, WriteFails, Finish, Killed, Over, PowerLoss, vars, diskVars
  <2>3. \A i \in 1 .. Len(file) : file[i] \in (1 .. begun') \X (1 .. Size)
    BY <1>1, <2>1, ElementOfSeq DEF Disk
  <2>4. file \in [1 .. Len(file) -> (1 .. begun') \X (1 .. Size)]
    BY <2>3, LenProperties DEF Disk
  <2>5. file \in Seq((1 .. begun') \X (1 .. Size))
    BY ONLY <1>1, <2>4, SeqDef
  <2>6. QED BY <1>4, <2>2, <2>5 DEF Disk
<1>5. QED BY <1>2, <1>3, <1>4, FileChanges

-----------------------------------------------------------------------------
(* What a process does before its flock, and in prepare(), leaves whoever  *)
(* holds the flock alone.                                                  *)
BeforeTheFlock(w) ==
  \/ BeginAppend(w) \/ BeginPrepare(w) \/ Look(w) \/ Create(w) \/ Open(w) \/ OpenFails(w)
  \/ Sync(w) /\ rec[w] = 0
  \/ Killed(w) /\ pc[w] \notin Locked

(* Those steps change neither the owner nor what it knows. *)
LEMMA OwnerIsLeftAlone ==
  ASSUME Plain, Turns, NEW w \in Writers, BeforeTheFlock(w)
  PROVE  /\ pc[w] \notin Locked /\ pc'[w] \notin Locked /\ owner' = owner /\ file' = file
         /\ \A v \in Writers \ {w} : /\ pc'[v] = pc[v] /\ rec'[v] = rec[v]
                                     /\ written'[v] = written[v] /\ ok'[v] = ok[v]
         /\ broken \subseteq broken' /\ (durable' = durable \/ durable' = Len(file))
<1> USE AuditFileAssumption DEF AuditFileAssumption, Plain, Turns, Locked, Goes, diskVars, historyVars
<1>1. CASE BeginAppend(w)
  BY <1>1 DEF BeginAppend
<1>2. CASE BeginPrepare(w)
  BY <1>2 DEF BeginPrepare
<1>3. CASE Look(w) \/ Create(w) \/ Open(w)
  BY <1>3 DEF Look, Create, Open
<1>4. CASE OpenFails(w)
  BY <1>4 DEF OpenFails, Over, Unlocked
<1>5. CASE Killed(w) /\ pc[w] \notin Locked
  BY <1>5 DEF Killed, Over, Unlocked
<1>6. CASE Sync(w) /\ rec[w] = 0
  BY <1>6 DEF Sync, Synced, Over, Unlocked
<1>7. QED BY <1>1, <1>2, <1>3, <1>4, <1>5, <1>6 DEF BeforeTheFlock

(* Every step leaves the flock with one process that knows how far it is. *)
LEMMA TurnsStep == Plain /\ Turns /\ [Next]_vars => Turns'
<1> SUFFICES ASSUME Plain, Turns, [Next]_vars PROVE Turns'
  OBVIOUS
<1> USE AuditFileAssumption DEF AuditFileAssumption, Plain, Turns, Locked, Goes, diskVars, historyVars
<1>1. ASSUME NEW w \in Writers, BeginAppend(w) \/ BeginPrepare(w)
      PROVE  Turns'
  BY <1>1 DEF BeginAppend, BeginPrepare
<1>2. ASSUME NEW w \in Writers, Look(w) \/ Create(w) \/ Open(w)
      PROVE  Turns'
  BY <1>2 DEF Look, Create, Open
<1>3. ASSUME NEW w \in Writers, NEW success \in BOOLEAN, Over(w, success), UNCHANGED <<rec, written>>
      PROVE  Turns'
  BY <1>3 DEF Over, Unlocked
<1>4. ASSUME NEW w \in Writers, OpenFails(w) \/ Killed(w) \/ Finish(w)
      PROVE  Turns'
  <2>1. UNCHANGED <<rec, written>> /\ pc' = [pc EXCEPT ![w] = "idle"] /\ owner' = Unlocked(w)
    BY <1>4 DEF OpenFails, Finish, Killed, Over
  <2>2. QED BY <2>1 DEF Unlocked
<1>5. ASSUME NEW w \in Writers, Flock(w)
      PROVE  Turns'
  BY <1>5 DEF Flock, FlockFree
<1>6. ASSUME NEW w \in Writers, Write(w)
      PROVE  Turns'
  <2>1. PICK n \in 1 .. Size - written[w] : written' = [written EXCEPT ![w] = @ + n]
    BY <1>6 DEF Write
  <2>2. written'[w] \in 0 .. Size
    BY <2>1
  <2>3. pc' = [pc EXCEPT ![w] = IF written'[w] = Size THEN "sync" ELSE "write"]
    BY <1>6 DEF Write, AfterWrite
  <2>4. pc[w] = "write" /\ rec' = rec /\ owner' = owner
    BY <1>6 DEF Write
  <2>5. \A v \in Writers \ {w} : pc'[v] = pc[v] /\ written'[v] = written[v]
    BY <2>1, <2>3
  <2>6. pc'[w] = IF written'[w] = Size THEN "sync" ELSE "write"
    BY <2>3
  <2>7. QED BY <2>2, <2>4, <2>5, <2>6
<1>7. ASSUME NEW w \in Writers, Sync(w)
      PROVE  Turns'
  BY <1>3, <1>7 DEF Sync
<1>8. ASSUME NEW w \in Writers, WriteFails(w)
      PROVE  Turns'
  BY <1>8 DEF WriteFails
<1>9. CASE PowerLoss
  BY <1>9 DEF PowerLoss
<1>10. CASE UNCHANGED vars
  BY <1>10 DEF vars
<1>11. QED BY <1>1, <1>2, <1>4, <1>5, <1>6, <1>7, <1>8, <1>9, <1>10 DEF Next, Step

(* The process with the flock is the only one between flock and LOCK_UN. *)
LEMMA OneOwner ==
  ASSUME Turns, NEW v \in Writers, NEW w \in Writers, pc[v] \in Locked, pc[w] \in Locked
  PROVE  v = w
BY DEF Turns

(* The last piece of the file is the last one its owner wrote. *)
LEMMA LastPiece ==
  ASSUME Plain, Disk, Turns, OwnLine, NEW w \in Writers, pc[w] \in Locked, written[w] > 0
  PROVE  Len(file) \in Nat \ {0} /\ file[Len(file)] = <<rec[w], written[w]>>
<1>1. written[w] \in 1 .. Size /\ Size \in Nat /\ Len(file) \in Nat
  BY AuditFileAssumption, LenProperties DEF AuditFileAssumption, Plain, Disk
<1>2. written[w] <= Len(file) /\ file[Len(file) - written[w] + written[w]] = <<rec[w], written[w]>>
  <2>1. \A k \in 1 .. written[w] : file[Len(file) - written[w] + k] = <<rec[w], k>>
    BY DEF OwnLine
  <2>2. written[w] \in 1 .. written[w]
    BY <1>1
  <2>3. written[w] <= Len(file)
    BY DEF OwnLine
  <2>4. QED BY <2>1, <2>2, <2>3
<1>3. Len(file) - written[w] + written[w] = Len(file) /\ Len(file) # 0
  BY <1>1, <1>2
<1>4. QED BY <1>1, <1>2, <1>3

(* The owner's end of the file, before and after each step. *)
LEMMA OwnLineStep ==
  Plain /\ Outcomes /\ Disk /\ Turns /\ OwnLine /\ Synchronised /\ [Next]_vars =>
    OwnLine' /\ Synchronised'
<1> SUFFICES ASSUME Plain, Outcomes, Disk, Turns, OwnLine, Synchronised, [Next]_vars
             PROVE  OwnLine' /\ Synchronised'
  OBVIOUS
<1> USE AuditFileAssumption DEF AuditFileAssumption
<1>1. Len(file) \in Nat /\ durable \in 0 .. Len(file) /\ Size \in Nat \ {0}
  BY LenProperties DEF Disk
<1>2. ASSUME NEW w \in Writers, BeforeTheFlock(w)
      PROVE  OwnLine' /\ Synchronised'
  <2>1. /\ pc'[w] \notin Locked /\ file' = file
        /\ \A v \in Writers \ {w} : /\ pc'[v] = pc[v] /\ rec'[v] = rec[v]
                                    /\ written'[v] = written[v] /\ ok'[v] = ok[v]
        /\ durable' = durable \/ durable' = Len(file)
    BY <1>2, OwnerIsLeftAlone
  <2>2. OwnLine'
    <3> SUFFICES ASSUME NEW v \in Writers, pc'[v] \in Locked
                 PROVE  /\ written'[v] <= Len(file')
                        /\ \A k \in 1 .. written'[v] :
                             file'[Len(file') - written'[v] + k] = <<rec'[v], k>>
      BY DEF OwnLine, Locked
    <3>1. v # w /\ pc[v] \in Locked
      BY <2>1
    <3>2. QED BY <2>1, <3>1 DEF OwnLine
  <2>3. Synchronised'
    <3>1. \A v \in Writers : Complete(v)' => v # w /\ Complete(v)
      BY <2>1 DEF Complete, Locked
    <3>2. QED BY <2>1, <3>1 DEF Synchronised
  <2>4. QED BY <2>2, <2>3
<1>3. ASSUME NEW w \in Writers, Flock(w)
      PROVE  OwnLine' /\ Synchronised'
  <2>1. \A v \in Writers : pc[v] \notin Locked
    BY <1>3 DEF Flock, FlockFree, Turns
  <2>2. written[w] = 0
    BY <1>3 DEF Flock, Turns
  <2>3. /\ UNCHANGED <<rec, written, ok, file, durable>> /\ pc'[w] = "write"
        /\ \A v \in Writers \ {w} : pc'[v] = pc[v]
    BY <1>3 DEF Flock, Goes, Plain, diskVars
  <2>4. QED BY <1>1, <2>1, <2>2, <2>3 DEF OwnLine, Synchronised, Complete, Locked
<1>4. ASSUME NEW w \in Writers, Write(w)
      PROVE  OwnLine' /\ Synchronised'
  <2>1. PICK n \in Nat : Appended(w, n)
    BY <1>4, WriteAppends
  <2>2. \A v \in Writers \ {w} : pc'[v] = pc[v] /\ pc[v] \notin Locked
    BY <1>4, OneOwner DEF Write, Goes, Plain, Locked
  <2>3. pc'[w] \in {"write", "sync"} /\ rec' = rec
    BY <1>4 DEF Write, Goes, AfterWrite, Plain
  <2>4. /\ written[w] \in Nat /\ written[w] <= Len(file)
        /\ \A k \in 1 .. written[w] : file[Len(file) - written[w] + k] = <<rec[w], k>>
    BY <1>4 DEF OwnLine, Write, Locked, Plain
  <2>5. written'[w] = written[w] + n /\ Len(file') = Len(file) + n
    BY <2>1 DEF Appended, Plain
  <2>6. \A k \in 1 .. written'[w] : file'[Len(file') - written'[w] + k] = <<rec[w], k>>
    <3> SUFFICES ASSUME NEW k \in 1 .. written'[w]
                 PROVE  file'[Len(file') - written'[w] + k] = <<rec[w], k>>
      OBVIOUS
    <3>1. Len(file') - written'[w] + k = Len(file) - written[w] + k
      BY <1>1, <2>4, <2>5
    <3>2. CASE k <= written[w]
      <4>1. Len(file) - written[w] + k \in 1 .. Len(file) /\ k \in 1 .. written[w]
        BY <1>1, <2>4, <3>2
      <4>2. QED BY <2>1, <2>4, <3>1, <4>1 DEF Appended
    <3>3. CASE ~(k <= written[w])
      <4>1. PICK j \in 1 .. n : k = written[w] + j
        <5>1. k - written[w] \in 1 .. n /\ k = written[w] + (k - written[w])
          BY <2>4, <2>5, <3>3
        <5>2. QED BY <5>1
      <4>2. Len(file) - written[w] + k = Len(file) + j
        BY <1>1, <2>4, <4>1
      <4>3. QED BY <2>1, <3>1, <4>1, <4>2 DEF Appended
    <3>4. QED BY <3>2, <3>3
  <2>7. OwnLine'
    <3> SUFFICES ASSUME NEW v \in Writers, pc'[v] \in Locked
                 PROVE  /\ written'[v] <= Len(file')
                        /\ \A k \in 1 .. written'[v] :
                             file'[Len(file') - written'[v] + k] = <<rec'[v], k>>
      BY DEF OwnLine, Locked
    <3>1. v = w
      BY <2>2
    <3>2. written'[w] <= Len(file')
      BY <1>1, <2>4, <2>5
    <3>3. QED BY <2>3, <2>6, <3>1, <3>2
  <2>8. Synchronised'
    BY <2>2, <2>3 DEF Synchronised, Complete, Locked
  <2>9. QED BY <2>7, <2>8
<1>5. ASSUME NEW w \in Writers, Sync(w), rec[w] # 0
      PROVE  OwnLine' /\ Synchronised'
  <2>1. pc[w] = "sync" /\ written[w] = Size /\ durable' = Len(file) /\ pc'[w] = "unlock"
    BY <1>5 DEF Sync, Synced, Turns, Goes, Plain
  <2>2. UNCHANGED <<rec, written, ok, file>> /\ \A v \in Writers \ {w} : pc'[v] = pc[v] /\ pc[v] \notin Locked
    BY <1>5, <2>1, OneOwner DEF Sync, Goes, Plain, Locked
  <2>3. QED BY <2>1, <2>2 DEF OwnLine, Synchronised, Complete, Locked
<1>6. ASSUME NEW w \in Writers, WriteFails(w)
      PROVE  OwnLine' /\ Synchronised'
  <2>1. pc[w] \in Locked /\ pc'[w] = "unlock" /\ UNCHANGED <<rec, written, file, durable>>
    BY <1>6 DEF WriteFails, Goes, Plain, diskVars, Locked
  <2>2. \A v \in Writers \ {w} : pc'[v] = pc[v] /\ pc[v] \notin Locked
    BY <1>6, <2>1, OneOwner DEF WriteFails, Goes, Plain
  <2>3. ~Complete(w)'
    <3>1. ok'[w] = FALSE
      BY <1>6 DEF WriteFails, Outcomes
    <3>2. QED BY <3>1 DEF Complete
  <2>4. QED BY <2>1, <2>2, <2>3 DEF OwnLine, Synchronised, Complete, Locked
<1>7. ASSUME NEW w \in Writers, Finish(w) \/ (Killed(w) /\ pc[w] \in Locked)
      PROVE  OwnLine' /\ Synchronised'
  <2>1. pc[w] \in Locked /\ pc' = [pc EXCEPT ![w] = "idle"]
    BY <1>7 DEF Finish, Killed, Over, Goes, Locked
  <2>2. \A v \in Writers : pc'[v] \notin Locked
    BY <2>1, OneOwner DEF Plain, Locked
  <2>3. QED BY <2>2 DEF OwnLine, Synchronised, Complete, Locked
<1>8. CASE PowerLoss
  <2>1. \A v \in Writers : pc'[v] = "idle"
    BY <1>8 DEF PowerLoss
  <2>2. QED BY <2>1 DEF OwnLine, Synchronised, Complete, Locked
<1>9. CASE UNCHANGED vars
  BY <1>9 DEF vars, OwnLine, Synchronised, Complete
<1>10. QED
  BY <1>2, <1>3, <1>4, <1>5, <1>6, <1>7, <1>8, <1>9 DEF Next, Step, BeforeTheFlock

-----------------------------------------------------------------------------
(* Broken records stay broken. *)
LEMMA BrokenGrows == [Next]_vars => broken \subseteq broken'
BY DEF Next, Step, BeginAppend, BeginPrepare, Look, Create, Open, OpenFails, Flock, Write, Sync,
   WriteFails, Finish, Killed, Over, PowerLoss, vars, historyVars

(* Where a line could be cut, its record stays broken or being written, or *)
(* becomes broken with the process that wrote it.                          *)
LEMMA TornStep ==
  Plain /\ Outcomes /\ Disk /\ Turns /\ OwnLine /\ Synchronised /\ TornOrOwn /\ [Next]_vars => TornOrOwn'
<1> SUFFICES ASSUME Plain, Outcomes, Disk, Turns, OwnLine, Synchronised, TornOrOwn, [Next]_vars
             PROVE  TornOrOwn'
  OBVIOUS
<1> DEFINE Own(r) == \E v \in Writers :
                       pc'[v] \in Locked /\ ~Complete(v)' /\ written'[v] > 0 /\ rec'[v] = r
<1> SUFFICES ASSUME NEW i \in 1 .. Len(file'), i >= durable', file'[i][2] # Size
             PROVE  file'[i][1] \in broken' \/ Own(file'[i][1])
  BY DEF TornOrOwn, BeingWritten, Locked
<1> USE AuditFileAssumption DEF AuditFileAssumption
<1>1. /\ Len(file) \in Nat /\ durable \in 0 .. Len(file) /\ Size \in Nat \ {0}
      /\ Len(file') \in Nat /\ i \in Nat
  <2>1. Len(file') \in Nat
    BY DiskStep, LenProperties DEF Disk
  <2>2. QED BY <2>1, LenProperties DEF Disk
<1>2. broken \subseteq broken'
  BY BrokenGrows
<1>3. ASSUME file' = file, durable' = durable \/ durable' = Len(file),
             \A v \in Writers : pc[v] \in Locked /\ ~Complete(v) =>
               /\ pc'[v] \in Locked /\ ~Complete(v)'
               /\ rec'[v] = rec[v] /\ written'[v] = written[v]
      PROVE  file'[i][1] \in broken' \/ Own(file'[i][1])
  <2>1. i \in 1 .. Len(file) /\ i >= durable /\ file[i][2] # Size
    BY <1>1, <1>3
  <2>2. file[i][1] \in broken \/ BeingWritten(file[i][1])
    BY <2>1 DEF TornOrOwn
  <2>3. CASE file[i][1] \in broken
    BY <1>2, <1>3, <2>3
  <2>4. CASE BeingWritten(file[i][1])
    <3>1. PICK v \in Writers : pc[v] \in Locked /\ ~Complete(v) /\ written[v] > 0 /\ rec[v] = file[i][1]
      BY <2>4 DEF BeingWritten
    <3>2. QED BY <1>3, <3>1
  <2>5. QED BY <2>2, <2>3, <2>4
<1>4. ASSUME NEW w \in Writers, BeforeTheFlock(w)
      PROVE  file'[i][1] \in broken' \/ Own(file'[i][1])
  <2>1. /\ pc[w] \notin Locked /\ file' = file /\ (durable' = durable \/ durable' = Len(file))
        /\ \A v \in Writers \ {w} : /\ pc'[v] = pc[v] /\ rec'[v] = rec[v]
                                    /\ written'[v] = written[v] /\ ok'[v] = ok[v]
    BY <1>4, OwnerIsLeftAlone
  <2>2. \A v \in Writers : pc[v] \in Locked /\ ~Complete(v) =>
          pc'[v] \in Locked /\ ~Complete(v)' /\ rec'[v] = rec[v] /\ written'[v] = written[v]
    BY <2>1 DEF Complete
  <2>3. QED BY <1>3, <2>1, <2>2
<1>5. ASSUME NEW w \in Writers, Flock(w)
      PROVE  file'[i][1] \in broken' \/ Own(file'[i][1])
  <2>1. \A v \in Writers : pc[v] \notin Locked
    BY <1>5 DEF Flock, FlockFree, Turns
  <2>2. file' = file /\ durable' = durable
    BY <1>5 DEF Flock, diskVars
  <2>3. QED BY <1>3, <2>1, <2>2
<1>6. ASSUME NEW w \in Writers, Write(w)
      PROVE  file'[i][1] \in broken' \/ Own(file'[i][1])
  <2>1. PICK n \in Nat : Appended(w, n)
    BY <1>6, WriteAppends
  <2>2. pc[w] \in Locked /\ pc'[w] \in {"write", "sync"} /\ rec' = rec /\ durable' = durable
    BY <1>6 DEF Write, Goes, AfterWrite, Plain, Locked
  <2>3. written[w] \in Nat /\ n \in Nat \ {0} /\ written'[w] = written[w] + n
    BY <2>1 DEF Appended, Plain
  <2>4. Own(rec[w])
    BY <2>2, <2>3 DEF Complete, Locked
  <2>5. CASE i <= Len(file)
    <3>1. i \in 1 .. Len(file)
      BY <1>1, <2>5
    <3>5. file'[i] = file[i]
      BY <2>1, <3>1 DEF Appended
    <3>2. file[i][1] \in broken \/ BeingWritten(file[i][1])
      BY <2>2, <3>1, <3>5 DEF TornOrOwn
    <3>3. BeingWritten(file[i][1]) => file[i][1] = rec[w]
      BY <2>2, OneOwner DEF BeingWritten
    <3>4. QED BY <1>2, <2>4, <3>2, <3>3, <3>5
  <2>6. CASE ~(i <= Len(file))
    <3>1. i - Len(file) \in 1 .. n /\ Len(file) + (i - Len(file)) = i
      <4>1. Len(file) \in Nat /\ i \in 1 .. Len(file) + n
        BY <1>1, <2>1 DEF Appended
      <4>2. QED BY <2>6, <4>1, PlaceBehind
    <3>2. file'[Len(file) + (i - Len(file))] = <<rec[w], written[w] + (i - Len(file))>>
      BY <2>1, <3>1 DEF Appended
    <3>3. QED BY <2>4, <3>1, <3>2
  <2>7. QED BY <2>5, <2>6
<1>7. ASSUME NEW w \in Writers, Sync(w), rec[w] # 0
      PROVE  file'[i][1] \in broken' \/ Own(file'[i][1])
  <2>1. pc[w] \in Locked /\ written[w] = Size /\ durable' = Len(file) /\ file' = file
    BY <1>7 DEF Sync, Synced, Turns, Locked
  <2>2. file[Len(file)] = <<rec[w], Size>> /\ i = Len(file)
    BY <1>1, <2>1, LastPiece
  <2>3. QED BY <2>1, <2>2
<1>8. ASSUME NEW w \in Writers, WriteFails(w)
      PROVE  file'[i][1] \in broken' \/ Own(file'[i][1])
  <2>1. UNCHANGED <<rec, written, file, durable>> /\ pc'[w] = "unlock" /\ ok'[w] = FALSE
    BY <1>8 DEF WriteFails, Goes, Plain, Outcomes, diskVars
  <2>2. \A v \in Writers \ {w} : pc'[v] = pc[v] /\ ok'[v] = ok[v]
    BY <1>8 DEF WriteFails, Goes, Plain, Outcomes
  <2>3. \A v \in Writers : pc[v] \in Locked /\ ~Complete(v) => pc'[v] \in Locked /\ ~Complete(v)'
    BY <2>1, <2>2 DEF Complete, Locked
  <2>4. QED BY <1>3, <2>1, <2>3
<1>9. ASSUME NEW w \in Writers, Finish(w) \/ (Killed(w) /\ pc[w] \in Locked)
      PROVE  file'[i][1] \in broken' \/ Own(file'[i][1])
  <2>1. pc[w] \in Locked /\ file' = file /\ durable' = durable
    BY <1>9 DEF Finish, Killed, Locked, diskVars
  <2>2. file[i][1] \in broken \/ BeingWritten(file[i][1])
    BY <2>1 DEF TornOrOwn
  <2>3. ~Complete(w)
    <3> SUFFICES ASSUME Complete(w) PROVE FALSE
      OBVIOUS
    <3>1. written[w] = Size /\ durable = Len(file)
      BY DEF Synchronised
    <3>2. i = Len(file) /\ file[i] = <<rec[w], Size>>
      BY <1>1, <2>1, <3>1, LastPiece
    <3>3. QED BY <2>1, <3>2
  <2>4. broken' = broken \cup Appending(w)
    BY <1>9, <2>3 DEF Finish, Killed, Over, Complete
  <2>5. rec[w] \in broken'
    BY <2>1, <2>4 DEF Appending, Turns
  <2>6. BeingWritten(file[i][1]) => file[i][1] = rec[w]
    BY <2>1, OneOwner DEF BeingWritten
  <2>7. QED BY <1>2, <2>1, <2>2, <2>5, <2>6
<1>10. CASE PowerLoss
  <2>1. Len(file') = durable' /\ durable' \in durable .. Len(file) /\ \A k \in 1 .. durable' : file'[k] = file[k]
    BY <1>10, PowerLossKeepsABeginning
  <2>2. i \in 1 .. Len(file) /\ i >= durable /\ file'[i] = file[i]
    BY <1>1, <2>1
  <2>3. file[i][1] \in broken \/ BeingWritten(file[i][1])
    BY <2>2 DEF TornOrOwn
  <2>4. ASSUME NEW v \in Writers, pc[v] \in Locked, rec[v] = file[i][1]
        PROVE  file[i][1] \in broken'
    <3>1. rec[v] \in Appending(v) /\ pc[v] # "idle"
      BY <2>4 DEF Appending, Turns, Locked
    <3>2. Appending(v) \subseteq broken'
      BY <1>10, <3>1 DEF PowerLoss
    <3>3. QED BY <2>4, <3>1, <3>2
  <2>5. QED BY <1>2, <2>2, <2>3, <2>4 DEF BeingWritten
<1>11. CASE UNCHANGED vars
  BY <1>3, <1>11 DEF vars, Complete
<1>12. QED
  BY <1>4, <1>5, <1>6, <1>7, <1>8, <1>9, <1>10, <1>11 DEF Next, Step, BeforeTheFlock

(* A piece and the next one within a beginning are within the whole. *)
LEMMA BothPieces ==
  ASSUME NEW n \in Nat, NEW d \in Nat, d <= n, NEW i \in 1 .. d - 1
  PROVE  i \in 1 .. d /\ i + 1 \in 1 .. d /\ i \in 1 .. n - 1
OBVIOUS

(* What the owner adds continues its own line, or begins one behind a line *)
(* that is complete or broken.                                             *)
LEMMA SharedStep ==
  Plain /\ Disk /\ Turns /\ OwnLine /\ TornOrOwn /\ OnlyTornLinesAreShared /\ [Next]_vars =>
    OnlyTornLinesAreShared'
<1> SUFFICES ASSUME Plain, Disk, Turns, OwnLine, TornOrOwn, OnlyTornLinesAreShared, [Next]_vars,
                    NEW i \in 1 .. Len(file') - 1, file'[i][2] # Size,
                    file'[i + 1] # <<file'[i][1], file'[i][2] + 1>>
             PROVE  file'[i][1] \in broken'
  BY DEF OnlyTornLinesAreShared
<1>1. /\ Len(file) \in Nat /\ durable \in 0 .. Len(file)
      /\ Len(file') \in Nat /\ i \in Nat
  <2>1. Len(file') \in Nat
    BY DiskStep, LenProperties DEF Disk
  <2>2. QED BY <2>1, LenProperties DEF Disk
<1>2. broken \subseteq broken'
  BY BrokenGrows
<1>3. ASSUME i \in 1 .. Len(file) - 1, file'[i] = file[i], file'[i + 1] = file[i + 1]
      PROVE  file'[i][1] \in broken'
  BY <1>2, <1>3 DEF OnlyTornLinesAreShared
<1>4. CASE PowerLoss
  <2>1. Len(file') = durable' /\ durable' \in durable .. Len(file) /\ \A k \in 1 .. durable' : file'[k] = file[k]
    BY <1>4, PowerLossKeepsABeginning
  <2>2. i \in 1 .. durable' /\ i + 1 \in 1 .. durable' /\ i \in 1 .. Len(file) - 1
    <3>1. durable' \in Nat /\ durable' <= Len(file)
      BY <1>1, <2>1
    <3>2. i \in 1 .. durable' - 1
      BY <2>1
    <3>3. QED BY <1>1, <3>1, <3>2, BothPieces
  <2>3. QED BY <1>3, <2>1, <2>2
<1>5. ASSUME NEW w \in Writers, Write(w)
      PROVE  file'[i][1] \in broken'
  <2>1. PICK n \in Nat : Appended(w, n)
    BY <1>5, WriteAppends
  <2>2. pc[w] \in Locked /\ written[w] \in Nat
    BY <1>5 DEF Write, Plain, Locked
  <2>3. Len(file') = Len(file) + n /\ n \in Nat
    BY <2>1 DEF Appended
  <2>4. CASE i < Len(file)
    <3>1. i \in 1 .. Len(file) - 1 /\ i \in 1 .. Len(file) /\ i + 1 \in 1 .. Len(file)
      BY <1>1, <2>4
    <3>2. QED BY <1>3, <2>1, <3>1 DEF Appended
  <2>5. CASE i = Len(file)
    <3>1. file'[i] = file[i] /\ i \in 1 .. Len(file) /\ i >= durable
      BY <1>1, <2>1, <2>5 DEF Appended
    <3>2. 1 \in 1 .. n
      BY <1>1, <2>3, <2>5
    <3>3. file'[i + 1] = <<rec[w], written[w] + 1>>
      BY <2>1, <2>5, <3>2 DEF Appended
    <3>4. CASE written[w] > 0
      BY <2>2, <2>5, <3>1, <3>3, <3>4, LastPiece
    <3>5. CASE written[w] = 0
      <4>1. ~BeingWritten(file[i][1])
        BY <2>2, <3>5, OneOwner DEF BeingWritten
      <4>2. QED BY <1>2, <3>1, <4>1 DEF TornOrOwn
    <3>6. QED BY <2>2, <3>4, <3>5
  <2>6. CASE i > Len(file)
    <3> DEFINE k == i - Len(file)
    <3>1. /\ k \in 1 .. n /\ k + 1 \in 1 .. n /\ Len(file) + k = i /\ Len(file) + (k + 1) = i + 1
          /\ k \in Nat
      <4>1. i \in Nat /\ i > Len(file) /\ i \in 1 .. (Len(file) + n) - 1
        BY <1>1, <2>3, <2>6
      <4>2. QED BY ONLY <1>1, <2>3, <4>1
    <3> HIDE DEF k
    <3>2. file'[i] = <<rec[w], written[w] + k>> /\ file'[i + 1] = <<rec[w], written[w] + (k + 1)>>
      BY <2>1, <3>1 DEF Appended
    <3>3. written[w] + (k + 1) = (written[w] + k) + 1
      <4>1. written[w] \in Nat /\ k \in Nat
        BY <2>2, <3>1
      <4>2. QED BY ONLY <4>1
    <3>4. QED BY <3>2, <3>3
  <2>7. QED BY <1>1, <2>4, <2>5, <2>6
<1>6. CASE file' = file
  BY <1>3, <1>6
<1>7. QED BY <1>4, <1>5, <1>6, FileChanges

-----------------------------------------------------------------------------
(* A line within a beginning is within a longer one. *)
LEMMA LineWithin ==
  ASSUME NEW n \in Nat, NEW d \in Nat, d <= n, NEW size \in Nat \ {0},
         NEW i \in 0 .. d - size
  PROVE  i \in 0 .. n - size /\ \A k \in 1 .. size : i + k \in 1 .. d
OBVIOUS

(* What is stored stays stored while the durable beginning only grows, and *)
(* is the same while that beginning is.                                    *)
LEMMA StoredGrows ==
  ASSUME Disk, durable' \in Nat, durable <= durable',
         \A i \in 1 .. durable : file'[i] = file[i]
  PROVE  Stored \subseteq Stored' /\ (durable' = durable => Stored' = Stored)
<1> USE AuditFileAssumption DEF AuditFileAssumption
<1>1. durable \in Nat /\ Size \in Nat \ {0}
  BY LenProperties DEF Disk
<1>2. ASSUME NEW i \in 0 .. durable - Size, NEW k \in 1 .. Size
      PROVE  i + k \in 1 .. durable /\ i \in 0 .. durable' - Size
  BY <1>1, LineWithin
<1>3. \A i \in 0 .. durable - Size : \A k \in 1 .. Size : file'[i + k] = file[i + k]
  BY <1>2
<1>4. ASSUME NEW r \in Stored PROVE r \in Stored'
  <2>1. PICK i \in 0 .. durable - Size : \A k \in 1 .. Size : file[i + k] = <<r, k>>
    BY DEF Stored
  <2>2. \A k \in 1 .. Size : file'[i + k] = <<r, k>>
    BY <1>3, <2>1
  <2>3. i \in 0 .. durable' - Size
    BY <1>1, LineWithin
  <2>4. QED BY <2>2, <2>3 DEF Stored
<1>5. ASSUME durable' = durable, NEW r \in Stored' PROVE r \in Stored
  <2>1. PICK i \in 0 .. durable - Size : \A k \in 1 .. Size : file'[i + k] = <<r, k>>
    BY <1>5 DEF Stored
  <2>2. \A k \in 1 .. Size : file[i + k] = <<r, k>>
    BY <1>3, <2>1
  <2>3. r \in Records
    BY <1>5 DEF Stored
  <2>4. QED BY <2>2, <2>3 DEF Stored
<1>6. QED BY <1>4, <1>5

(* Only what an append was asked for is there. *)
LEMMA StoredIsAsked == Disk => Stored \subseteq 1 .. begun
<1> SUFFICES ASSUME Disk, NEW r \in Stored PROVE r \in 1 .. begun
  OBVIOUS
<1>1. PICK i \in 0 .. durable - Size : \A k \in 1 .. Size : file[i + k] = <<r, k>>
  BY DEF Stored
<1>2. i + 1 \in 1 .. Len(file) /\ 1 \in 1 .. Size
  BY <1>1, AuditFileAssumption, LenProperties DEF AuditFileAssumption, Disk
<1>3. file[i + 1] \in (1 .. begun) \X (1 .. Size) /\ file[i + 1] = <<r, 1>>
  BY <1>1, <1>2, ElementOfSeq DEF Disk
<1>4. QED BY <1>3

(* The record of an append that synced and did not fail is stored. *)
LEMMA CompleteIsStored ==
  ASSUME Plain, Disk, Turns, OwnLine, Synchronised, NEW w \in Writers, Complete(w)
  PROVE  rec[w] \in Stored
<1> USE AuditFileAssumption DEF AuditFileAssumption
<1>1. pc[w] \in Locked /\ written[w] = Size /\ durable = Len(file) /\ Len(file) \in Nat
  BY LenProperties DEF Complete, Locked, Synchronised, Disk
<1>2. Size <= Len(file) /\ \A k \in 1 .. Size : file[Len(file) - Size + k] = <<rec[w], k>>
  BY <1>1 DEF OwnLine
<1>3. durable - Size \in 0 .. durable - Size
  BY <1>1, <1>2
<1>4. rec[w] \in Records
  BY <1>1 DEF Plain, Turns, Records
<1>5. QED BY <1>1, <1>2, <1>3, <1>4 DEF Stored

(* How a step changes what is durable. *)
LEMMA DurableChanges ==
  ASSUME Plain, Disk, Turns, [Next]_vars
  PROVE  /\ durable' \in Nat /\ durable <= durable' /\ \A i \in 1 .. durable : file'[i] = file[i]
         /\ durable' # durable => UNCHANGED <<begun, done>>
<1>1. Len(file) \in Nat /\ durable \in Nat /\ durable <= Len(file)
  BY LenProperties DEF Disk
<1>2. CASE PowerLoss
  <2>1. durable' \in durable .. Len(file) /\ \A i \in 1 .. durable' : file'[i] = file[i]
    BY <1>2, PowerLossKeepsABeginning
  <2>2. durable' \in Nat /\ durable <= durable' /\ 1 .. durable \subseteq 1 .. durable'
    BY <1>1, <2>1
  <2>3. QED BY <1>2, <2>1, <2>2 DEF PowerLoss
<1>3. ASSUME NEW w \in Writers, Write(w)
      PROVE  /\ durable' \in Nat /\ durable <= durable' /\ \A i \in 1 .. durable : file'[i] = file[i]
             /\ durable' # durable => UNCHANGED <<begun, done>>
  <2>1. durable' = durable /\ 1 .. durable \subseteq 1 .. Len(file)
    BY <1>1, <1>3 DEF Write
  <2>2. \A i \in 1 .. Len(file) : file'[i] = file[i]
    BY <1>3, WriteAppends DEF Appended
  <2>3. QED BY <1>1, <2>1, <2>2
<1>4. ASSUME NEW w \in Writers, Sync(w)
      PROVE  /\ durable' \in Nat /\ durable <= durable' /\ \A i \in 1 .. durable : file'[i] = file[i]
             /\ durable' # durable => UNCHANGED <<begun, done>>
  <2>1. durable' = Len(file) /\ file' = file
    BY <1>4 DEF Sync, Synced
  <2>2. begun' = begun /\ done' = done
    BY <1>4 DEF Sync, Over, Appending, historyVars
  <2>3. QED BY <1>1, <2>1, <2>2
<1>5. CASE file' = file /\ durable' = durable
  BY <1>1, <1>5
<1>6. PowerLoss \/ (\E w \in Writers : Write(w) \/ Sync(w)) \/ (file' = file /\ durable' = durable)
  BY DEF Next, Step, BeginAppend, BeginPrepare, Look, Create, Open, OpenFails, Flock, WriteFails,
     Finish, Killed, vars, diskVars
<1>7. QED BY <1>2, <1>3, <1>4, <1>5, <1>6

(* An append is reported only by the step that ends it without a failure.  *)
LEMMA ReportedByFinish ==
  ASSUME [Next]_vars, done' # done
  PROVE  \E w \in Writers : /\ Complete(w) /\ done' = done \cup Appending(w)
                          /\ UNCHANGED <<begun, file, durable>>
<1>1. PICK w \in Writers : Finish(w) \/ OpenFails(w) \/ Killed(w) \/ Sync(w)
  BY DEF Next, Step, BeginAppend, BeginPrepare, Look, Create, Open, Flock, Write, WriteFails,
     PowerLoss, vars, historyVars
<1>2. CASE Finish(w)
  BY <1>2 DEF Finish, Over, Complete, diskVars
<1>3. CASE OpenFails(w) \/ Killed(w) \/ Sync(w)
  BY <1>3 DEF OpenFails, Killed, Sync, Over, Appending, historyVars
<1>4. QED BY <1>1, <1>2, <1>3

(* FileInv is an invariant of the audit file. *)
LEMMA FileInvariant == Spec => []FileInv
<1>1. Init => FileInv
  <2> SUFFICES ASSUME Init PROVE FileInv
    OBVIOUS
  <2> USE AuditFileAssumption DEF AuditFileAssumption, Init
  <2>1. Plain /\ Outcomes
    BY DEF Plain, Outcomes
  <2>2. Disk
    BY EmptySeq DEF Disk
  <2>3. Turns /\ OwnLine /\ Synchronised
    BY DEF Turns, OwnLine, Synchronised, Complete, Locked
  <2>4. Len(file) = 0 /\ done = {}
    OBVIOUS
  <2>5. TornOrOwn /\ OnlyTornLinesAreShared /\ DoneIsStored
    BY <2>4 DEF TornOrOwn, OnlyTornLinesAreShared, DoneIsStored
  <2>6. QED BY <2>1, <2>2, <2>3, <2>5 DEF FileInv
<1>2. FileInv /\ [Next]_vars => FileInv'
  <2> SUFFICES ASSUME FileInv, [Next]_vars PROVE FileInv'
    OBVIOUS
  <2>1. Plain' /\ Outcomes' /\ Disk' /\ Turns' /\ OwnLine' /\ Synchronised' /\ TornOrOwn'
        /\ OnlyTornLinesAreShared'
    BY PlainStep, OutcomesStep, DiskStep, TurnsStep, OwnLineStep, TornStep, SharedStep DEF FileInv
  <2>2. Stored \subseteq Stored'
    BY DurableChanges, StoredGrows DEF FileInv
  <2>3. done' \subseteq Stored
    BY ReportedByFinish, CompleteIsStored DEF FileInv, DoneIsStored, Appending
  <2>4. QED BY <2>1, <2>2, <2>3 DEF FileInv, DoneIsStored
<1>3. QED BY <1>1, <1>2, PTL DEF Spec

(* The processes, the file and what is known of the records never leave    *)
(* their types.                                                            *)
THEOREM AuditFileTypeCorrect == Spec => []TypeOK
<1> DEFINE Flag == exists \in BOOLEAN
<1> USE AuditFileAssumption DEF AuditFileAssumption
<1>1. Init => Flag
  BY DEF Init
<1>2. Flag /\ [Next]_vars => Flag'
  <2> SUFFICES ASSUME Flag, [Next]_vars PROVE Flag'
    OBVIOUS
  <2>1. exists' \in {exists, TRUE, exists /\ durable > 0}
    BY DEF Next, Step, BeginAppend, BeginPrepare, Look, Create, Open, OpenFails, Flock, Write, Sync,
       WriteFails, Finish, Killed, PowerLoss, vars, diskVars
  <2>2. QED BY <2>1
<1>3. FileInv /\ Flag => TypeOK
  <2> SUFFICES ASSUME FileInv, Flag PROVE TypeOK
    OBVIOUS
  <2>1. Len(file) \in Nat /\ file \in [1 .. Len(file) -> (1 .. begun) \X (1 .. Size)]
    BY LenProperties DEF FileInv, Disk
  <2>2. (1 .. begun) \X (1 .. Size) \subseteq Piece
    BY DEF FileInv, Plain, Piece, Records
  <2>3. file \in [1 .. Len(file) -> Piece]
    BY <2>1, <2>2
  <2>4. file \in Seq(Piece)
    BY <2>1, <2>3, SeqDef
  <2>5. QED BY <2>4 DEF FileInv, Plain, Outcomes, Disk, TypeOK
<1>4. QED BY <1>1, <1>2, <1>3, FileInvariant, PTL DEF Spec

(* Whatever processes run beside it, a line is whole unless its append     *)
(* failed or died.                                                         *)
THEOREM LinesAreWhole == Spec => []OnlyTornLinesAreShared
<1>1. FileInv => OnlyTornLinesAreShared
  BY DEF FileInv
<1>2. QED BY <1>1, FileInvariant, PTL

(* The log is one that keeps every record it reported: every step of the   *)
(* processes is a request, a storing, a report or nothing to its reader.   *)
THEOREM AuditFileImplementsAuditLog == Spec => ImplementsAuditLog
<1>1. Init => Log!Init
  <2> SUFFICES ASSUME Init PROVE Log!Init
    OBVIOUS
  <2>1. 1 .. begun = {} /\ done = {} /\ begun = 0
    BY DEF Init
  <2>2. Disk
    BY EmptySeq DEF Init, Disk
  <2>3. QED BY <2>1, <2>2, StoredIsAsked DEF Log!Init
<1> DEFINE Asked == Stored \subseteq 1 .. begun
<1>2. FileInv => Asked
  BY StoredIsAsked DEF FileInv
<1>3. FileInv /\ Asked' /\ [Next]_vars => [Log!Next]_Log!vars
  <2> SUFFICES ASSUME FileInv, Asked', [Next]_vars PROVE [Log!Next]_Log!vars
    OBVIOUS
  <2>1. Stored \subseteq Stored' /\ (durable' = durable => Stored' = Stored)
    BY DurableChanges, StoredGrows DEF FileInv
  <2>2. CASE durable' # durable
    <3>1. begun' = begun /\ done' = done
      BY <2>2, DurableChanges DEF FileInv
    <3>2. Stored' \subseteq 1 .. begun
      BY <3>1
    <3>3. QED BY <2>1, <3>1, <3>2 DEF Log!Next, Log!Store
  <2>3. CASE durable' = durable /\ done' # done
    <3>1. PICK w \in Writers : Complete(w) /\ done' = done \cup Appending(w) /\ begun' = begun
      BY <2>3, ReportedByFinish
    <3>2. rec[w] \in Stored /\ done' = done \cup {rec[w]}
      BY <2>3, <3>1, CompleteIsStored DEF FileInv, Appending
    <3>3. QED BY <2>1, <2>3, <3>1, <3>2 DEF Log!Next, Log!Report
  <2>4. CASE durable' = durable /\ done' = done /\ begun' # begun
    <3>1. PICK w \in Writers : BeginAppend(w)
      BY <2>4 DEF Next, Step, BeginPrepare, Look, Create, Open, OpenFails, Flock, Write, Sync,
         WriteFails, Finish, Killed, Over, PowerLoss, vars, historyVars
    <3>2. begun \in Nat /\ begun < NumRecords /\ begun' = begun + 1
      BY <3>1 DEF BeginAppend, FileInv, Plain
    <3>3. /\ begun + 1 \in Records \ (1 .. begun)
          /\ 1 .. begun' = (1 .. begun) \cup {begun + 1}
      BY <3>2, AuditFileAssumption DEF AuditFileAssumption, Records
    <3>4. QED BY <2>1, <2>4, <3>3 DEF Log!Next, Log!Ask
  <2>5. CASE durable' = durable /\ done' = done /\ begun' = begun
    BY <2>1, <2>5 DEF Log!vars
  <2>6. QED BY <2>2, <2>3, <2>4, <2>5
<1>4. QED BY <1>1, <1>2, <1>3, FileInvariant, PTL DEF Spec, ImplementsAuditLog, Log!Spec

(* An append that returned is on disk as a whole, whatever failed, died or *)
(* lost its power since.                                                   *)
THEOREM ReportedIsStored == Spec => []DoneIsStored
<1>1. FileInv => DoneIsStored
  BY DEF FileInv
<1>2. QED BY <1>1, FileInvariant, PTL
=============================================================================
