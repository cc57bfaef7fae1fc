----------------------------- MODULE AuditFile ------------------------------
(***************************************************************************)
(* LiveAuditLog: several processes append records to one private file.  A  *)
(* record is encoded as Size pieces, the last of which holds the newline;  *)
(* os.write writes one or more of them.  The file is a sequence of pieces, *)
(* of which the first `durable` survive a power loss.                      *)
(*                                                                         *)
(* That fsync of a new file also makes its directory entry durable is an   *)
(* assumption about the file system.                                       *)
(*                                                                         *)
(* Bound: NumRecords, the appends begun.                                   *)
(***************************************************************************)
EXTENDS Naturals, Sequences, SequencesExt

CONSTANTS Writers, Nobody, NumRecords, Size

Records == 1 .. NumRecords

ASSUME AuditFileAssumption ==
  /\ Nobody \notin Writers
  /\ NumRecords \in Nat /\ Size \in Nat \ {0}

VARIABLES
  pc,       \* pc[w]: where process w is in append() or prepare()
  rec,      \* rec[w]: the record it appends, 0 in prepare()
  written,  \* written[w]: the pieces of it written so far
  ok,       \* ok[w]: no step failed so far
  owner,    \* the process with the flock
  exists,   \* the file exists
  file, durable,
  begun,    \* records given to append() so far
  done,     \* records append() returned for
  broken    \* records whose append failed or died

vars == <<pc, rec, written, ok, owner, exists, file, durable, begun, done, broken>>

Piece == Records \X (1 .. Size)
Locked == {"write", "sync", "unlock"}

TypeOK ==
  /\ pc \in [Writers -> {"idle", "look", "create", "open", "opened"} \cup Locked]
  /\ rec \in [Writers -> 0 .. begun]
  /\ written \in [Writers -> 0 .. Size]
  /\ ok \in [Writers -> BOOLEAN]
  /\ owner \in Writers \cup {Nobody}
  /\ exists \in BOOLEAN
  /\ file \in Seq(Piece)
  /\ durable \in 0 .. Len(file)
  /\ begun \in 0 .. NumRecords
  /\ done \subseteq 1 .. begun /\ broken \subseteq 1 .. begun

Init ==
  /\ pc = [w \in Writers |-> "idle"]
  /\ rec = [w \in Writers |-> 0]
  /\ written = [w \in Writers |-> 0]
  /\ ok = [w \in Writers |-> TRUE]
  /\ owner = Nobody
  /\ exists \in BOOLEAN
  /\ file = << >> /\ durable = 0
  /\ begun = 0 /\ done = {} /\ broken = {}

diskVars == <<exists, file, durable>>
historyVars == <<begun, done, broken>>

Goes(w, l) == pc' = [pc EXCEPT ![w] = l]

-----------------------------------------------------------------------------
(* append() has a valid record, or prepare() is called (rec 0). *)
BeginAppend(w) ==
  /\ pc[w] = "idle" /\ begun < NumRecords
  /\ begun' = begun + 1
  /\ rec' = [rec EXCEPT ![w] = begun']
  /\ written' = [written EXCEPT ![w] = 0]
  /\ ok' = [ok EXCEPT ![w] = TRUE]
  /\ Goes(w, "look")
  /\ UNCHANGED <<owner, diskVars, done, broken>>

BeginPrepare(w) ==
  /\ pc[w] = "idle"
  /\ rec' = [rec EXCEPT ![w] = 0]
  /\ ok' = [ok EXCEPT ![w] = TRUE]
  /\ Goes(w, "look")
  /\ UNCHANGED <<written, owner, diskVars, historyVars>>

(* The directory and a file that is there are safe: open or create it. *)
Look(w) ==
  /\ pc[w] = "look"
  /\ Goes(w, IF exists THEN "open" ELSE "create")
  /\ UNCHANGED <<rec, written, ok, owner, diskVars, historyVars>>

(* O_CREAT | O_EXCL: one process creates it, another one that lost the     *)
(* race opens what the winner created.                                     *)
Create(w) ==
  /\ pc[w] = "create"
  /\ exists' = TRUE
  /\ Goes(w, IF exists THEN "open" ELSE "opened")
  /\ UNCHANGED <<rec, written, ok, owner, file, durable, historyVars>>

Open(w) ==
  /\ pc[w] = "open"
  /\ Goes(w, "opened")
  /\ UNCHANGED <<rec, written, ok, owner, diskVars, historyVars>>

LockLeaked(w) == owner                 \* mutant: the flock stays taken

(* LOCK_UN and the close of the descriptor. *)
Unlocked(w) == IF owner = w THEN Nobody ELSE owner

Appending(w) == {rec[w]} \ {0}

(* append() or prepare() returns or raises. *)
Over(w, success) ==
  /\ Goes(w, "idle")
  /\ owner' = Unlocked(w)
  /\ done' = IF success THEN done \cup Appending(w) ELSE done
  /\ broken' = IF success THEN broken ELSE broken \cup Appending(w)
  /\ UNCHANGED begun

(* A check of the directory, of the path or of the open file fails. *)
OpenFails(w) ==
  /\ pc[w] \in {"look", "create", "open"}
  /\ Over(w, FALSE)
  /\ UNCHANGED <<rec, written, ok, diskVars>>

-----------------------------------------------------------------------------
AlwaysFree == TRUE                     \* mutant: no flock

FlockFree == owner = Nobody

Flock(w) ==
  /\ pc[w] = "opened" /\ rec[w] # 0
  /\ FlockFree
  /\ owner' = w
  /\ Goes(w, "write")
  /\ UNCHANGED <<rec, written, ok, diskVars, historyVars>>

AfterWrite(w) == IF written'[w] = Size THEN "sync" ELSE "write"

(* One os.write at the end of the file; it may write less than asked. *)
Write(w) ==
  /\ pc[w] = "write"
  /\ \E n \in 1 .. Size - written[w] :
       /\ file' = file \o [i \in 1 .. n |-> <<rec[w], written[w] + i>>]
       /\ written' = [written EXCEPT ![w] = @ + n]
  /\ Goes(w, AfterWrite(w))
  /\ UNCHANGED <<rec, ok, owner, exists, durable, historyVars>>

NothingSynced == durable               \* mutant: fsync is left out

Synced == Len(file)

(* fsync of append(), after all is written, and of prepare(). *)
Sync(w) ==
  /\ pc[w] = "sync" \/ (pc[w] = "opened" /\ rec[w] = 0)
  /\ durable' = Synced
  /\ UNCHANGED <<rec, written, ok, exists, file>>
  /\ IF rec[w] = 0 THEN Over(w, TRUE) ELSE Goes(w, "unlock") /\ UNCHANGED <<owner, historyVars>>

(* os.write or fsync fails: the finally unlocks. *)
WriteFails(w) ==
  /\ pc[w] \in {"write", "sync"}
  /\ ok' = [ok EXCEPT ![w] = FALSE]
  /\ Goes(w, "unlock")
  /\ UNCHANGED <<rec, written, owner, diskVars, historyVars>>

(* LOCK_UN and close; only then the append is reported. *)
Finish(w) ==
  /\ pc[w] = "unlock"
  /\ Over(w, ok[w])
  /\ UNCHANGED <<rec, written, ok, diskVars>>

-----------------------------------------------------------------------------
(* The process is killed: the kernel closes its file and keeps what it     *)
(* has written.                                                            *)
Killed(w) ==
  /\ pc[w] # "idle"
  /\ Over(w, FALSE)
  /\ UNCHANGED <<rec, written, ok, diskVars>>

(* What was not synced may be lost, from the end; all processes die. *)
PowerLoss ==
  /\ \E n \in durable .. Len(file) : file' = SubSeq(file, 1, n) /\ durable' = n
  /\ exists' \in {exists, exists /\ durable > 0}
  /\ file' # << >> => exists'
  /\ pc' = [w \in Writers |-> "idle"]
  /\ owner' = Nobody
  /\ broken' = broken \cup UNION {Appending(w) : w \in {v \in Writers : pc[v] # "idle"}}
  /\ UNCHANGED <<rec, written, ok, begun, done>>

-----------------------------------------------------------------------------
Step(w) ==
  \/ Look(w) \/ Create(w) \/ Open(w) \/ OpenFails(w)
  \/ Write(w) \/ Sync(w) \/ WriteFails(w) \/ Finish(w)

Next ==
  \/ \E w \in Writers : BeginAppend(w) \/ BeginPrepare(w) \/ Step(w) \/ Flock(w) \/ Killed(w)
  \/ PowerLoss

Spec == Init /\ [][Next]_vars

(* A running process goes on, and the kernel gives the flock to every      *)
(* process that waits for it in its turn.                                  *)
FairSpec == Spec /\ \A w \in Writers : WF_vars(Step(w)) /\ SF_vars(Flock(w))

-----------------------------------------------------------------------------
(* Two records never share a line unless the append of the first failed or *)
(* died: whatever runs beside it, a line is written as a whole.            *)
OnlyTornLinesAreShared ==
  \A i \in 1 .. Len(file) - 1 :
    file[i][2] # Size /\ file[i + 1] # <<file[i][1], file[i][2] + 1>> => file[i][1] \in broken

(* The records that are complete on disk. *)
Stored ==
  {r \in Records : \E i \in 0 .. durable - Size :
     \A k \in 1 .. Size : file[i + k] = <<r, k>>}

(* A record reported as appended is on disk as a whole and no crash, kill  *)
(* or power loss takes it away: the detailed log implements the one step   *)
(* that LiveOrder takes it for.                                            *)
Log == INSTANCE AuditLog WITH asked <- 1 .. begun, log <- Stored
ImplementsAuditLog == Log!Spec

(* Nobody waits for the file for ever, also after another process failed   *)
(* or died inside its append.                                              *)
EveryAppendEnds == \A w \in Writers : pc[w] # "idle" ~> pc[w] = "idle"
=============================================================================
