---------------------------- MODULE SessionLock ----------------------------
(***************************************************************************)
(* The cross-process session lock: every CLI command that uses the OAuth   *)
(* client (API_SESSION_LOCKED_COMMANDS) takes it for its whole life.  The  *)
(* lock is a flock on the inode the lock path names; inode 0 is no file.   *)
(* The provider has one valid token, the one issued last.                  *)
(*                                                                         *)
(* Bound: MaxInodes, the files ever created at the path; MaxTokens.        *)
(***************************************************************************)
EXTENDS Naturals

CONSTANTS Processes, Nobody, MaxInodes, MaxTokens

ASSUME SessionLockAssumption ==
  /\ Nobody \notin Processes
  /\ MaxInodes \in Nat \ {0}
  /\ MaxTokens \in Nat

VARIABLES
  pc,       \* pc[c]: where command process c is
  path,     \* the inode the lock path names
  inodes,   \* inodes created so far
  fd,       \* fd[c]: the inode c has open, 0 for none
  owner,    \* owner[i]: the process with the flock on inode i
  token,    \* token[c]: the last token c had issued
  valid,    \* the provider's valid token
  minted    \* tokens issued so far

lockVars == <<pc, path, inodes, fd, owner, token, valid, minted>>

InSession == {"marking", "session"}

LockTypeOK ==
  /\ pc \in [Processes -> {"idle", "create", "open", "flock", "refused"} \cup InSession]
  /\ inodes \in 0 .. MaxInodes
  /\ path \in 0 .. inodes
  /\ fd \in [Processes -> 0 .. inodes]
  /\ owner \in [1 .. MaxInodes -> {c \in Processes : pc[c] \in InSession} \cup {Nobody}]
  /\ token \in [Processes -> Nat]
  /\ valid \in Nat
  /\ minted \in Nat

LockInit ==
  /\ pc = [c \in Processes |-> "idle"]
  /\ inodes \in {0, 1} /\ path = inodes
  /\ fd = [c \in Processes |-> 0]
  /\ owner = [i \in 1 .. MaxInodes |-> Nobody]
  /\ token = [c \in Processes |-> 0]
  /\ valid = 0 /\ minted = 0

tokenVars == <<token, valid, minted>>

-----------------------------------------------------------------------------
(* acquire(): does the file exist? *)
Look(c) ==
  /\ pc[c] \in {"idle", "refused"}
  /\ pc' = [pc EXCEPT ![c] = IF path = 0 THEN "create" ELSE "open"]
  /\ UNCHANGED <<path, inodes, fd, owner, tokenVars>>

(* open(O_CREAT | O_EXCL) when it did not: one process creates it. *)
Create(c) ==
  /\ pc[c] = "create" /\ path = 0
  /\ inodes < MaxInodes
  /\ inodes' = inodes + 1
  /\ path' = inodes'
  /\ fd' = [fd EXCEPT ![c] = inodes']
  /\ pc' = [pc EXCEPT ![c] = "flock"]
  /\ UNCHANGED <<owner, tokenVars>>

(* FileExistsError: a cooperating process won the create race. *)
LostCreateRace(c) ==
  /\ pc[c] = "create" /\ path # 0
  /\ pc' = [pc EXCEPT ![c] = "open"]
  /\ UNCHANGED <<path, inodes, fd, owner, tokenVars>>

Open(c) ==
  /\ pc[c] = "open" /\ path # 0
  /\ fd' = [fd EXCEPT ![c] = path]
  /\ pc' = [pc EXCEPT ![c] = "flock"]
  /\ UNCHANGED <<path, inodes, owner, tokenVars>>

(* An unsafe or unavailable file or directory, or a kill, ends the command *)
(* before it had the lock.                                                 *)
AcquireFails(c) ==
  /\ pc[c] \in {"create", "open", "flock"}
  /\ fd' = [fd EXCEPT ![c] = 0]
  /\ pc' = [pc EXCEPT ![c] = "idle"]
  /\ UNCHANGED <<path, inodes, owner, tokenVars>>

(* flock(LOCK_EX | LOCK_NB) on the open file. *)
Flock(c) ==
  /\ pc[c] = "flock"
  /\ owner[fd[c]] = Nobody
  /\ owner' = [owner EXCEPT ![fd[c]] = c]
  /\ pc' = [pc EXCEPT ![c] = "marking"]
  /\ UNCHANGED <<path, inodes, fd, tokenVars>>

(* Another session runs: the file is closed and the command ends. *)
Contended(c) ==
  /\ pc[c] = "flock"
  /\ owner[fd[c]] # Nobody
  /\ fd' = [fd EXCEPT ![c] = 0]
  /\ pc' = [pc EXCEPT ![c] = "refused"]
  /\ UNCHANGED <<path, inodes, owner, tokenVars>>

Mark(c) ==
  /\ pc[c] = "marking"
  /\ pc' = [pc EXCEPT ![c] = "session"]
  /\ UNCHANGED <<path, inodes, fd, owner, tokenVars>>

-----------------------------------------------------------------------------
FreesNothing(c) == owner       \* mutant: LOCK_UN and close are left out
UnlinkedPath == 0              \* mutant: the file is removed on release

(* What the kernel does when c's descriptor is closed. *)
Unlocked(c) == [owner EXCEPT ![fd[c]] = Nobody]

(* release() leaves the inode in place. *)
PathAfterRelease == path

Leave(c) ==
  /\ owner' = Unlocked(c)
  /\ fd' = [fd EXCEPT ![c] = 0]
  /\ pc' = [pc EXCEPT ![c] = "idle"]
  /\ token' = [token EXCEPT ![c] = 0]
  /\ UNCHANGED <<inodes, valid, minted>>

(* The command is over, or writing the marker failed. *)
Release(c) ==
  /\ pc[c] = "session"
  /\ path' = PathAfterRelease
  /\ Leave(c)

(* The marker could not be written, or the process was killed: the kernel  *)
(* closes the descriptor.                                                  *)
Dies(c) ==
  /\ pc[c] \in InSession
  /\ UNCHANGED path
  /\ Leave(c)

(* A client of this session has a token issued. *)
Mint(c) ==
  /\ pc[c] = "session"
  /\ minted < MaxTokens
  /\ minted' = minted + 1
  /\ valid' = minted'
  /\ token' = [token EXCEPT ![c] = minted']
  /\ UNCHANGED <<pc, path, inodes, fd, owner>>

-----------------------------------------------------------------------------
LockNext ==
  \E c \in Processes :
    \/ Look(c) \/ Create(c) \/ LostCreateRace(c) \/ Open(c) \/ AcquireFails(c)
    \/ Flock(c) \/ Contended(c) \/ Mark(c) \/ Release(c) \/ Dies(c) \/ Mint(c)

LockSpec == LockInit /\ [][LockNext]_lockVars

-----------------------------------------------------------------------------
(* No sibling process has a token issued while a session runs, so the      *)
(* token a session got last stays valid for it (api_session_lock.py: at    *)
(* most one credential/network-using CLI process runs at a time).          *)
SessionTokenIsValid ==
  \A c \in Processes : pc[c] = "session" /\ token[c] # 0 => token[c] = valid

(* A command is turned away only while another one really is in a session, *)
(* whatever crashed before.                                                *)
RefusedOnlyByASession ==
  [][\A c \in Processes :
       pc[c] # "refused" /\ pc'[c] = "refused" =>
         \E d \in Processes \ {c} : pc[d] \in InSession]_lockVars
=============================================================================
