----------------------------- MODULE TokenCache -----------------------------
(***************************************************************************)
(* The access token of TossMarketClient: coroutines of one event loop that *)
(* share one cached token behind an asyncio.Lock, and the provider, which  *)
(* has one valid token at a time (issuing one invalidates the former).     *)
(* Tokens are numbered in the order the provider issues them.              *)
(* Readers run _request_json (one retry after a 401); the other callers    *)
(* take a token and use it once: the live POST and the WebSocket.          *)
(*                                                                         *)
(* Bound: MaxLosses, the events after which a good token is gone.          *)
(***************************************************************************)
EXTENDS Naturals, Sequences, SequencesExt

CONSTANTS Callers, Readers, NoCaller, MaxLosses

ASSUME TokenCacheAssumption ==
  /\ Readers \subseteq Callers
  /\ NoCaller \notin Callers
  /\ MaxLosses \in Nat

VARIABLES
  pc,         \* pc[c]: the await coroutine c is in
  attempt,    \* attempt[c]: first or second send of a reader's request
  held,       \* held[c]: the token c sends, 0 before it has one
  cached,     \* _access_token, 0 for None
  fresh,      \* monotonic() is before _token_expires_at - _token_refresh_margin
  holder,     \* who owns _token_lock
  waiters,    \* its queue; asyncio.Lock is first come, first served
  valid,      \* the provider's valid token, 0 for none
  minted,     \* tokens the provider has issued
  answer,     \* answer[c]: the token travelling back to c, 0 for none
  losses,     \* how often the token in use was lost (see Lose)
  disturbed,  \* callers that were under way at such a moment
  refused     \* readers whose last request ended in a 401

clientVars == <<pc, attempt, held, cached, fresh>>
lockVars == <<holder, waiters>>
providerVars == <<valid, minted, answer>>
historyVars == <<losses, disturbed, refused>>
vars == <<clientVars, lockVars, providerVars, historyVars>>

Queued == {"waiting", "dropping"}          \* the lock is wanted, or just taken
States == {"idle", "issuing", "sent"} \cup Queued

TypeOK ==
  /\ pc \in [Callers -> States]
  /\ attempt \in [Callers -> {1, 2}]
  /\ held \in [Callers -> Nat]
  /\ cached \in Nat
  /\ fresh \in BOOLEAN
  /\ holder \in {c \in Callers : pc[c] \in Queued \cup {"issuing"}} \cup {NoCaller}
  /\ waiters \in Seq({c \in Callers : pc[c] \in Queued})
  /\ valid \in Nat
  /\ minted \in Nat
  /\ answer \in [Callers -> Nat]
  /\ losses \in Nat
  /\ disturbed \in SUBSET Callers
  /\ refused \in SUBSET Callers

Init ==
  /\ pc = [c \in Callers |-> "idle"]
  /\ attempt = [c \in Callers |-> 1]
  /\ held = [c \in Callers |-> 0]
  /\ cached = 0 /\ fresh = FALSE
  /\ holder = NoCaller /\ waiters = << >>
  /\ valid = 0 /\ minted = 0
  /\ answer = [c \in Callers |-> 0]
  /\ losses = 0 /\ disturbed = {} /\ refused = {}

-----------------------------------------------------------------------------
Usable == cached # 0 /\ fresh

Acquire(c) ==
  IF holder = NoCaller
  THEN holder' = c /\ UNCHANGED waiters
  ELSE waiters' = Append(waiters, c) /\ UNCHANGED holder

Release ==
  IF waiters = << >>
  THEN holder' = NoCaller /\ UNCHANGED waiters
  ELSE holder' = Head(waiters) /\ waiters' = Tail(waiters)

(* The token in use was lost: its lifetime ran out, somebody else had one  *)
(* issued, or the answer with it never reached the cache.                  *)
Lose ==
  /\ losses < MaxLosses
  /\ losses' = losses + 1
  /\ disturbed' = disturbed \cup {c \in Callers : pc[c] # "idle"}

-----------------------------------------------------------------------------
(* access_token up to its first await: the cached token, or the lock. *)
Start(c) ==
  /\ pc[c] = "idle"
  /\ attempt' = [attempt EXCEPT ![c] = 1]
  /\ disturbed' = disturbed \ {c}
  /\ refused' = refused \ {c}
  /\ \/ /\ Usable
        /\ pc' = [pc EXCEPT ![c] = "sent"]
        /\ held' = [held EXCEPT ![c] = cached]
        /\ UNCHANGED lockVars
     \/ /\ ~Usable
        /\ pc' = [pc EXCEPT ![c] = "waiting"]
        /\ Acquire(c)
        /\ UNCHANGED held
  /\ UNCHANGED <<cached, fresh, providerVars, losses>>

(* Inside the lock the token is looked at again before one is requested. *)
CheckAgain(c) ==
  /\ pc[c] = "waiting" /\ holder = c
  /\ \/ /\ Usable
        /\ pc' = [pc EXCEPT ![c] = "sent"]
        /\ held' = [held EXCEPT ![c] = cached]
        /\ Release
     \/ /\ ~Usable
        /\ pc' = [pc EXCEPT ![c] = "issuing"]
        /\ UNCHANGED <<held, lockVars>>
  /\ UNCHANGED <<attempt, cached, fresh, providerVars, historyVars>>

IssueReturns(c) ==
  /\ pc[c] = "issuing" /\ answer[c] # 0
  /\ cached' = answer[c] /\ fresh' = TRUE
  /\ held' = [held EXCEPT ![c] = answer[c]]
  /\ answer' = [answer EXCEPT ![c] = 0]
  /\ pc' = [pc EXCEPT ![c] = "sent"]
  /\ Release
  /\ UNCHANGED <<attempt, valid, minted, historyVars>>

FailKeepingLock == UNCHANGED lockVars  \* mutant: an error path without release

OnIssueError == Release

(* The request failed or its answer is unusable: the caller gets the error. *)
IssueFails(c) ==
  /\ pc[c] = "issuing"
  /\ pc' = [pc EXCEPT ![c] = "idle"]
  /\ OnIssueError
  /\ answer' = [answer EXCEPT ![c] = 0]
  /\ IF answer[c] = 0 THEN UNCHANGED <<losses, disturbed>> ELSE Lose
  /\ UNCHANGED <<attempt, held, cached, fresh, valid, minted, refused>>

DropAnything(c) == 0           \* mutant: the comparison is dropped
DropNothing(c) == cached       \* mutant: the cache keeps the dead token

(* _invalidate_token_if_stale: only the very token that failed is dropped. *)
AfterDrop(c) == IF cached = held[c] THEN 0 ELSE cached

(* ... and access_token again, up to its first await. *)
DropAndRetry(c) ==
  /\ pc[c] = "dropping" /\ holder = c
  /\ cached' = AfterDrop(c)
  /\ fresh' = (fresh /\ cached' # 0)
  /\ attempt' = [attempt EXCEPT ![c] = 2]
  /\ \/ /\ fresh'
        /\ pc' = [pc EXCEPT ![c] = "sent"]
        /\ held' = [held EXCEPT ![c] = cached']
        /\ Release
     \/ /\ ~fresh'
        /\ pc' = [pc EXCEPT ![c] = "waiting"]
        /\ IF waiters = << >> THEN UNCHANGED lockVars
           ELSE holder' = Head(waiters) /\ waiters' = Append(Tail(waiters), c)
        /\ UNCHANGED held
  /\ UNCHANGED <<providerVars, historyVars>>

(* The request succeeded, or failed for another reason than the token. *)
Answered(c) ==
  /\ pc[c] = "sent"
  /\ pc' = [pc EXCEPT ![c] = "idle"]
  /\ UNCHANGED <<attempt, held, cached, fresh, lockVars, providerVars, historyVars>>

Answered401(c) ==
  /\ pc[c] = "sent"
  /\ held[c] # valid
  /\ \/ /\ c \in Readers /\ attempt[c] = 1
        /\ pc' = [pc EXCEPT ![c] = "dropping"]
        /\ Acquire(c)
        /\ UNCHANGED refused
     \/ /\ c \notin Readers \/ attempt[c] = 2
        /\ pc' = [pc EXCEPT ![c] = "idle"]
        /\ refused' = refused \cup {c}
        /\ UNCHANGED lockVars
  /\ UNCHANGED <<attempt, held, cached, fresh, providerVars, losses, disturbed>>

(* The coroutine is cancelled at its await: a closed view, a quit. *)
Cancelled(c) ==
  /\ pc[c] # "idle"
  /\ pc' = [pc EXCEPT ![c] = "idle"]
  /\ IF holder = c THEN Release
     ELSE \/ \E i \in 1 .. Len(waiters) :
               waiters[i] = c /\ waiters' = RemoveAt(waiters, i) /\ UNCHANGED holder
          \/ pc[c] = "sent" /\ UNCHANGED lockVars
  /\ answer' = [answer EXCEPT ![c] = 0]
  /\ IF answer[c] = 0 THEN UNCHANGED <<losses, disturbed>> ELSE Lose
  /\ UNCHANGED <<attempt, held, cached, fresh, valid, minted, refused>>

-----------------------------------------------------------------------------
(* The provider and the clock (external). *)
Issues(c) ==
  /\ pc[c] = "issuing" /\ answer[c] = 0
  /\ minted' = minted + 1
  /\ valid' = minted + 1
  /\ answer' = [answer EXCEPT ![c] = minted + 1]
  /\ UNCHANGED <<clientVars, lockVars, historyVars>>

Revoked ==
  /\ valid # 0
  /\ valid' = 0
  /\ Lose
  /\ UNCHANGED <<clientVars, lockVars, minted, answer, refused>>

MarginReached ==
  /\ Usable
  /\ fresh' = FALSE
  /\ Lose
  /\ UNCHANGED <<pc, attempt, held, cached, lockVars, providerVars, refused>>

-----------------------------------------------------------------------------
Client(c) ==
  \/ CheckAgain(c) \/ IssueReturns(c) \/ IssueFails(c) \/ DropAndRetry(c)
  \/ Answered(c) \/ Answered401(c)

Next ==
  \/ \E c \in Callers : Start(c) \/ Client(c) \/ Cancelled(c) \/ Issues(c)
  \/ Revoked \/ MarginReached

Spec == Init /\ [][Next]_vars

(* Every HTTP request has a timeout, and the event loop runs what is ready.*)
FairSpec == Spec /\ \A c \in Callers : WF_vars(Client(c))

-----------------------------------------------------------------------------
(* A token is issued only because the former one was lost: however many    *)
(* coroutines meet a 401 or an empty cache together, they share one        *)
(* issuance (the docstring of _invalidate_token_if_stale).  An issuance too*)
(* many would invalidate the token that the others are using.              *)
NoNeedlessIssuance == minted <= losses + 1

(* The one retry is enough: a reader's request ends in a 401 only when a   *)
(* token was lost while the request was under way.                         *)
RetryRecovers == refused \cap Readers \subseteq disturbed

(* No coroutine waits for the token or an answer for ever.                 *)
EveryRequestEnds == \A c \in Callers : pc[c] # "idle" ~> pc[c] = "idle"
=============================================================================
