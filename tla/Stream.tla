------------------------------- MODULE Stream -------------------------------
(***************************************************************************)
(* TossMarketStream.events(): one WebSocket connection after the other,    *)
(* with a keepalive task beside the receive loop, a silence watchdog on    *)
(* every recv, and a growing delay between connections.  The generator is  *)
(* suspended at each event it yields until the feed asks for the next one. *)
(*                                                                         *)
(* Time is counted in ticks; steps of the program take no time.  The       *)
(* jitter of the delay is left out.                                        *)
(*                                                                         *)
(* Bounds: MaxAttempt, where attempt stops growing (the delay has reached  *)
(* its cap by then); MaxInbox, the frames received and not yet read.       *)
(***************************************************************************)
EXTENDS Naturals, Sequences, FiniteSetsExt

CONSTANTS
  PingEvery,     \* the sleep of _keepalive (60 s)
  SilenceAfter,  \* DEFAULT_WS_SILENCE_TIMEOUT_SECONDS (80 s)
  PongWithin,    \* a server that is alive answers a PING within this time
  DelayCap,      \* 30
  MaxAttempt, MaxInbox,
  None

Frames == {"subscribed", "rejected", "error", "pong", "data", "bad", "protocol_error", "ignored"}
Statuses == {"connecting", "connected", "subscribed", "error", "rejected", "reconnecting", "auth_error"}
Items == {"data", "pong", "protocol_error"}

ASSUME StreamAssumption ==
  /\ None \notin Nat \cup Statuses \cup Items
  /\ {PingEvery, SilenceAfter, PongWithin, DelayCap, MaxAttempt, MaxInbox} \subseteq Nat \ {0}
  /\ PingEvery + PongWithin < SilenceAfter
  /\ MaxAttempt >= 6

VARIABLES
  pc,        \* "token", "dial", "recv", "sleep": the await; "yield"; "ended"
  event,     \* the event the generator is suspended at
  attempt,
  conn,      \* the connection; "dead" is open, but nothing arrives any more
  inbox,     \* frames received and not yet read
  timer,     \* ticks since the recv or the sleep began
  ping,      \* ticks since _keepalive went to sleep, None without the task
  owed,      \* ticks since a PING the server has not answered, or None
  phase,     \* history: the last event about the state of the connection
  unacked    \* history: connections failed since the last acknowledgement

vars == <<pc, event, attempt, conn, inbox, timer, ping, owed, phase, unacked>>

TypeOK ==
  /\ pc \in {"token", "dial", "recv", "sleep", "yield", "ended"}
  /\ event \in Statuses \cup Items \cup {None}
  /\ (pc = "yield") = (event # None)
  /\ {attempt, unacked} \subseteq 0 .. MaxAttempt
  /\ conn \in {"none", "open", "dead", "closed"}
  /\ inbox \in Seq(Frames) /\ Len(inbox) <= MaxInbox
  /\ timer \in Nat
  /\ ping \in 0 .. PingEvery \cup {None}
  /\ owed \in Nat \cup {None}
  /\ phase \in Statuses \cup {"over"}

Init ==
  /\ pc = "token" /\ event = None /\ attempt = 0
  /\ conn = "none" /\ inbox = << >> /\ timer = 0
  /\ ping = None /\ owed = None
  /\ phase = "reconnecting" /\ unacked = 0

(* _retry_delay without its jitter. *)
RetryDelay(a) == Min({DelayCap, 2 ^ Min({a - 1, 5})})

ShortSilence == PingEvery                \* mutant: shorter than the keepalive

SilenceLimit == SilenceAfter

Bump(n) == Min({n + 1, MaxAttempt})

-----------------------------------------------------------------------------
Yield(e) ==
  /\ pc' = "yield" /\ event' = e
  /\ phase' = IF e \in Statuses THEN e ELSE phase

SocketLeftOpen ==                        \* mutant: the keepalive is not cancelled
  /\ conn' = "none" /\ inbox' = << >> /\ UNCHANGED <<ping, owed>>

(* The finally of the receive loop and the end of "async with connect". *)
TearDown ==
  /\ conn' = "none" /\ inbox' = << >> /\ ping' = None /\ owed' = None

(* Every failure but a refused authorisation. *)
Fail ==
  /\ TearDown
  /\ attempt' = Bump(attempt) /\ unacked' = Bump(unacked)
  /\ timer' = 0
  /\ Yield("reconnecting")

AuthFails ==
  /\ TearDown
  /\ Yield("auth_error")
  /\ UNCHANGED <<attempt, timer, unacked>>

TokenReady ==
  /\ pc = "token"
  /\ Yield("connecting")
  /\ UNCHANGED <<attempt, conn, inbox, timer, ping, owed, unacked>>

TokenFails == pc = "token" /\ (Fail \/ AuthFails)

(* The handshake is over and the declaration of the topics is sent. *)
HandshakeDone ==
  /\ pc = "dial"
  /\ conn' = "open"
  /\ Yield("connected")
  /\ UNCHANGED <<attempt, inbox, timer, ping, owed, unacked>>

DialFails == pc = "dial" /\ (Fail \/ AuthFails)

-----------------------------------------------------------------------------
(* recv returns the next frame; a binary or unknown one is passed over and *)
(* one whose price or time cannot be read ends the connection.             *)
Receive ==
  /\ pc = "recv" /\ inbox # << >>
  /\ CASE Head(inbox) = "bad" -> Fail
       [] Head(inbox) = "ignored" ->
            /\ inbox' = Tail(inbox) /\ timer' = 0
            /\ UNCHANGED <<pc, event, attempt, conn, ping, owed, phase, unacked>>
       [] OTHER ->
            /\ inbox' = Tail(inbox) /\ timer' = 0
            /\ Yield(Head(inbox))
            /\ unacked' = IF Head(inbox) = "subscribed" THEN 0 ELSE unacked
            /\ UNCHANGED <<attempt, conn, ping, owed>>

(* What was received before the close is read first. *)
ClosedSeen == pc = "recv" /\ inbox = << >> /\ conn = "closed" /\ Fail

SilenceIgnored ==                        \* mutant: recv is called again
  /\ pc = "recv" /\ inbox = << >> /\ timer >= SilenceLimit
  /\ timer' = 0
  /\ UNCHANGED <<pc, event, attempt, conn, inbox, ping, owed, phase, unacked>>

SilenceTimeout == pc = "recv" /\ inbox = << >> /\ timer >= SilenceLimit /\ Fail

ResetOnHandshake(e) == IF e \in {"connected", "subscribed"} THEN 0 ELSE attempt  \* mutant

AttemptAfter(e) == IF e = "subscribed" THEN 0 ELSE attempt

ResumeAnyway(e) ==                       \* mutant: an error frame is only told
  e \in Items \cup {"connected", "subscribed", "error"}

KeepsReceiving(e) == e \in Items \cup {"connected", "subscribed"}

(* The feed asks for the next event. *)
Resume ==
  /\ pc = "yield"
  /\ \/ /\ KeepsReceiving(event)
        /\ pc' = "recv" /\ event' = None /\ timer' = 0
        /\ attempt' = AttemptAfter(event)
        /\ ping' = IF event = "connected" THEN 0 ELSE ping
        /\ UNCHANGED <<conn, inbox, owed, phase, unacked>>
     \/ /\ ~KeepsReceiving(event) /\ event = "error"
        /\ Fail
     \/ /\ event \in {"connecting", "reconnecting"}
        /\ pc' = IF event = "connecting" THEN "dial" ELSE "sleep"
        /\ event' = None /\ timer' = 0
        /\ UNCHANGED <<attempt, conn, inbox, ping, owed, phase, unacked>>
     \/ /\ event \in {"auth_error", "rejected"}
        /\ pc' = "ended" /\ event' = None /\ phase' = "over"
        /\ TearDown
        /\ UNCHANGED <<attempt, timer, unacked>>

WakesUp ==
  /\ pc = "sleep" /\ timer >= RetryDelay(attempt)
  /\ pc' = "token" /\ timer' = 0
  /\ UNCHANGED <<event, attempt, conn, inbox, ping, owed, phase, unacked>>

(* The feed task is cancelled, at an await of the generator or while it    *)
(* handles an event; then the generator is closed at its yield.            *)
Cancelled ==
  /\ pc # "ended"
  /\ pc' = "ended" /\ event' = None /\ phase' = "over"
  /\ TearDown
  /\ UNCHANGED <<attempt, timer, unacked>>

(* _keepalive: on a closed connection the send fails and the task is over. *)
SendPing ==
  /\ ping = PingEvery
  /\ ping' = IF conn = "closed" THEN None ELSE 0
  /\ owed' = IF conn = "open" /\ owed = None THEN 0 ELSE owed
  /\ UNCHANGED <<pc, event, attempt, conn, inbox, timer, phase, unacked>>

-----------------------------------------------------------------------------
(* The server and the network (external). *)
Send(f) ==
  /\ conn = "open" /\ Len(inbox) < MaxInbox
  /\ inbox' = Append(inbox, f)
  /\ owed' = IF f = "pong" THEN None ELSE owed
  /\ UNCHANGED <<pc, event, attempt, conn, timer, ping, phase, unacked>>

ConnectionChanges ==
  /\ conn \in {"open", "dead"}
  /\ conn' \in {"dead", "closed"} \ {conn}
  /\ owed' = None
  /\ UNCHANGED <<pc, event, attempt, inbox, timer, ping, phase, unacked>>

Network == (\E f \in Frames : (f = "pong" => owed # None) /\ Send(f)) \/ ConnectionChanges

(* Time passes while everybody waits: a program that can go on does, and a *)
(* server that is alive answers in time.                                   *)
Waiting ==
  /\ pc = "recv" => inbox = << >> /\ conn # "closed" /\ timer < SilenceLimit
  /\ pc = "sleep" => timer < RetryDelay(attempt)
  /\ ping # PingEvery
  /\ owed = PongWithin => Len(inbox) = MaxInbox

Later(n, most) == IF n = None THEN None ELSE Min({n + 1, most})

Tick ==
  /\ Waiting /\ pc # "ended"
  /\ timer' = IF pc \in {"recv", "sleep"} THEN timer + 1 ELSE timer
  /\ ping' = Later(ping, PingEvery)
  /\ owed' = Later(owed, PongWithin)
  /\ UNCHANGED <<pc, event, attempt, conn, inbox, phase, unacked>>

-----------------------------------------------------------------------------
Generator ==
  \/ TokenReady \/ TokenFails \/ HandshakeDone \/ DialFails
  \/ Receive \/ ClosedSeen \/ SilenceTimeout \/ WakesUp

Next == Generator \/ Resume \/ SendPing \/ Cancelled \/ Network \/ Tick

Spec == Init /\ [][Next]_vars

(* The event loop runs what can run and time passes; token request and     *)
(* handshake have timeouts, and so has all the feed awaits.                *)
FairSpec ==
  Spec /\ WF_vars(Generator) /\ WF_vars(Resume) /\ WF_vars(SendPing) /\ WF_vars(Tick)

-----------------------------------------------------------------------------
(* A quiet symbol is not a broken connection: as long as the server        *)
(* answers the keepalive, the watchdog does not fire, whenever the last    *)
(* frame came and however long the feed took over an event (stream.py      *)
(* 17-22: a normal keepalive round-trip never trips it).                   *)
QuietConnectionSurvives ==
  pc = "recv" /\ inbox = << >> /\ timer >= SilenceLimit => conn # "open"

(* The keepalive task lives on the connection it was started for, one at a *)
(* time: none is left when the connection or the generator is given up.    *)
KeepaliveHasItsConnection ==
  ping # None => conn # "none" /\ pc \in {"recv", "yield"}

(* The n-th connection in a row that no acknowledgement followed is made   *)
(* no sooner than min(30, 2^(n-1)) after the failure of the one before:    *)
(* a handshake that succeeds changes nothing (stream.py, comment on the    *)
(* reset of the backoff).                                                  *)
DialsAreSpaced ==
  [][pc = "sleep" /\ pc' = "token" =>
       timer >= Min({DelayCap, 2 ^ Min({IF unacked = 0 THEN 0 ELSE unacked - 1, 5})})]_vars

(* The events come in the order the feed relies on. *)
Protocol == INSTANCE StreamProtocol
ImplementsProtocol == Protocol!Spec

(* A connection that went silent is given up and made anew, unless the     *)
(* stream is over.                                                         *)
DeadConnectionIsReplaced == conn = "dead" ~> pc \in {"token", "ended"}
=============================================================================
