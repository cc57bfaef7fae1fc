---------------------------- MODULE StreamProofs ----------------------------
(***************************************************************************)
(* For any periods of the keepalive and the watchdog with a round-trip to  *)
(* spare, any backoff and any backlog: a quiet connection is kept, its     *)
(* keepalive dies with it, dials are spaced, and the events come in the    *)
(* order the feed relies on.                                               *)
(***************************************************************************)
EXTENDS Stream, SequenceTheorems, TLAPS

(* The variables one by one, and the bounds of their values. *)
Plain ==
  /\ pc \in {"token", "dial", "recv", "sleep", "yield", "ended"}
  /\ event \in Statuses \cup Items \cup {None}
  /\ attempt \in 0 .. MaxAttempt /\ unacked \in 0 .. MaxAttempt
  /\ conn \in {"none", "open", "dead", "closed"}
  /\ inbox \in Seq(Frames) /\ Len(inbox) <= MaxInbox
  /\ timer \in Nat
  /\ ping \in 0 .. PingEvery \cup {None}
  /\ owed \in 0 .. PongWithin \cup {None}

(* The await, the event it was left for and the state of the connection    *)
(* the feed was told of.                                                   *)
Phases ==
  /\ pc = "yield" <=> event # None
  /\ pc \in {"token", "sleep"} => phase = "reconnecting"
  /\ pc = "dial" => phase = "connecting"
  /\ pc = "recv" \/ event \in Items => phase \in {"connected", "subscribed"}
  /\ event \in Statuses => phase = event
  /\ pc = "ended" => phase = "over"

(* A connection is there while something is received from it, and has its  *)
(* keepalive once the feed knows of it, unless it was closed.              *)
Connections ==
  /\ pc = "recv" \/ event \in Items \cup {"connected", "subscribed", "error", "rejected"} <=> conn # "none"
  /\ ping # None => conn # "none" /\ event # "connected"
  /\ conn \in {"open", "dead"} /\ event # "connected" => ping # None

(* The watchdog is never further than the keepalive and one round-trip.    *)
QuietTime ==
  pc = "recv" /\ conn = "open" /\ inbox = << >> =>
    timer <= IF owed = None THEN ping ELSE PingEvery + owed

(* The backoff counts the connections without an acknowledgement; only     *)
(* while that one is being told it is ahead.                               *)
Backoff ==
  /\ IF event = "subscribed" THEN unacked = 0 ELSE pc # "ended" => unacked = attempt
  /\ pc = "sleep" \/ event = "reconnecting" => attempt > 0

(* The inductive invariant of the generator and its keepalive. *)
StreamInv == Plain /\ Phases /\ Connections /\ QuietTime /\ Backoff

-----------------------------------------------------------------------------
(* The lesser of two numbers. *)
LEMMA MinOfTwo ==
  ASSUME NEW a \in Nat, NEW b \in Nat
  PROVE  Min({a, b}) = IF a <= b THEN a ELSE b
<1>1. \E x \in {a, b} : \A y \in {a, b} : x <= y
  OBVIOUS
<1>2. Min({a, b}) \in {a, b} /\ \A y \in {a, b} : Min({a, b}) <= y
  BY <1>1 DEF Min
<1>3. QED
  BY <1>2

(* A failed attempt counts one more, up to the cap. *)
LEMMA BumpCounts ==
  ASSUME NEW n \in 0 .. MaxAttempt
  PROVE  Bump(n) \in 1 .. MaxAttempt /\ Bump(n) \in 0 .. MaxAttempt /\ 0 \in 0 .. MaxAttempt
<1>1. n + 1 \in Nat /\ MaxAttempt \in Nat \ {0}
  BY StreamAssumption DEF StreamAssumption
<1>2. Min({n + 1, MaxAttempt}) = IF n + 1 <= MaxAttempt THEN n + 1 ELSE MaxAttempt
  BY <1>1, MinOfTwo
<1>3. QED BY <1>1, <1>2 DEF Bump

(* A running clock counts one more, up to its period. *)
LEMMA LaterCounts ==
  ASSUME NEW most \in Nat, NEW n \in 0 .. most \cup {None}
  PROVE  /\ Later(n, most) \in 0 .. most \cup {None}
         /\ n = None <=> Later(n, most) = None
         /\ n # None /\ n # most => Later(n, most) = n + 1
<1> USE StreamAssumption DEF StreamAssumption
<1>1. CASE n = None
  BY <1>1 DEF Later
<1>2. CASE n # None
  <2>1. n \in Nat /\ n + 1 \in Nat
    BY <1>2
  <2>2. Min({n + 1, most}) = IF n + 1 <= most THEN n + 1 ELSE most
    BY <2>1, MinOfTwo
  <2>3. QED BY <1>2, <2>1, <2>2 DEF Later
<1>3. QED BY <1>1, <1>2

(* A frame that is read leaves the inbox, one that arrives enters it. *)
LEMMA InboxStep ==
  ASSUME Plain, [Next]_vars
  PROVE  inbox' \in Seq(Frames) /\ Len(inbox') <= MaxInbox
<1> USE StreamAssumption DEF StreamAssumption, Plain
<1>1. CASE inbox' = inbox
  BY <1>1
<1>2. CASE inbox' = << >>
  BY <1>2, EmptySeq
<1>3. CASE inbox # << >> /\ inbox' = Tail(inbox)
  BY <1>3, HeadTailProperties, LenProperties
<1>4. CASE \E f \in Frames : Send(f)
  BY <1>4, AppendProperties, LenProperties DEF Send
<1>5. QED
  BY <1>1, <1>2, <1>3, <1>4
     DEF Next, Generator, TokenReady, TokenFails, HandshakeDone, DialFails, Receive, ClosedSeen,
         SilenceTimeout, WakesUp, Resume, SendPing, Cancelled, Network, ConnectionChanges, Tick,
         Fail, AuthFails, TearDown, vars

(* What every way to give up a connection does. *)
LEMMA GivingUp ==
  ASSUME Plain, Fail \/ (AuthFails /\ phase \in {"reconnecting", "connecting"})
  PROVE  /\ conn' = "none" /\ ping' = None /\ owed' = None /\ pc' = "yield" /\ phase' = event'
         /\ \/ event' = "auth_error" /\ UNCHANGED <<attempt, unacked, timer>>
            \/ /\ event' = "reconnecting" /\ timer' = 0
               /\ attempt' = Bump(attempt) /\ unacked' = Bump(unacked)
BY DEF Fail, AuthFails, TearDown, Yield, Statuses

-----------------------------------------------------------------------------
(* The steps, as the generator takes them. *)
LEMMA PlainStep == StreamInv /\ [Next]_vars => Plain'
<1> SUFFICES ASSUME StreamInv, [Next]_vars PROVE Plain'
  OBVIOUS
<1>1. inbox' \in Seq(Frames) /\ Len(inbox') <= MaxInbox
  BY InboxStep DEF StreamInv
<1> USE StreamAssumption, <1>1 DEF StreamAssumption, StreamInv, Plain
<1>2. attempt' \in 0 .. MaxAttempt /\ unacked' \in 0 .. MaxAttempt
  <2>1. {attempt, 0, Bump(attempt), unacked, Bump(unacked)} \subseteq 0 .. MaxAttempt
    <3>1. attempt \in 0 .. MaxAttempt /\ unacked \in 0 .. MaxAttempt
      OBVIOUS
    <3>2. QED BY <3>1, BumpCounts
  <2>2. attempt' \in {attempt, 0, Bump(attempt)} /\ unacked' \in {unacked, 0, Bump(unacked)}
    BY DEF Next, Generator, TokenReady, TokenFails, HandshakeDone, DialFails, Receive, ClosedSeen,
           SilenceTimeout, WakesUp, Resume, AttemptAfter, SendPing, Cancelled, Network, Send,
           ConnectionChanges, Tick, Fail, AuthFails, vars
  <2>3. QED BY ONLY <2>1, <2>2
<1>3. timer' \in Nat
  <2>1. timer' \in {timer, 0, timer + 1}
    BY DEF Next, Generator, TokenReady, TokenFails, HandshakeDone, DialFails, Receive, ClosedSeen,
           SilenceTimeout, WakesUp, Resume, SendPing, Cancelled, Network, Send,
           ConnectionChanges, Tick, Fail, AuthFails, vars
  <2>2. timer \in Nat
    OBVIOUS
  <2>3. QED BY ONLY <2>1, <2>2
<1>4. ping' \in 0 .. PingEvery \cup {None} /\ owed' \in 0 .. PongWithin \cup {None}
  <2>1. /\ {ping, None, 0, Later(ping, PingEvery)} \subseteq 0 .. PingEvery \cup {None}
        /\ {owed, None, 0, Later(owed, PongWithin)} \subseteq 0 .. PongWithin \cup {None}
    <3>1. 0 \in 0 .. PingEvery /\ 0 \in 0 .. PongWithin
      OBVIOUS
    <3>2. Later(ping, PingEvery) \in 0 .. PingEvery \cup {None}
      BY LaterCounts
    <3>3. Later(owed, PongWithin) \in 0 .. PongWithin \cup {None}
      BY LaterCounts
    <3>4. QED BY <3>1, <3>2, <3>3
  <2>2. ping' \in {ping, None, 0, Later(ping, PingEvery)} /\ owed' \in {owed, None, 0, Later(owed, PongWithin)}
    BY DEF Next, Generator, TokenReady, TokenFails, HandshakeDone, DialFails, Receive, ClosedSeen,
           SilenceTimeout, WakesUp, Resume, SendPing, Cancelled, Network, Send,
           ConnectionChanges, Tick, Fail, AuthFails, TearDown, vars
  <2>3. QED BY ONLY <2>1, <2>2
<1>5. conn' \in {"none", "open", "dead", "closed"}
  BY DEF Next, Generator, TokenReady, TokenFails, HandshakeDone, DialFails, Receive, ClosedSeen,
         SilenceTimeout, WakesUp, Resume, SendPing, Cancelled, Network, Send,
         ConnectionChanges, Tick, Fail, AuthFails, TearDown, vars
<1>6. pc' \in {"token", "dial", "recv", "sleep", "yield", "ended"}
  BY DEF Next, Generator, TokenReady, TokenFails, HandshakeDone, DialFails, Receive, ClosedSeen,
         SilenceTimeout, WakesUp, Resume, SendPing, Cancelled, Network, Send,
         ConnectionChanges, Tick, Fail, AuthFails, Yield, vars
<1>7. event' \in Statuses \cup Items \cup {None}
  <2>1. inbox # << >> => Head(inbox) \in Frames
    BY HeadTailProperties
  <2>2. QED
    BY <2>1 DEF Next, Generator, TokenReady, TokenFails, HandshakeDone, DialFails, Receive, ClosedSeen,
         SilenceTimeout, WakesUp, Resume, SendPing, Cancelled, Network, Send,
         ConnectionChanges, Tick, Fail, AuthFails, Yield, vars, Frames, Statuses, Items
<1>8. QED BY <1>2, <1>3, <1>4, <1>5, <1>6, <1>7

(* What is promised of the events, the connection and the backoff holds    *)
(* for every event a connection is given up with.                          *)
LEMMA GivingUpStep ==
  ASSUME StreamInv, Fail \/ (AuthFails /\ phase \in {"reconnecting", "connecting"}),
         event # "subscribed", pc # "ended"
  PROVE  Phases' /\ Connections' /\ QuietTime' /\ Backoff'
<1> USE StreamAssumption DEF StreamAssumption, StreamInv
<1>1. /\ conn' = "none" /\ ping' = None /\ owed' = None /\ pc' = "yield" /\ phase' = event'
      /\ \/ event' = "auth_error" /\ UNCHANGED <<attempt, unacked, timer>>
         \/ /\ event' = "reconnecting" /\ timer' = 0
            /\ attempt' = Bump(attempt) /\ unacked' = Bump(unacked)
  BY GivingUp
<1>2. unacked = attempt
  BY DEF Backoff
<1>3. Bump(attempt) \in 1 .. MaxAttempt
  BY BumpCounts DEF Plain
<1>4. Phases' /\ Connections' /\ QuietTime'
  BY <1>1 DEF Phases, Connections, QuietTime, Statuses, Items
<1>5. Backoff'
  <2>1. unacked' = attempt'
    BY <1>1, <1>2
  <2>2. CASE event' = "auth_error"
    BY <1>1, <2>1, <2>2 DEF Backoff
  <2>3. CASE event' = "reconnecting" /\ attempt' = Bump(attempt)
    <3>1. attempt' > 0
      BY <1>3, <2>3
    <3>2. QED BY <1>1, <2>1, <2>3, <3>1 DEF Backoff
  <2>4. QED BY <1>1, <2>2, <2>3
<1>6. QED BY <1>4, <1>5

(* A recv that just began has not waited. *)
LEMMA FreshRecv ==
  ASSUME StreamInv, pc = "recv", timer' = 0, UNCHANGED <<conn, ping, owed>>
  PROVE  QuietTime'
<1> USE StreamAssumption DEF StreamAssumption, StreamInv, Plain
<1>1. event # "connected"
  BY DEF Phases, Statuses
<1>2. conn = "open" => ping \in Nat
  BY <1>1 DEF Connections
<1>3. owed # None => PingEvery + owed \in Nat
  OBVIOUS
<1>4. QED BY <1>2, <1>3 DEF QuietTime

(* A step of the generator between two events keeps the invariant. *)
LEMMA GeneratorStep ==
  ASSUME StreamInv, Generator
  PROVE  Phases' /\ Connections' /\ QuietTime' /\ Backoff'
<1> USE StreamAssumption DEF StreamAssumption, StreamInv, Plain
<1>1. pc \in {"token", "dial", "recv", "sleep"} /\ event = None
  BY DEF Generator, TokenReady, TokenFails, HandshakeDone, DialFails, Receive, ClosedSeen,
         SilenceTimeout, WakesUp, Phases
<1>2. event # "subscribed" /\ pc # "ended" /\ unacked = attempt
  BY <1>1 DEF Backoff, Statuses
<1>3. CASE TokenFails \/ DialFails
  BY <1>2, <1>3, GivingUpStep DEF TokenFails, DialFails, Phases
<1>4. CASE ClosedSeen \/ SilenceTimeout \/ (Receive /\ Head(inbox) = "bad")
  BY <1>2, <1>4, GivingUpStep DEF ClosedSeen, SilenceTimeout, Receive
<1>5. CASE TokenReady
  BY <1>2, <1>5 DEF TokenReady, Yield, Phases, Connections, QuietTime, Backoff, Statuses, Items
<1>6. CASE HandshakeDone
  BY <1>2, <1>6 DEF HandshakeDone, Yield, Phases, Connections, QuietTime, Backoff, Statuses, Items
<1>7. CASE WakesUp
  BY <1>2, <1>7 DEF WakesUp, Phases, Connections, QuietTime, Backoff, Statuses, Items
<1>8. CASE Receive /\ Head(inbox) = "ignored"
  <2>1. timer' = 0 /\ UNCHANGED <<pc, event, attempt, conn, ping, owed, phase, unacked>> /\ pc = "recv"
    BY <1>8 DEF Receive
  <2>2. Phases' /\ Connections' /\ Backoff'
    BY <2>1 DEF Phases, Connections, Backoff
  <2>3. QuietTime'
    BY <1>1, <2>1, FreshRecv
  <2>4. QED BY <2>2, <2>3
<1>9. CASE Receive /\ Head(inbox) \notin {"bad", "ignored"}
  <2> DEFINE f == Head(inbox)
  <2>1. f \in {"subscribed", "rejected", "error", "pong", "data", "protocol_error"}
    BY <1>9, HeadTailProperties DEF Receive, Frames
  <2>2. /\ pc = "recv" /\ pc' = "yield" /\ event' = f /\ phase' = IF f \in Statuses THEN f ELSE phase
        /\ unacked' = IF f = "subscribed" THEN 0 ELSE unacked
        /\ UNCHANGED <<attempt, conn, ping, owed>>
    BY <1>9 DEF Receive, Yield
  <2> HIDE DEF f
  <2>3. Phases'
    BY <2>1, <2>2 DEF Phases, Statuses, Items
  <2>4. Connections'
    <3>1. event # "connected" /\ conn # "none"
      BY <1>1, <2>2 DEF Connections, Statuses
    <3>2. conn \in {"open", "dead"} => ping # None
      BY <3>1 DEF Connections
    <3>3. event' \in Items \cup {"connected", "subscribed", "error", "rejected"} /\ event' # "connected"
      BY <2>1, <2>2 DEF Items
    <3>4. QED BY <2>2, <3>1, <3>2, <3>3 DEF Connections
  <2>5. QuietTime' /\ Backoff'
    BY <1>2, <2>1, <2>2 DEF QuietTime, Backoff
  <2>6. QED BY <2>3, <2>4, <2>5
<1>10. QED
  BY <1>3, <1>4, <1>5, <1>6, <1>7, <1>8, <1>9 DEF Generator, Receive

(* So does the step that follows an event the feed has taken.              *)
LEMMA ResumeStep ==
  ASSUME StreamInv, Resume \/ Cancelled
  PROVE  Phases' /\ Connections' /\ QuietTime' /\ Backoff'
<1> USE StreamAssumption DEF StreamAssumption, StreamInv, Plain
<1>1. CASE pc' = "ended" /\ event' = None /\ phase' = "over" /\ TearDown
  BY <1>1 DEF TearDown, Phases, Connections, QuietTime, Backoff, Statuses, Items
<1>2. CASE Resume /\ event = "error" /\ Fail
  BY <1>2, GivingUpStep DEF Resume
<1>3. CASE Resume /\ event \in {"connecting", "reconnecting"} /\ pc' \in {"dial", "sleep"}
  BY <1>3 DEF Resume, KeepsReceiving, Phases, Connections, QuietTime, Backoff, Statuses, Items
<1>4. CASE Resume /\ KeepsReceiving(event) /\ pc' = "recv"
  <2>1. /\ event' = None /\ timer' = 0 /\ attempt' = AttemptAfter(event)
        /\ ping' = IF event = "connected" THEN 0 ELSE ping
        /\ UNCHANGED <<conn, owed, phase, unacked>> /\ event \in Items \cup {"connected", "subscribed"}
    BY <1>4 DEF Resume, KeepsReceiving, Items
  <2>2. Phases'
    BY <1>4, <2>1 DEF Phases, Statuses, Items
  <2>3. Connections'
    <3>1. conn # "none" /\ conn' = conn /\ event' # "connected"
      BY <2>1 DEF Connections, Statuses
    <3>2. conn \in {"open", "dead"} => ping' # None
      BY <2>1 DEF Connections
    <3>3. QED BY <1>4, <3>1, <3>2 DEF Connections
  <2>4. QuietTime'
    <3>1. conn' = "open" => ping' \in Nat
      BY <2>1 DEF Connections
    <3>2. owed # None => PingEvery + owed \in Nat
      OBVIOUS
    <3>3. QED BY <2>1, <3>1, <3>2 DEF QuietTime
  <2>5. Backoff'
    <3>1. pc # "ended"
      BY <1>4 DEF Resume
    <3>2. CASE event = "subscribed"
      BY <1>4, <2>1, <3>2 DEF Backoff, AttemptAfter, Statuses
    <3>3. CASE event # "subscribed"
      BY <1>4, <2>1, <3>1, <3>3 DEF Backoff, AttemptAfter, Statuses
    <3>4. QED BY <3>2, <3>3
  <2>6. QED BY <2>2, <2>3, <2>4, <2>5
<1>5. QED BY <1>1, <1>2, <1>3, <1>4 DEF Resume, Cancelled

(* The keepalive, the network and the clock change no event. *)
LEMMA OutsideStep ==
  ASSUME StreamInv, SendPing \/ Network \/ Tick \/ UNCHANGED vars
  PROVE  Phases' /\ Connections' /\ QuietTime' /\ Backoff'
<1> USE StreamAssumption DEF StreamAssumption, StreamInv, Plain
<1>1. UNCHANGED <<pc, event, phase, attempt, unacked>>
  BY DEF SendPing, Network, Send, ConnectionChanges, Tick, vars
<1>2. Phases' /\ Backoff'
  BY <1>1 DEF Phases, Backoff
<1>3. CASE SendPing
  <2>1. Connections'
    BY <1>1, <1>3 DEF SendPing, Connections
  <2>2. QuietTime'
    <3> SUFFICES ASSUME pc = "recv", conn = "open", inbox = << >>
                 PROVE  timer <= IF owed' = None THEN ping' ELSE PingEvery + owed'
      BY <1>1, <1>3 DEF SendPing, QuietTime
    <3>1. timer <= IF owed = None THEN PingEvery ELSE PingEvery + owed
      BY <1>3 DEF SendPing, QuietTime
    <3>2. CASE owed = None
      <4>1. owed' = 0
        BY <1>3, <3>2 DEF SendPing
      <4>2. QED BY <3>1, <3>2, <4>1
    <3>3. CASE owed # None
      BY <1>3, <3>1, <3>3 DEF SendPing
    <3>4. QED BY <3>2, <3>3
  <2>3. QED BY <1>2, <2>1, <2>2
<1>4. CASE \E f \in Frames : Send(f)
  <2>1. inbox' # << >> /\ UNCHANGED <<conn, ping>>
    <3>1. PICK f \in Frames : Send(f)
      BY <1>4
    <3>2. inbox' \in Seq(Frames) /\ Len(inbox') = Len(inbox) + 1
      BY <3>1, AppendProperties DEF Send
    <3>3. Len(inbox) \in Nat
      BY LenProperties
    <3>4. QED BY <3>1, <3>2, <3>3, EmptySeq DEF Send
  <2>2. QED BY <1>1, <1>2, <2>1 DEF Connections, QuietTime
<1>5. CASE ConnectionChanges
  <2>1. conn # "none" /\ conn' \notin {"none", "open"} /\ (conn' = "dead" => conn = "open") /\ ping' = ping
    BY <1>5 DEF ConnectionChanges
  <2>2. Connections'
    <3>1. conn' = "dead" /\ event # "connected" => ping # None
      BY <2>1 DEF Connections
    <3>2. QED BY <1>1, <2>1, <3>1 DEF Connections
  <2>3. QED BY <1>2, <2>1, <2>2 DEF QuietTime
<1>6. CASE Tick
  <2>1. /\ ping' = Later(ping, PingEvery) /\ owed' = Later(owed, PongWithin) /\ UNCHANGED <<conn, inbox>>
        /\ ping # PingEvery /\ (owed = PongWithin => Len(inbox) = MaxInbox)
        /\ timer' = IF pc \in {"recv", "sleep"} THEN timer + 1 ELSE timer
    BY <1>6 DEF Tick, Waiting
  <2>2. /\ ping = None <=> ping' = None
        /\ ping # None => ping' = ping + 1
        /\ owed = None <=> owed' = None
        /\ owed # None /\ owed # PongWithin => owed' = owed + 1
    <3>1. PingEvery \in Nat /\ PongWithin \in Nat
      OBVIOUS
    <3>2. /\ ping = None <=> Later(ping, PingEvery) = None
          /\ ping # None /\ ping # PingEvery => Later(ping, PingEvery) = ping + 1
      BY <3>1, LaterCounts
    <3>3. /\ owed = None <=> Later(owed, PongWithin) = None
          /\ owed # None /\ owed # PongWithin => Later(owed, PongWithin) = owed + 1
      BY <3>1, LaterCounts
    <3>4. QED BY <2>1, <3>2, <3>3
  <2>3. Connections'
    BY <1>1, <2>1, <2>2 DEF Connections
  <2>4. QuietTime'
    <3> SUFFICES ASSUME pc = "recv", conn = "open", inbox = << >>
                 PROVE  timer + 1 <= IF owed' = None THEN ping' ELSE PingEvery + owed'
      BY <1>1, <2>1 DEF QuietTime
    <3>1. owed # PongWithin
      BY <2>1, EmptySeq
    <3>2. timer <= IF owed = None THEN ping ELSE PingEvery + owed
      BY DEF QuietTime
    <3>3. ping \in Nat
      BY DEF Connections, Phases, Statuses
    <3>4. CASE owed = None
      BY <2>2, <3>2, <3>3, <3>4
    <3>5. CASE owed # None
      <4>1. owed \in Nat /\ owed' = owed + 1 /\ PingEvery \in Nat
        BY <2>2, <3>1, <3>5
      <4>2. QED BY <2>2, <3>2, <3>5, <4>1
    <3>6. QED BY <3>4, <3>5
  <2>5. QED BY <1>2, <2>3, <2>4
<1>7. CASE UNCHANGED vars
  BY <1>2, <1>7 DEF vars, Connections, QuietTime
<1>8. QED BY <1>3, <1>4, <1>5, <1>6, <1>7 DEF Network

(* The stream starts at its token with nothing open, and keeps its         *)
(* invariant.                                                              *)
LEMMA StreamInvariant == Spec => []StreamInv
<1>1. Init => StreamInv
  <2> SUFFICES ASSUME Init PROVE StreamInv
    OBVIOUS
  <2> USE StreamAssumption DEF StreamAssumption, Init
  <2>1. Plain
    BY EmptySeq DEF Plain
  <2>2. Phases /\ Connections /\ QuietTime /\ Backoff
    BY DEF Phases, Connections, QuietTime, Backoff, Statuses, Items
  <2>3. QED BY <2>1, <2>2 DEF StreamInv
<1>2. StreamInv /\ [Next]_vars => StreamInv'
  BY PlainStep, GeneratorStep, ResumeStep, OutsideStep DEF Next, StreamInv
<1>3. QED BY <1>1, <1>2, PTL DEF Spec

(* The generator, its connection and its timers never leave their types. *)
THEOREM StreamTypeCorrect == Spec => []TypeOK
<1>1. StreamInv => TypeOK
  <2> SUFFICES ASSUME StreamInv PROVE TypeOK
    OBVIOUS
  <2> USE StreamAssumption DEF StreamAssumption, StreamInv, Plain
  <2>1. (pc = "yield") = (event # None)
    BY DEF Phases
  <2>2. phase \in Statuses \cup {"over"}
    BY DEF Phases, Statuses
  <2>3. owed \in Nat \cup {None}
    OBVIOUS
  <2>4. QED BY <2>1, <2>2, <2>3 DEF TypeOK
<1>2. QED BY <1>1, StreamInvariant, PTL

(* A server that answers the keepalive is never taken for a dead one,      *)
(* whenever its frames came and however long the feed handled an event.    *)
THEOREM QuietIsNotDead == Spec => []QuietConnectionSurvives
<1>1. StreamInv => QuietConnectionSurvives
  <2> SUFFICES ASSUME StreamInv, pc = "recv", conn = "open", inbox = << >>
               PROVE  ~(timer >= SilenceLimit)
    BY DEF QuietConnectionSurvives
  <2> USE StreamAssumption DEF StreamAssumption, StreamInv, Plain
  <2>1. timer <= IF owed = None THEN ping ELSE PingEvery + owed
    BY DEF QuietTime
  <2>2. ping \in 0 .. PingEvery
    BY DEF Connections, Phases, Statuses
  <2>3. timer <= PingEvery + PongWithin
    BY <2>1, <2>2
  <2>4. QED BY <2>3 DEF SilenceLimit
<1>2. QED BY <1>1, StreamInvariant, PTL

(* No keepalive outlives the connection it pings. *)
THEOREM KeepaliveDiesWithIt == Spec => []KeepaliveHasItsConnection
<1>1. StreamInv => KeepaliveHasItsConnection
  <2> SUFFICES ASSUME StreamInv, ping # None PROVE conn # "none" /\ pc \in {"recv", "yield"}
    BY DEF KeepaliveHasItsConnection
  <2>1. conn # "none"
    BY DEF StreamInv, Connections
  <2>2. pc = "recv" \/ event \in Items \cup {"connected", "subscribed", "error", "rejected"}
    BY <2>1 DEF StreamInv, Connections
  <2>3. event \in Items \cup {"connected", "subscribed", "error", "rejected"} => event # None
    BY StreamAssumption DEF StreamAssumption, Statuses
  <2>4. QED BY <2>1, <2>2, <2>3 DEF StreamInv, Phases
<1>2. QED BY <1>1, StreamInvariant, PTL

(* The delay before a dial counts every connection in a row that was not   *)
(* acknowledged.                                                           *)
THEOREM BackoffIsKept == Spec => DialsAreSpaced
<1>1. StreamInv /\ [Next]_vars =>
        (pc = "sleep" /\ pc' = "token" =>
           timer >= Min({DelayCap, 2 ^ Min({IF unacked = 0 THEN 0 ELSE unacked - 1, 5})}))
  <2> SUFFICES ASSUME StreamInv, [Next]_vars, pc = "sleep", pc' = "token"
               PROVE  timer >= Min({DelayCap, 2 ^ Min({IF unacked = 0 THEN 0 ELSE unacked - 1, 5})})
    OBVIOUS
  <2>1. timer >= RetryDelay(attempt)
    BY DEF Next, Generator, TokenReady, TokenFails, HandshakeDone, DialFails, Receive, ClosedSeen,
       SilenceTimeout, WakesUp, Resume, SendPing, Cancelled, Network, Send, ConnectionChanges, Tick,
       Fail, AuthFails, Yield, vars
  <2>2. unacked = attempt /\ attempt > 0 /\ attempt \in Nat
    BY StreamAssumption DEF StreamAssumption, StreamInv, Plain, Phases, Backoff, Statuses
  <2>3. unacked # 0
    BY <2>2
  <2>4. QED BY <2>1, <2>2, <2>3 DEF RetryDelay
<1>2. QED BY <1>1, StreamInvariant, PTL DEF Spec, DialsAreSpaced

(* Every step of the stream is one the feed may rely on, or no event.      *)
THEOREM StreamImplementsProtocol == Spec => ImplementsProtocol
<1> USE StreamAssumption DEF StreamAssumption
<1>1. Init => Protocol!Init
  BY DEF Init, Protocol!Init
<1>2. StreamInv /\ [Next]_vars => [Protocol!Next]_Protocol!vars
  <2> SUFFICES ASSUME StreamInv, [Next]_vars PROVE [Protocol!Next]_Protocol!vars
    OBVIOUS
  <2> USE DEF Protocol!Next, Protocol!vars
  <2>1. CASE UNCHANGED <<event, phase>>
    BY <2>1
  <2>2. ASSUME Fail \/ AuthFails, event = None, phase \in {"reconnecting", "connecting", "connected", "subscribed"},
               AuthFails => phase \in {"reconnecting", "connecting"}
        PROVE  Protocol!Yield
    BY <2>2 DEF Fail, AuthFails, Yield, Statuses, Protocol!Yield, Protocol!Running, Protocol!Reconnecting,
       Protocol!AuthError
  <2>3. CASE TokenReady \/ HandshakeDone
    BY <2>3 DEF TokenReady, HandshakeDone, Yield, StreamInv, Phases, Statuses, Protocol!Yield,
       Protocol!Running, Protocol!Connecting, Protocol!Connected
  <2>4. CASE TokenFails \/ DialFails \/ ClosedSeen \/ SilenceTimeout \/ (Receive /\ Head(inbox) = "bad")
    <3>1. Fail \/ (AuthFails /\ pc \in {"token", "dial"})
      BY <2>4 DEF TokenFails, DialFails, ClosedSeen, SilenceTimeout, Receive
    <3>2. pc \in {"token", "dial", "recv"}
      BY <2>4 DEF TokenFails, DialFails, ClosedSeen, SilenceTimeout, Receive
    <3>3. event = None /\ phase \in {"reconnecting", "connecting", "connected", "subscribed"}
      BY <3>2 DEF StreamInv, Phases
    <3>4. pc \in {"token", "dial"} => phase \in {"reconnecting", "connecting"}
      BY DEF StreamInv, Phases
    <3>5. CASE Fail
      <4>1. ~AuthFails
        BY <3>5 DEF Fail, AuthFails, Yield
      <4>2. QED BY <2>2, <3>3, <3>5, <4>1
    <3>6. CASE AuthFails /\ pc \in {"token", "dial"}
      BY <2>2, <3>3, <3>4, <3>6
    <3>7. QED BY <3>1, <3>5, <3>6
  <2>5. CASE Receive /\ Head(inbox) # "bad"
    <3>1. event = None /\ phase \in {"connected", "subscribed"} /\ pc = "recv"
      BY <2>5 DEF Receive, StreamInv, Phases
    <3>2. CASE UNCHANGED <<event, phase>>
      BY <3>2
    <3>3. CASE Yield(Head(inbox)) /\ Head(inbox) \notin {"bad", "ignored"}
      <4> DEFINE f == Head(inbox)
      <4>1. f \in {"subscribed", "rejected", "error", "pong", "data", "protocol_error"}
        BY <2>5, <3>3, HeadTailProperties DEF Receive, StreamInv, Plain, Frames
      <4>2. event' = f /\ phase' = IF f \in Statuses THEN f ELSE phase
        BY <3>3 DEF Yield
      <4> HIDE DEF f
      <4>3. Protocol!Running
        BY <3>1 DEF Protocol!Running
      <4>4. CASE f \in Items
        BY <3>1, <4>2, <4>3, <4>4 DEF Items, Statuses, Protocol!Yield, Protocol!Item, Protocol!Items
      <4>5. CASE f \notin Items
        BY <3>1, <4>1, <4>2, <4>3, <4>5 DEF Items, Statuses, Protocol!Yield, Protocol!Answer
      <4>6. QED BY <4>4, <4>5
    <3>4. QED BY <2>5, <3>2, <3>3 DEF Receive
  <2>6. CASE Resume
    <3>1. event # None
      BY <2>6 DEF Resume, StreamInv, Phases
    <3>2. CASE event # "error" /\ event' = None /\ phase' = phase
      BY <3>1, <3>2 DEF Protocol!Resume
    <3>3. CASE event = "error" /\ Fail
      BY <3>1, <3>3 DEF Fail, Yield, Statuses, Protocol!Resume
    <3>4. CASE event' = None /\ phase' = "over"
      BY <3>4 DEF Protocol!Over
    <3>5. QED BY <2>6, <3>2, <3>3, <3>4 DEF Resume, KeepsReceiving, Items
  <2>7. CASE Cancelled
    BY <2>7 DEF Cancelled, Protocol!Over
  <2>8. CASE WakesUp \/ SendPing \/ Network \/ Tick \/ UNCHANGED vars
    BY <2>1, <2>8 DEF WakesUp, SendPing, Network, Send, ConnectionChanges, Tick, vars
  <2>9. QED
    BY <2>3, <2>4, <2>5, <2>6, <2>7, <2>8 DEF Next, Generator
<1>3. QED BY <1>1, <1>2, StreamInvariant, PTL DEF Spec, ImplementsProtocol, Protocol!Spec
=============================================================================
