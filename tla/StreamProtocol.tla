--------------------------- MODULE StreamProtocol ---------------------------
(***************************************************************************)
(* What TossMarketStream.events() promises to the feed that iterates over  *)
(* it: which event may follow which.  event is the event the generator is  *)
(* suspended at, None while it runs or waits; phase is the last event that *)
(* tells the state of the connection.                                      *)
(***************************************************************************)
CONSTANTS None

VARIABLES event, phase

vars == <<event, phase>>

Items == {"data", "pong", "protocol_error"}

Init == event = None /\ phase = "reconnecting"

Running == event = None /\ phase \notin {"auth_error", "rejected", "over"}

(* A new connection is announced before it is made, and made before        *)
(* anything arrives on it.                                                 *)
Connecting == phase = "reconnecting" /\ event' = "connecting"

Connected == phase = "connecting" /\ event' = "connected"

Answer ==
  /\ phase \in {"connected", "subscribed"}
  /\ event' \in {"subscribed", "error", "rejected"}

(* Trades, order books and pongs come from a connection nobody has given   *)
(* up: not after an error, and not before the next connection.             *)
Item ==
  /\ phase \in {"connected", "subscribed"}
  /\ event' \in Items
  /\ UNCHANGED phase

Reconnecting == phase \notin {"auth_error", "rejected", "over"} /\ event' = "reconnecting"

AuthError == phase \in {"reconnecting", "connecting"} /\ event' = "auth_error"

Yield ==
  /\ Running
  /\ \/ Item
     \/ (Connecting \/ Connected \/ Answer \/ Reconnecting \/ AuthError) /\ phase' = event'

(* An error is followed by the reconnection at once, without a wait. *)
Resume ==
  /\ event # None
  /\ \/ event # "error" /\ event' = None /\ UNCHANGED phase
     \/ event = "error" /\ event' = "reconnecting" /\ phase' = "reconnecting"

(* The feed is cancelled, or the generator returns: no event any more. *)
Over == event' = None /\ phase' = "over"

Next == Yield \/ Resume \/ Over

Spec == Init /\ [][Next]_vars
=============================================================================
