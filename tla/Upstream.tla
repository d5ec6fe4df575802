------------------------------ MODULE Upstream ------------------------------
(***************************************************************************)
(* What a connector promises its owner: the callbacks it may make, in      *)
(* which order, and which of them are the last one.  Module                *)
(* LiveHubConnector implements it; module RoomHub uses a connector by it.  *)
(*                                                                         *)
(* The owner of a connector is RoomEventSource: it connects once, closes   *)
(* once, and hands over an event listener, a disconnect listener and a     *)
(* handler for the failure of its connect().                               *)
(***************************************************************************)
VARIABLES
    phase,   \* how far the connector is, as its owner can tell
    heard    \* the last callback the owner got

vars == <<phase, heard>>

Phases == {"new", "dialing", "online", "failed", "lost", "closing", "gone"}
Callbacks == {"nothing", "connected", "event", "failed", "error", "disconnected"}

Init == phase = "new" /\ heard = "nothing"

\* Frames may come as long as there is a socket: before the first heartbeat_sec
\* announces the connection, and after close() until the socket is closed.
Bringing == {"dialing", "online", "closing"}

Connect ==
    /\ phase = "new"
    /\ phase' = "dialing"
    /\ UNCHANGED heard

\* ConnectionState("connected") comes once, whatever reconnects follow.
Announce ==
    /\ phase = "dialing"
    /\ phase' = "online"
    /\ heard' = "connected"

Deliver ==
    /\ phase \in Bringing
    /\ heard' = "event"
    /\ UNCHANGED phase

\* Only an attempt of connect() fails visibly, so nothing was heard before.
Fail ==
    /\ phase \in {"dialing", "closing"}
    /\ heard = "nothing"
    /\ phase' = IF phase = "closing" THEN "gone" ELSE "failed"
    /\ heard' = "failed"

\* A socket that ends in an error is the connector's last.
Lose ==
    /\ phase \in Bringing
    /\ phase' = IF phase = "closing" THEN "gone" ELSE "lost"
    /\ heard' = "error"

\* close()
Close ==
    /\ phase \in {"dialing", "online", "failed", "lost"}
    /\ phase' = IF phase \in {"failed", "lost"} THEN "gone" ELSE "closing"
    /\ UNCHANGED heard

\* The disconnect listener runs after close() only, and once.
Disconnect ==
    /\ phase = "closing"
    /\ phase' = "gone"
    /\ heard' = "disconnected"

Next == Connect \/ Announce \/ Deliver \/ Fail \/ Lose \/ Close \/ Disconnect

Spec == Init /\ [][Next]_vars
=============================================================================
