-------------------------- MODULE LiveHubConnector --------------------------
(***************************************************************************)
(* HtLiveHubUpstreamConnector: one room's WebSocket to LiveHub.            *)
(*                                                                         *)
(* The connector's threads are those of module ImConnector without the     *)
(* relogin: the owner's, the sockets' listeners, the callbacks of          *)
(* buildAsync and the delayed executor of the reconnect loop.  The frames  *)
(* of a socket go through the mappers of module LiveHubFrames to the room  *)
(* listener or to the captions (CC) listener.  What the owner may rely on  *)
(* is stated by module Upstream, which this module implements.             *)
(***************************************************************************)
EXTENDS Integers, LiveHubFrames

CONSTANTS
    Sockets,     \* names for sockets; a name is reused once its socket is over
    NoSocket,    \* the null of field ws
    MaxAttempt,  \* bound: the backoff counter saturates here
    Frames       \* frames the upstream sends

\* The users of a gift batch are numbers, as mapGiftBatch reads them.
ASSUME LiveHubAssumption ==
    /\ NoSocket \notin Sockets
    /\ MaxAttempt \in Nat
    /\ \A text \in Frames : NonNull(text, "event") => Users(Info(text)) \in Seq(Int)

VARIABLES
    intentionalClose,    \* volatile field
    connected,           \* session.connected
    announcedConnected,  \* volatile field
    ws,                  \* volatile field
    heartbeat,           \* HeartbeatPump: "idle", "ticking" or "shutdown"
    attempt,             \* ReconnectStrategy.attempt
    call,                \* socket -> progress of the attemptConnect() that builds it
    wire,                \* socket -> what has become of the socket
    answered,            \* sockets on which heartbeat_sec has been handled
    delayed,             \* reconnects waiting in the delayed executor
    closers,             \* threads inside close(), before it looks at ws
    owner,               \* RoomEventSource: "new", "using", "done"
    heard                \* the last callback made to the owner

vars == <<intentionalClose, connected, announcedConnected, ws, heartbeat, attempt,
          call, wire, answered, delayed, closers, owner, heard>>

Calls == {"none", "opening", "dialing", "built", "checked", "published", "over"}
Wires == {"none", "open", "closing", "closed", "dead"}

Init ==
    /\ intentionalClose = FALSE
    /\ connected = FALSE
    /\ announcedConnected = FALSE
    /\ ws = NoSocket
    /\ heartbeat = "idle"
    /\ attempt = 0
    /\ call = [s \in Sockets |-> "none"]
    /\ wire = [s \in Sockets |-> "none"]
    /\ answered = {}
    /\ delayed = 0
    /\ closers = 0
    /\ owner = "new"
    /\ heard = "nothing"

----------------------------------------------------------------------------
(* Building blocks.                                                        *)

\* The socket can still bring frames, a close or an error.
Alive(s) == wire[s] \in {"open", "closing"}

Dialing(s) == call[s] \in {"opening", "dialing"}

\* A name that no thread refers to any more, and not the one in ws.
Unused(s) == call[s] \in {"none", "over"} /\ ~Alive(s) /\ s # ws

\* buildAsync.  "opening" is the attempt that connect() returns to its caller,
\* "dialing" one of the reconnect loop.
Dial(s, as) ==
    /\ Unused(s)
    /\ call' = [call EXCEPT ![s] = as]
    /\ wire' = [wire EXCEPT ![s] = "none"]
    /\ answered' = answered \ {s}

SendClose(s) ==
    wire' = [t \in Sockets |-> IF t = s /\ wire[t] = "open" THEN "closing" ELSE wire[t]]

\* reconnectInBackground()
ReconnectInBackground ==
    IF intentionalClose
    THEN UNCHANGED <<delayed, attempt>>
    ELSE /\ delayed' = delayed + 1
         /\ attempt' = IF attempt < MaxAttempt THEN attempt + 1 ELSE attempt

----------------------------------------------------------------------------
(* The owner's calls.                                                      *)

Connect(s) ==
    /\ owner = "new"
    /\ owner' = "using"
    /\ connected' = FALSE
    /\ intentionalClose' = FALSE
    /\ announcedConnected' = FALSE
    /\ attempt' = 0
    /\ Dial(s, "opening")
    /\ UNCHANGED <<ws, heartbeat, delayed, closers, heard>>

\* close() up to its read of ws.
Release ==
    /\ owner = "using"
    /\ owner' = "done"
    /\ intentionalClose' = TRUE
    /\ connected' = FALSE
    /\ heartbeat' = "shutdown"
    /\ closers' = closers + 1
    /\ UNCHANGED <<announcedConnected, ws, attempt, call, wire, answered, delayed, heard>>

\* The rest of close(): the socket that ws holds by now is closed.
CloseEnd ==
    /\ closers > 0
    /\ closers' = closers - 1
    /\ SendClose(ws)
    /\ UNCHANGED <<intentionalClose, connected, announcedConnected, ws, heartbeat, attempt,
                   call, answered, delayed, owner, heard>>

----------------------------------------------------------------------------
(* attemptConnect() and the reconnect loop.                                *)

\* Mutant: a failed background attempt is not followed by another.
BuildFailsOnce(s) ==
    /\ Dialing(s)
    /\ call' = [call EXCEPT ![s] = "over"]
    /\ UNCHANGED <<intentionalClose, connected, announcedConnected, ws, heartbeat, attempt,
                   wire, answered, delayed, closers, owner, heard>>

\* The owner hears of the attempt that connect() returned; the reconnect loop
\* tries again.
BuildFails(s) ==
    /\ Dialing(s)
    /\ call' = [call EXCEPT ![s] = "over"]
    /\ \/ call[s] = "dialing" /\ ReconnectInBackground /\ UNCHANGED heard
       \/ call[s] = "opening" /\ heard' = "failed" /\ UNCHANGED <<delayed, attempt>>
    /\ UNCHANGED <<intentionalClose, connected, announcedConnected, ws, heartbeat,
                   wire, answered, closers, owner>>

BuildSucceeds(s) ==
    /\ Dialing(s)
    /\ call' = [call EXCEPT ![s] = "built"]
    /\ wire' = [wire EXCEPT ![s] = "open"]
    /\ UNCHANGED <<intentionalClose, connected, announcedConnected, ws, heartbeat, attempt,
                   answered, delayed, closers, owner, heard>>

\* The callback's test of intentionalClose, and all it does if it is set.
CheckClosed(s) ==
    /\ call[s] = "built"
    /\ IF intentionalClose
       THEN /\ SendClose(s)
            /\ heartbeat' = "shutdown"
            /\ call' = [call EXCEPT ![s] = "over"]
       ELSE /\ call' = [call EXCEPT ![s] = "checked"]
            /\ UNCHANGED <<wire, heartbeat>>
    /\ UNCHANGED <<intentionalClose, connected, announcedConnected, ws, attempt,
                   answered, delayed, closers, owner, heard>>

\* this.ws = sock
Publish(s) ==
    /\ call[s] = "checked"
    /\ ws' = s
    /\ call' = [call EXCEPT ![s] = "published"]
    /\ UNCHANGED <<intentionalClose, connected, announcedConnected, heartbeat, attempt,
                   wire, answered, delayed, closers, owner, heard>>

\* session.connected, the backoff, and the init frame.
Greet(s) ==
    /\ call[s] = "published"
    /\ connected' = TRUE
    /\ attempt' = 0
    /\ call' = [call EXCEPT ![s] = "over"]
    /\ UNCHANGED <<intentionalClose, announcedConnected, ws, heartbeat,
                   wire, answered, delayed, closers, owner, heard>>

\* Mutant: a delayed reconnect runs once more after the last.
ReconnectAgain ==
    /\ delayed' = delayed - 1
    /\ \E s \in Sockets : Dial(s, "dialing")
    /\ UNCHANGED <<intentionalClose, connected, announcedConnected, ws, heartbeat, attempt,
                   closers, owner, heard>>

\* A delayed reconnect comes due.
Reconnect ==
    /\ delayed > 0
    /\ delayed' = delayed - 1
    /\ IF intentionalClose
       THEN UNCHANGED <<call, wire, answered>>
       ELSE \E s \in Sockets : Dial(s, "dialing")
    /\ UNCHANGED <<intentionalClose, connected, announcedConnected, ws, heartbeat, attempt,
                   closers, owner, heard>>

----------------------------------------------------------------------------
(* The listener of a socket.                                               *)

\* Mutant: the pump is started with the first announcement only.
HandleHeartbeatSecOnce(s) ==
    /\ Alive(s)
    /\ answered' = answered \cup {s}
    /\ heartbeat' = IF announcedConnected THEN heartbeat ELSE "ticking"
    /\ announcedConnected' = TRUE
    /\ UNCHANGED <<intentionalClose, connected, ws, attempt, call, wire, delayed, closers, owner, heard>>

\* heartbeat_sec: restarts the pump, and announces the connection once per
\* connect().  The pump takes any number: its period is at least a second.  One
\* that is shut down throws, which ends the socket.
HandleHeartbeatSec(s) ==
    /\ Alive(s)
    /\ answered' = answered \cup {s}
    /\ IF heartbeat = "shutdown"
       THEN /\ wire' = [wire EXCEPT ![s] = "dead"]
            /\ heard' = "error"
            /\ UNCHANGED <<heartbeat, announcedConnected>>
       ELSE /\ heartbeat' = "ticking"
            /\ announcedConnected' = TRUE
            /\ heard' = IF announcedConnected THEN heard ELSE "connected"
            /\ UNCHANGED wire
    /\ UNCHANGED <<intentionalClose, connected, ws, attempt, call, delayed, closers, owner>>

\* Mutant: a frame that cannot be mapped makes the connector reconnect at once.
HandleFrameReconnects(s, text) ==
    /\ Alive(s)
    /\ IF MapRoom(text) = Throws THEN ReconnectInBackground
                                 ELSE UNCHANGED <<delayed, attempt>>
    /\ UNCHANGED <<intentionalClose, connected, announcedConnected, ws, heartbeat,
                   call, wire, answered, closers, owner, heard>>

\* Any other frame is acknowledged and routed, which leaves the connection as
\* it is; an exception out of a mapper ends the socket.
HandleFrame(s, text) ==
    /\ Alive(s)
    /\ ~HeartbeatSec(text) /\ ~IsHeartbeatResponse(text)
    /\ wire' = IF MapRoom(text) = Throws THEN [wire EXCEPT ![s] = "dead"] ELSE wire
    /\ heard' = IF MapRoom(text) = Throws THEN "error"
                ELSE IF MapRoom(text) = Nothing /\ RouteCc(text) = Nothing THEN heard
                ELSE "event"
    /\ UNCHANGED <<intentionalClose, connected, announcedConnected, ws, heartbeat, attempt,
                   call, answered, delayed, closers, owner>>

\* Mutant: the disconnect listener runs after every close.
OnCloseTold(s) ==
    /\ Alive(s)
    /\ wire' = [wire EXCEPT ![s] = "closed"]
    /\ connected' = FALSE
    /\ heartbeat' = IF heartbeat = "ticking" THEN "idle" ELSE heartbeat
    /\ ReconnectInBackground
    /\ heard' = "disconnected"
    /\ UNCHANGED <<intentionalClose, announcedConnected, ws, call, answered, closers, owner>>

\* An intentional close ends in the owner's disconnect listener.
OnClose(s) ==
    /\ Alive(s)
    /\ wire' = [wire EXCEPT ![s] = "closed"]
    /\ connected' = FALSE
    /\ heartbeat' = IF heartbeat = "ticking" THEN "idle" ELSE heartbeat
    /\ ReconnectInBackground
    /\ heard' = IF intentionalClose THEN "disconnected" ELSE heard
    /\ UNCHANGED <<intentionalClose, announcedConnected, ws, call, answered, closers, owner>>

\* onError tells the room listener and does nothing else.
OnError(s) ==
    /\ Alive(s)
    /\ wire' = [wire EXCEPT ![s] = "dead"]
    /\ heard' = "error"
    /\ UNCHANGED <<intentionalClose, connected, announcedConnected, ws, heartbeat, attempt,
                   call, answered, delayed, closers, owner>>

----------------------------------------------------------------------------
Next ==
    \/ \E s \in Sockets : Connect(s)
    \/ Release
    \/ CloseEnd
    \/ Reconnect
    \/ \E s \in Sockets :
          \/ BuildFails(s) \/ BuildSucceeds(s)
          \/ CheckClosed(s) \/ Publish(s) \/ Greet(s)
          \/ HandleHeartbeatSec(s)
          \/ \E text \in Frames : HandleFrame(s, text)
          \/ OnClose(s) \/ OnError(s)

Spec == Init /\ [][Next]_vars

\* As in module ImConnector: executors run what is queued, an attempt ends and
\* not every attempt fails for ever, a close that was sent is answered.
Fairness ==
    /\ WF_vars(CloseEnd)
    /\ WF_vars(Reconnect)
    /\ SF_vars(\E s \in Sockets : BuildSucceeds(s))
    /\ \A s \in Sockets :
          /\ WF_vars(BuildSucceeds(s) \/ BuildFails(s))
          /\ WF_vars(CheckClosed(s))
          /\ WF_vars(Publish(s))
          /\ WF_vars(Greet(s))
          /\ WF_vars(wire[s] = "closing" /\ (OnClose(s) \/ OnError(s)))

FairSpec == Spec /\ Fairness

----------------------------------------------------------------------------
(* Properties.                                                             *)

FlagsOK ==
    /\ intentionalClose \in BOOLEAN
    /\ connected \in BOOLEAN
    /\ announcedConnected \in BOOLEAN

TypeOK ==
    /\ FlagsOK
    /\ ws \in Sockets \cup {NoSocket}
    /\ heartbeat \in {"idle", "ticking", "shutdown"}
    /\ attempt \in 0..MaxAttempt
    /\ call \in [Sockets -> Calls]
    /\ wire \in [Sockets -> Wires]
    /\ answered \in SUBSET Sockets
    /\ delayed \in Nat
    /\ closers \in Nat
    /\ owner \in {"new", "using", "done"}
    /\ heard \in {"nothing", "connected", "event", "failed", "error", "disconnected"}

\* A socket or an attempt to build one.
Active(s) == Alive(s) \/ Dialing(s)

\* "One LiveHub upstream WebSocket connection per room": at most one thing is
\* going on - one attempt, one socket, or one reconnect waiting for its delay.
SingleConnection ==
    /\ \A s, t \in Sockets : Active(s) /\ Active(t) => s = t
    /\ delayed \in {0, 1}
    /\ delayed = 1 => \A s \in Sockets : ~Active(s)

\* The upstream drops a socket that sends no heartbeat: one it has answered
\* and that is open has the pump running, however many sockets came before.
HeartbeatKept ==
    \A s \in Sockets :
        s \in answered /\ wire[s] = "open" /\ ~intentionalClose => heartbeat = "ticking"

\* "An unexpected close triggers an internal reconnect loop": after the peer
\* closed a socket there is a socket again, unless the connector is closed
\* or a later socket of the loop ended in onError.
CloseHeals ==
    \A s \in Sockets :
        wire[s] = "closed" ~> \/ \E t \in Sockets : Alive(t) \/ wire[t] = "dead"
                             \/ intentionalClose

\* The frames on which the two copies of the CC discriminator differ, heartbeats
\* aside, which handleFrame keeps from them.
Disputed == {text \in Frames : /\ Parses(text) /\ NonNull(text, "event")
                               /\ ~HeartbeatSec(text) /\ ~IsHeartbeatResponse(text)
                               /\ ~(OwnsType(text) <=> MapCc(text) # Nothing)}

\* "re-run the discriminator here": the two copies of the CC discriminator
\* agree on what a socket may bring, so no frame that ownsType claims is lost
\* in map() and none it leaves to the room comes out of map() as a caption.
DiscriminatorsAgree ==
    \A s \in Sockets : Alive(s) => Disputed = {}

\* The frames that become a user_join without a user.
NamelessJoins == {text \in Frames : /\ MapRoom(text).type = "user_join"
                                    /\ MapRoom(text).user = 0}

\* requiresUserId and mapTypeOne each decide what a gift batch is; between
\* them no user_join of nobody gets through to the room listener.
JoinNamesUser ==
    \A s \in Sockets : Alive(s) => NamelessJoins = {}

----------------------------------------------------------------------------
(* The connector as its owner sees it.                                     *)

Phase ==
    CASE owner = "new" -> "new"
      [] owner = "using" /\ heard = "failed" -> "failed"
      [] owner = "using" /\ heard = "error" -> "lost"
      [] owner = "using" /\ heard \notin {"failed", "error"} ->
             IF announcedConnected THEN "online" ELSE "dialing"
      [] owner = "done" ->
             IF heard \in {"failed", "error", "disconnected"} THEN "gone" ELSE "closing"

Contract == INSTANCE Upstream WITH phase <- Phase, heard <- heard

\* "connect only reflects the first attempt in its returned future": over
\* reconnects, late sockets and frames, the owner gets only the callbacks
\* the contract allows - one "connected" at most, no disconnect listener before
\* close(), and nothing at all after a failure, an error or the disconnect.
ImplementsUpstream == Contract!Spec
=============================================================================
