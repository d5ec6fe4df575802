------------------------------- MODULE ImHub -------------------------------
(***************************************************************************)
(* ImEventSource and ImSocketController: browser sessions on /ws/im share  *)
(* one upstream IM connector, which the first of them opens and the last   *)
(* one closes.                                                             *)
(*                                                                         *)
(* The source keeps its state in an AtomicInteger and three volatile       *)
(* fields and takes no lock, and Netty spreads the sessions' channels over *)
(* several event loops: the callbacks of one session follow each other,    *)
(* those of different sessions interleave field by field.  A connector and *)
(* the sink created with it form a generation.  The connector is used by   *)
(* its contract (module ImConnector): it reports its login and a failure   *)
(* of its first attempt, may close itself, and reports the end of its      *)
(* socket after a close().                                                 *)
(***************************************************************************)
EXTENDS Integers, FiniteSets

CONSTANTS
    Sessions,     \* browser sessions
    Generations,  \* names for connectors and their sinks
    None          \* null

ASSUME HubAssumption == None \notin Generations

VARIABLES
    subscriberCount,      \* AtomicInteger
    sink,                 \* volatile field: generation of the sink, or None
    connector,            \* volatile field: generation of the connector, or None
    lastConnectionState,  \* volatile field
    stage,                \* session -> where its controller callbacks stand
    flux,                 \* session -> generation it is attached to, or that the
                          \* local variable of its callback refers to
    completed,            \* generations whose sink has been completed
    upstream,             \* generation -> state of its connector
    collided              \* history: a release has run beside another callback

fields == <<subscriberCount, sink, connector, lastConnectionState>>
vars == <<fields, stage, flux, completed, upstream, collided>>

\* Stages between two callbacks of a session's channel.
Resting == {"away", "refused", "attached", "broken", "gone"}

\* Stages inside onOpen and inside onClose.
Subscribing == {"first", "sunk", "wired", "joining"}
Unsubscribing == {"zero", "drop", "dropping", "complete", "completing", "forget"}

\* A connector that close() has not reached; "ending" is one that called it
\* itself, "closing" one that the hub closed.
Held == {"new", "dialing", "online", "failed"}
Upstreams == {"none", "ending", "closing", "closed"} \cup Held

Init ==
    /\ subscriberCount = 0
    /\ sink = None
    /\ connector = None
    /\ lastConnectionState = "disconnected"
    /\ stage = [s \in Sessions |-> "away"]
    /\ flux = [s \in Sessions |-> None]
    /\ completed = {}
    /\ upstream = [g \in Generations |-> "none"]
    /\ collided = FALSE

\* Some other session is inside a callback, or inside the release that the
\* last unsubscribe() performs.
OtherActive(s) == \E t \in Sessions \ {s} : stage[t] \notin Resting
OtherReleasing(s) == \E t \in Sessions \ {s} : stage[t] \in Unsubscribing

Goto(s, to) == stage' = [stage EXCEPT ![s] = to]

----------------------------------------------------------------------------
(* onOpen and subscribe().                                                 *)

\* onOpen with a disallowed Origin: session.close() and return.
Refuse(s) ==
    /\ stage[s] = "away"
    /\ Goto(s, "refused")
    /\ UNCHANGED <<fields, flux, completed, upstream, collided>>

\* subscriberCount.incrementAndGet() == 1
Count(s) ==
    /\ stage[s] = "away"
    /\ subscriberCount' = subscriberCount + 1
    /\ Goto(s, IF subscriberCount' = 1 THEN "first" ELSE "joining")
    /\ collided' = (collided \/ OtherReleasing(s))
    /\ UNCHANGED <<sink, connector, lastConnectionState, flux, completed, upstream>>

\* this.sink = newSink
NewSink(s) ==
    /\ stage[s] = "first"
    /\ \E g \in Generations :
          /\ upstream[g] = "none"
          /\ upstream' = [upstream EXCEPT ![g] = "new"]
          /\ sink' = g
          /\ flux' = [flux EXCEPT ![s] = g]
    /\ Goto(s, "sunk")
    /\ UNCHANGED <<subscriberCount, connector, lastConnectionState, completed, collided>>

\* this.connector = upstream, then attach()
NewConnector(s) ==
    /\ stage[s] = "sunk"
    /\ connector' = flux[s]
    /\ Goto(s, "wired")
    /\ UNCHANGED <<subscriberCount, sink, lastConnectionState, flux, completed, upstream, collided>>

\* emit "connecting" and connect(), which clears the connector's close flag
ConnectUpstream(s) ==
    /\ stage[s] = "wired"
    /\ lastConnectionState' = "connecting"
    /\ upstream' = [upstream EXCEPT ![flux[s]] = "dialing"]
    /\ Goto(s, "joining")
    /\ UNCHANGED <<subscriberCount, sink, connector, flux, completed, collided>>

\* return sink.asFlux(), for a later subscriber behind the last state: whatever
\* sink the field holds by now, a NullPointerException if it is null.
Join(s) ==
    /\ stage[s] = "joining"
    /\ flux' = [flux EXCEPT ![s] = sink]
    /\ Goto(s, IF sink = None THEN "broken" ELSE "attached")
    /\ UNCHANGED <<fields, completed, upstream, collided>>

----------------------------------------------------------------------------
(* onClose and unsubscribe().  The channel ends because the browser left,  *)
(* because the sink completed and the session was closed, or because       *)
(* onOpen refused it or threw; onClose is the same for all of them.        *)

\* Mutant: the upstream is released only below zero subscribers.
UncountLate(s) ==
    /\ stage[s] \in {"attached", "broken", "refused"}
    /\ subscriberCount' = subscriberCount - 1
    /\ flux' = [flux EXCEPT ![s] = None]
    /\ Goto(s, IF subscriberCount' < 0 THEN "zero" ELSE "gone")
    /\ collided' = (collided \/ OtherReleasing(s) \/ (subscriberCount' < 0 /\ OtherActive(s)))
    /\ UNCHANGED <<sink, connector, lastConnectionState, completed, upstream>>

\* sub.dispose() and subscriberCount.decrementAndGet()
Uncount(s) ==
    /\ stage[s] \in {"attached", "broken", "refused"}
    /\ subscriberCount' = subscriberCount - 1
    /\ flux' = [flux EXCEPT ![s] = None]
    /\ Goto(s, IF subscriberCount' <= 0 THEN "zero" ELSE "gone")
    /\ collided' = (collided \/ OtherReleasing(s) \/ (subscriberCount' <= 0 /\ OtherActive(s)))
    /\ UNCHANGED <<sink, connector, lastConnectionState, completed, upstream>>

\* subscriberCount.set(0)
Zero(s) ==
    /\ stage[s] = "zero"
    /\ subscriberCount' = 0
    /\ Goto(s, "drop")
    /\ UNCHANGED <<sink, connector, lastConnectionState, flux, completed, upstream, collided>>

\* c = connector
ReadConnector(s) ==
    /\ stage[s] = "drop"
    /\ flux' = [flux EXCEPT ![s] = connector]
    /\ Goto(s, "dropping")
    /\ UNCHANGED <<fields, completed, upstream, collided>>

\* Mutant: the connector is dropped without close().
DropConnectorOpen(s) ==
    /\ stage[s] = "dropping"
    /\ connector' = IF flux[s] = None THEN connector ELSE None
    /\ Goto(s, "complete")
    /\ UNCHANGED <<subscriberCount, sink, lastConnectionState, flux, completed, upstream, collided>>

\* if (c != null) { connector = null; c.close(); }
DropConnector(s) ==
    /\ stage[s] = "dropping"
    /\ connector' = IF flux[s] = None THEN connector ELSE None
    /\ upstream' = [g \in Generations |->
                       IF g = flux[s] /\ upstream[g] \in Held
                       THEN "closing" ELSE upstream[g]]
    /\ Goto(s, "complete")
    /\ UNCHANGED <<subscriberCount, sink, lastConnectionState, flux, completed, collided>>

\* s = sink
ReadSink(s) ==
    /\ stage[s] = "complete"
    /\ flux' = [flux EXCEPT ![s] = sink]
    /\ Goto(s, "completing")
    /\ UNCHANGED <<fields, completed, upstream, collided>>

\* Mutant: the sink is completed and the field keeps it.
CompleteSinkKept(s) ==
    /\ stage[s] = "completing"
    /\ completed' = completed \cup ({flux[s]} \ {None})
    /\ flux' = [flux EXCEPT ![s] = None]
    /\ Goto(s, "forget")
    /\ UNCHANGED <<fields, upstream, collided>>

\* Mutant: the sink is dropped without tryEmitComplete().
DropSinkOpen(s) ==
    /\ stage[s] = "completing"
    /\ sink' = IF flux[s] = None THEN sink ELSE None
    /\ flux' = [flux EXCEPT ![s] = None]
    /\ Goto(s, "forget")
    /\ UNCHANGED <<subscriberCount, connector, lastConnectionState, completed, upstream, collided>>

\* if (s != null) { sink = null; s.tryEmitComplete(); }
CompleteSink(s) ==
    /\ stage[s] = "completing"
    /\ sink' = IF flux[s] = None THEN sink ELSE None
    /\ completed' = completed \cup ({flux[s]} \ {None})
    /\ flux' = [flux EXCEPT ![s] = None]
    /\ Goto(s, "forget")
    /\ UNCHANGED <<subscriberCount, connector, lastConnectionState, upstream, collided>>

\* Mutant: the state is nulled instead of reset.
ForgetToNull(s) ==
    /\ stage[s] = "forget"
    /\ lastConnectionState' = None
    /\ Goto(s, "gone")
    /\ UNCHANGED <<subscriberCount, sink, connector, flux, completed, upstream, collided>>

Forget(s) ==
    /\ stage[s] = "forget"
    /\ lastConnectionState' = "disconnected"
    /\ Goto(s, "gone")
    /\ UNCHANGED <<subscriberCount, sink, connector, flux, completed, upstream, collided>>

----------------------------------------------------------------------------
(* The connector's callbacks.                                              *)

\* A login was accepted: the first one, that of a reconnect, or one answered
\* after close(); emitAndTrackState does not ask which connector it is from.
Connected(g) ==
    /\ upstream[g] \in {"dialing", "online", "ending", "closing"}
    /\ lastConnectionState' = "connected"
    /\ upstream' = [upstream EXCEPT ![g] = IF @ = "dialing" THEN "online" ELSE @]
    /\ UNCHANGED <<subscriberCount, sink, connector, stage, flux, completed, collided>>

\* connect() failed: the error goes to this generation's sink, which ends.
ConnectFails(g) ==
    /\ upstream[g] = "dialing"
    /\ upstream' = [upstream EXCEPT ![g] = "failed"]
    /\ completed' = completed \cup {g}
    /\ UNCHANGED <<fields, stage, flux, collided>>

\* The connector closes itself: the account is banned, or its session was taken
\* over and no relogin brought it back.  The hub's fields still name it.
EndsItself(g) ==
    /\ upstream[g] \in {"dialing", "online"}
    /\ upstream' = [upstream EXCEPT ![g] = "ending"]
    /\ UNCHANGED <<fields, stage, flux, completed, collided>>

\* The socket of a closed connector is gone: the disconnect listener runs.
Disconnected(g) ==
    /\ upstream[g] \in {"ending", "closing"}
    /\ upstream' = [upstream EXCEPT ![g] = "closed"]
    /\ completed' = completed \cup {g}
    /\ UNCHANGED <<fields, stage, flux, collided>>

----------------------------------------------------------------------------
Handler(s) ==
    \/ NewSink(s)
    \/ NewConnector(s)
    \/ ConnectUpstream(s)
    \/ Join(s)
    \/ Zero(s)
    \/ ReadConnector(s)
    \/ DropConnector(s)
    \/ ReadSink(s)
    \/ CompleteSink(s)
    \/ Forget(s)

Next ==
    \/ \E s \in Sessions : Refuse(s) \/ Count(s) \/ Uncount(s) \/ Handler(s)
    \/ \E g \in Generations :
          Connected(g) \/ ConnectFails(g) \/ EndsItself(g) \/ Disconnected(g)

Spec == Init /\ [][Next]_vars

----------------------------------------------------------------------------
(* Properties.                                                             *)

TypeOK ==
    /\ subscriberCount \in Int
    /\ sink \in Generations \cup {None}
    /\ connector \in Generations \cup {None}
    /\ lastConnectionState \in {"disconnected", "connecting", "connected"}
    /\ stage \in [Sessions -> Resting \cup Subscribing \cup Unsubscribing]
    /\ flux \in [Sessions -> Generations \cup {None}]
    /\ completed \in SUBSET Generations
    /\ upstream \in [Generations -> Upstreams]
    /\ collided \in BOOLEAN

\* No callback of any session is under way.
AtRest == \A s \in Sessions : stage[s] \in Resting

\* Every session has left, or has not come.
AllAway == \A s \in Sessions : stage[s] \in {"away", "gone"}

\* "there is at most one upstream connection at any time": never two connectors
\* that are connecting or connected and that close() has not reached.  The code
\* breaks this one and the next (README, section 6).
AtMostOneUpstream ==
    \A g, h \in Generations :
        upstream[g] \in {"dialing", "online"} /\ upstream[h] \in {"dialing", "online"} => g = h

\* "the last to leave closes it": once no session is left, no connector is.
LastLeaverCloses == AllAway => \A g \in Generations : upstream[g] \notin Held

\* However subscribe() and unsubscribe() interleave, and although refused
\* sessions are subtracted without having been added: once every session has
\* left, the counter and both fields are back where they began, so the next
\* session is the first and opens an upstream of its own.
FieldsReleased == AllAway => subscriberCount = 0 /\ sink = None /\ connector = None

\* Concurrent sessions endanger the upstream only through a release: until
\* one has run beside another session's callback there is one upstream, ...
OneUpstreamUnlessCollided == collided \/ AtMostOneUpstream

\* ... the last to leave closes it, ...
ClosedUnlessCollided == collided \/ LastLeaverCloses

\* ... and a session listens to the sink that the current connector feeds, or
\* to a completed one and so is being closed.
ServedUnlessCollided ==
    ~collided /\ AtRest => \A s \in Sessions :
        stage[s] = "attached" =>
            \/ flux[s] \in completed
            \/ flux[s] = sink /\ connector = sink /\ upstream[sink] \in Held \cup {"ending"}
=============================================================================
