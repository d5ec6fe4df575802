------------------------------ MODULE RoomHub ------------------------------
(***************************************************************************)
(* RoomEventSource and RoomSocketController for one room: browser sessions *)
(* on /ws/ht/{cname} share one LiveHub connector, the room's sink and an   *)
(* optional captions (CC) sink.  Every map of the source is keyed by       *)
(* cname, so rooms do not interfere.                                       *)
(*                                                                         *)
(* The source takes no lock and Netty spreads the sessions' channels over  *)
(* several event loops: the callbacks of one session follow each other,    *)
(* those of different sessions interleave, map operation by map operation, *)
(* with each other, with the connectors' listener threads and with the     *)
(* HTTP threads that emit synthetic events.  A connector is used by its    *)
(* contract (module Upstream).  Modules RoomRoster and RoomGhosts add the  *)
(* audience revision and the ghost publishers.                             *)
(*                                                                         *)
(* A counter of the map counts is an object: subscribe() and unsubscribe() *)
(* look it up in one step and change it in another, when the map may hold  *)
(* another one or none.  Removing a sink and completing it are one step,   *)
(* since nobody can obtain a sink that is no longer in the map.  A session *)
(* that has ended may open again, so behaviours are unbounded.             *)
(***************************************************************************)
EXTENDS Integers, FiniteSets

CONSTANTS
    Sessions,     \* browser sessions
    CcSessions,   \* those that ask for captions, ?cc=1
    Requests,     \* HTTP threads that may be inside emitSynthetic
    Counters,     \* bound: names for the AtomicIntegers in use at one time
    Connectors,   \* bound: names for the connectors in use at one time
    Sinks,        \* bound: names for the room sinks in use at one time
    CcSinks,      \* bound: names for the CC sinks in use at one time
    None          \* no entry for the room in a map

ASSUME RoomAssumption ==
    /\ CcSessions \subseteq Sessions
    /\ None \notin Counters \cup Connectors \cup Sinks \cup CcSinks
    /\ None \notin Int
    /\ Sinks \cap CcSinks = {}

VARIABLES
    counts,               \* the room's entry of counts: a counter, or None
    value,                \* counter -> its value
    connector,            \* the room's entry of connectors
    sink,                 \* the room's entry of sinks
    ccSink,               \* the room's entry of ccSinks
    ccCounts,             \* the room's CC count, or None
    lastConnectionState,  \* the room's entry, or None
    stage,                \* session -> where its controller callbacks stand
    ref,                  \* session -> counter that its callback looked up last
    mine,                 \* session -> connector that its callback has in a local
    flux,                 \* session -> room sink it listens to
    ccFlux,               \* session -> CC sink it listens to
    ended,                \* completed sinks of both kinds
    upstream,             \* connector -> its state
    feeds,                \* connector -> sink that its disconnect listener completes
    tested,               \* HTTP threads that passed emitSynthetic's test
    collided              \* history: a release has run beside another callback

cc == <<ccSink, ccCounts, ccFlux>>
counter == <<counts, value, ref>>
wiring == <<connector, mine, upstream, feeds>>
vars == <<counter, wiring, cc, sink, lastConnectionState, stage, flux, ended, tested, collided>>

\* Stages between two callbacks of a session's channel; the onOpen of a "broken"
\* session refused it or threw.
Resting == {"away", "broken", "attached"}

\* Stages of onOpen, of unsubscribeCc() and of unsubscribe() in onClose.
Subscribing == {"listed", "counting", "first", "put", "sunk", "announced", "joining", "wired", "captions"}
LeavingCc == {"cctest", "ccagain", "ccdrop"}
Releasing == {"remove", "drop", "close", "sink", "forget", "cc"}
Unsubscribing == {"uncount", "decrement"} \cup Releasing

\* Connectors that close() has not reached.
Held == {"new", "dialing", "online", "failed"}

Init ==
    /\ counts = None /\ connector = None /\ sink = None
    /\ ccSink = None /\ ccCounts = None /\ lastConnectionState = None
    /\ value = [n \in Counters |-> 0]
    /\ stage = [s \in Sessions |-> "away"]
    /\ ref = [s \in Sessions |-> None]
    /\ mine = [s \in Sessions |-> None]
    /\ flux = [s \in Sessions |-> None]
    /\ ccFlux = [s \in Sessions |-> None]
    /\ ended = {}
    /\ upstream = [g \in Connectors |-> "none"]
    /\ feeds = [g \in Connectors |-> None]
    /\ tested = {}
    /\ collided = FALSE

----------------------------------------------------------------------------
(* Building blocks.                                                        *)

Goto(s, to) == stage' = [stage EXCEPT ![s] = to]

\* Some other session is inside a callback that uses the maps, or inside the
\* release that the last unsubscribe() performs.
OtherActive(s) == \E t \in Sessions \ {s} : stage[t] \notin Resting \cup {"listed"}
OtherReleasing(s) == \E t \in Sessions \ {s} : stage[t] \in Releasing

\* Names that nothing refers to.
FreeCounters == {n \in Counters : n # counts /\ \A s \in Sessions : ref[s] # n}
FreeConnectors == {g \in Connectors : upstream[g] = "none" /\ \A s \in Sessions : mine[s] # g}
FreeSinks == {k \in Sinks : /\ k # sink
                            /\ \A s \in Sessions : flux[s] # k
                            /\ \A g \in Connectors : feeds[g] # k}
FreeCcSinks == {k \in CcSinks : k # ccSink /\ \A s \in Sessions : ccFlux[s] # k}

\* computeIfAbsent on sinks: the sink k is the room's, created if need be.
SinkFor(k) ==
    IF sink = None
    THEN k \in FreeSinks /\ sink' = k /\ ended' = ended \ {k}
    ELSE k = sink /\ UNCHANGED <<sink, ended>>

Complete(k) == ended' = ended \cup ({k} \ {None})

HasSubscribers == counts # None /\ value[counts] > 0

----------------------------------------------------------------------------
(* onOpen: subscribe(), then subscribeCc() if the session asked for it.    *)

\* A disallowed Origin: session.close() and return; onClose follows.
Refuse(s) ==
    /\ stage[s] = "away"
    /\ Goto(s, "broken")
    /\ UNCHANGED <<counter, wiring, cc, sink, lastConnectionState, flux, ended, tested, collided>>

\* listByRoom(cname), an IllegalStateException if the statement fails.
ListGhosts(s) ==
    /\ stage[s] = "away"
    /\ \/ Goto(s, "listed")
       \/ Goto(s, "broken")
    /\ UNCHANGED <<counter, wiring, cc, sink, lastConnectionState, flux, ended, tested, collided>>

\* counts.computeIfAbsent(cname, ...)
FindCounter(s) ==
    /\ stage[s] = "listed"
    /\ \E n \in Counters :
          /\ IF counts = None
             THEN n \in FreeCounters /\ counts' = n /\ value' = [value EXCEPT ![n] = 0]
             ELSE n = counts /\ UNCHANGED <<counts, value>>
          /\ ref' = [ref EXCEPT ![s] = n]
    /\ Goto(s, "counting")
    /\ collided' = (collided \/ OtherReleasing(s))
    /\ UNCHANGED <<wiring, cc, sink, lastConnectionState, flux, ended, tested>>

\* .incrementAndGet() == 1
Count(s) ==
    /\ stage[s] = "counting"
    /\ value' = [value EXCEPT ![ref[s]] = @ + 1]
    /\ Goto(s, IF value[ref[s]] + 1 = 1 THEN "first" ELSE "joining")
    /\ UNCHANGED <<counts, ref, wiring, cc, sink, lastConnectionState, flux, ended, tested, collided>>

\* connectors.put(cname, upstream)
PutConnector(s) ==
    /\ stage[s] = "first"
    /\ \E g \in FreeConnectors :
          /\ connector' = g
          /\ mine' = [mine EXCEPT ![s] = g]
          /\ upstream' = [upstream EXCEPT ![g] = "new"]
    /\ Goto(s, "put")
    /\ UNCHANGED <<counter, feeds, cc, sink, lastConnectionState, flux, ended, tested, collided>>

\* sink = sinkFor(cname), then attach() with listeners that capture it
AttachListeners(s) ==
    /\ stage[s] = "put"
    /\ \E k \in Sinks :
          /\ SinkFor(k)
          /\ feeds' = [feeds EXCEPT ![mine[s]] = k]
          /\ flux' = [flux EXCEPT ![s] = k]
    /\ Goto(s, "sunk")
    /\ UNCHANGED <<counter, connector, mine, upstream, cc, lastConnectionState, tested, collided>>

\* emitAndTrackState("connecting")
Announce(s) ==
    /\ stage[s] = "sunk"
    /\ lastConnectionState' = "connecting"
    /\ \E k \in Sinks : SinkFor(k)
    /\ Goto(s, "announced")
    /\ UNCHANGED <<counter, wiring, cc, flux, tested, collided>>

\* connect(), which clears the connector's close flag; without a user id in
\* the token it throws before that, and so does onOpen.
ConnectUpstream(s) ==
    /\ stage[s] = "announced"
    /\ mine' = [mine EXCEPT ![s] = None]
    /\ \/ /\ upstream' = [upstream EXCEPT ![mine[s]] = "dialing"]
          /\ Goto(s, "wired")
          /\ UNCHANGED flux
       \/ /\ flux' = [flux EXCEPT ![s] = None]
          /\ Goto(s, "broken")
          /\ UNCHANGED upstream
    /\ UNCHANGED <<counter, connector, feeds, cc, sink, lastConnectionState, ended, tested, collided>>

\* A later subscriber: the last state, then the room's sink.
Join(s) ==
    /\ stage[s] = "joining"
    /\ \E k \in Sinks : SinkFor(k) /\ flux' = [flux EXCEPT ![s] = k]
    /\ Goto(s, "wired")
    /\ UNCHANGED <<counter, wiring, cc, lastConnectionState, tested, collided>>

\* The controller subscribes to the flux.
Attach(s) ==
    /\ stage[s] = "wired"
    /\ Goto(s, IF s \in CcSessions THEN "captions" ELSE "attached")
    /\ UNCHANGED <<counter, wiring, cc, sink, lastConnectionState, flux, ended, tested, collided>>

\* subscribeCc(), and the controller subscribes to it.  ccCounts decides only
\* whether unsubscribeCc() drops the CC sink of a room without subscribers; its
\* lookups and updates are one step.
SubscribeCc(s) ==
    /\ stage[s] = "captions"
    /\ ccCounts' = IF ccCounts = None THEN 1 ELSE ccCounts + 1
    /\ \E k \in CcSinks :
          /\ IF ccSink = None
             THEN k \in FreeCcSinks /\ ccSink' = k /\ ended' = ended \ {k}
             ELSE k = ccSink /\ UNCHANGED <<ccSink, ended>>
          /\ ccFlux' = [ccFlux EXCEPT ![s] = k]
    /\ Goto(s, "attached")
    /\ UNCHANGED <<counter, wiring, sink, lastConnectionState, flux, tested, collided>>

----------------------------------------------------------------------------
(* onClose: unsubscribeCc() if the session had captions, then              *)
(* unsubscribe().  The channel ends because the browser left, because the  *)
(* sink completed and the session was closed, or because onOpen refused it *)
(* or threw.                                                               *)

\* Both subscriptions are disposed, the CC one is uncounted.
UnsubscribeCc(s) ==
    /\ stage[s] \in {"attached", "broken"}
    /\ flux' = [flux EXCEPT ![s] = None]
    /\ ccFlux' = [ccFlux EXCEPT ![s] = None]
    /\ IF ccFlux[s] = None \/ ccCounts = None
       THEN Goto(s, "uncount") /\ UNCHANGED ccCounts
       ELSE /\ ccCounts' = IF ccCounts - 1 <= 0 THEN None ELSE ccCounts - 1
            /\ Goto(s, IF ccCounts - 1 <= 0 THEN "cctest" ELSE "uncount")
    /\ collided' = (collided \/ OtherReleasing(s))
    /\ UNCHANGED <<counter, wiring, ccSink, sink, lastConnectionState, ended, tested>>

\* counts.get(cname) == null
TestCounter(s) ==
    /\ stage[s] = "cctest"
    /\ Goto(s, IF counts = None THEN "ccdrop" ELSE "ccagain")
    /\ UNCHANGED <<counter, wiring, cc, sink, lastConnectionState, flux, ended, tested, collided>>

\* || counts.get(cname).get() <= 0, a NullPointerException if the entry has been
\* removed since: onClose ends there.
TestCount(s) ==
    /\ stage[s] = "ccagain"
    /\ IF counts = None
       THEN Goto(s, "away") /\ ref' = [ref EXCEPT ![s] = None]
       ELSE Goto(s, IF HasSubscribers THEN "uncount" ELSE "ccdrop") /\ UNCHANGED ref
    /\ UNCHANGED <<counts, value, wiring, cc, sink, lastConnectionState, flux, ended, tested, collided>>

DropCcSink(s) ==
    /\ stage[s] = "ccdrop"
    /\ ccSink' = None
    /\ Complete(ccSink)
    /\ Goto(s, "uncount")
    /\ UNCHANGED <<counter, wiring, ccCounts, ccFlux, sink, lastConnectionState, flux, tested, collided>>

\* counts.get(cname): a room without a counter has nothing to tear down.
ReadCounter(s) ==
    /\ stage[s] = "uncount"
    /\ ref' = [ref EXCEPT ![s] = counts]
    /\ Goto(s, IF counts = None THEN "away" ELSE "decrement")
    /\ UNCHANGED <<counts, value, wiring, cc, sink, lastConnectionState, flux, ended, tested, collided>>

\* count.decrementAndGet()
Uncount(s) ==
    /\ stage[s] = "decrement"
    /\ value' = [value EXCEPT ![ref[s]] = @ - 1]
    /\ IF value[ref[s]] - 1 <= 0
       THEN Goto(s, "remove") /\ collided' = (collided \/ OtherActive(s)) /\ UNCHANGED ref
       ELSE Goto(s, "away") /\ ref' = [ref EXCEPT ![s] = None] /\ UNCHANGED collided
    /\ UNCHANGED <<counts, wiring, cc, sink, lastConnectionState, flux, ended, tested>>

\* Mutant: a counter that was incremented again meanwhile is kept.
RemoveCounterAtZero(s) ==
    /\ stage[s] = "remove"
    /\ counts' = IF counts = ref[s] /\ value[ref[s]] = 0 THEN None ELSE counts
    /\ ref' = [ref EXCEPT ![s] = None]
    /\ Goto(s, "drop")
    /\ UNCHANGED <<value, wiring, cc, sink, lastConnectionState, flux, ended, tested, collided>>

\* counts.remove(cname, count)
RemoveCounter(s) ==
    /\ stage[s] = "remove"
    /\ counts' = IF counts = ref[s] THEN None ELSE counts
    /\ ref' = [ref EXCEPT ![s] = None]
    /\ Goto(s, "drop")
    /\ UNCHANGED <<value, wiring, cc, sink, lastConnectionState, flux, ended, tested, collided>>

\* connectors.remove(cname)
RemoveConnector(s) ==
    /\ stage[s] = "drop"
    /\ mine' = [mine EXCEPT ![s] = connector]
    /\ connector' = None
    /\ Goto(s, "close")
    /\ UNCHANGED <<counter, upstream, feeds, cc, sink, lastConnectionState, flux, ended, tested, collided>>

\* Mutant: the connector is dropped without close().
CloseNothing(s) ==
    /\ stage[s] = "close"
    /\ mine' = [mine EXCEPT ![s] = None]
    /\ Goto(s, "sink")
    /\ UNCHANGED <<counter, connector, upstream, feeds, cc, sink, lastConnectionState, flux, ended, tested, collided>>

\* upstream.close(): only a connector with a socket, or about to have one, is
\* heard of again.
CloseUpstream(s) ==
    /\ stage[s] = "close"
    /\ mine' = [mine EXCEPT ![s] = None]
    /\ IF mine[s] = None
       THEN UNCHANGED <<upstream, feeds>>
       ELSE LET socket == upstream[mine[s]] \in {"dialing", "online", "closing"}
            IN  /\ upstream' = [upstream EXCEPT ![mine[s]] = IF socket THEN "closing" ELSE "none"]
                /\ feeds' = [feeds EXCEPT ![mine[s]] = IF socket THEN @ ELSE None]
    /\ Goto(s, "sink")
    /\ UNCHANGED <<counter, connector, cc, sink, lastConnectionState, flux, ended, tested, collided>>

\* Mutant: the room's sink is removed without completing it.
DropSinkOpen(s) ==
    /\ stage[s] = "sink"
    /\ sink' = None
    /\ Goto(s, "forget")
    /\ UNCHANGED <<counter, wiring, cc, lastConnectionState, flux, ended, tested, collided>>

DropSink(s) ==
    /\ stage[s] = "sink"
    /\ sink' = None
    /\ Complete(sink)
    /\ Goto(s, "forget")
    /\ UNCHANGED <<counter, wiring, cc, lastConnectionState, flux, tested, collided>>

\* audienceRevisions.remove(cname), which module RoomRoster adds, and
\* lastConnectionState.remove(cname)
Forget(s) ==
    /\ stage[s] = "forget"
    /\ lastConnectionState' = None
    /\ Goto(s, "cc")
    /\ UNCHANGED <<counter, wiring, cc, sink, flux, ended, tested, collided>>

DropCc(s) ==
    /\ stage[s] = "cc"
    /\ ccSink' = None
    /\ ccCounts' = None
    /\ Complete(ccSink)
    /\ Goto(s, "away")
    /\ UNCHANGED <<counter, wiring, ccFlux, sink, lastConnectionState, flux, tested, collided>>

----------------------------------------------------------------------------
(* Callbacks of a connector, late ones of a closing connector included.    *)

\* Mutant: the announcement is emitted but not tracked.
ConnectedUntracked(g) ==
    /\ upstream[g] \in {"dialing", "closing"}
    /\ \E k \in Sinks : SinkFor(k)
    /\ upstream' = [upstream EXCEPT ![g] = IF @ = "dialing" THEN "online" ELSE @]
    /\ UNCHANGED <<counter, connector, mine, feeds, cc, lastConnectionState, stage, flux, tested, collided>>

\* The first heartbeat_sec frame after connect().
Connected(g) ==
    /\ upstream[g] \in {"dialing", "closing"}
    /\ lastConnectionState' = "connected"
    /\ \E k \in Sinks : SinkFor(k)
    /\ upstream' = [upstream EXCEPT ![g] = IF @ = "dialing" THEN "online" ELSE @]
    /\ UNCHANGED <<counter, connector, mine, feeds, cc, stage, flux, tested, collided>>

\* Any other event from upstream: frames need not wait for the announcement.
Deliver(g) ==
    /\ upstream[g] \in {"dialing", "online", "closing"}
    /\ \E k \in Sinks : SinkFor(k)
    /\ UNCHANGED <<counter, wiring, cc, lastConnectionState, stage, flux, tested, collided>>

\* connect() failed, before or after close(): its sink gets the error and
\* completes.  Nothing more is heard of the connector.
ConnectFails(g) ==
    /\ upstream[g] \in {"dialing", "closing"}
    /\ upstream' = [upstream EXCEPT ![g] = IF @ = "closing" THEN "none" ELSE "failed"]
    /\ feeds' = [feeds EXCEPT ![g] = IF upstream[g] = "closing" THEN None ELSE @]
    /\ Complete(feeds[g])
    /\ UNCHANGED <<counter, connector, mine, cc, sink, lastConnectionState, stage, flux, tested, collided>>

\* The disconnect listener of a closed connector: its own room sink, and the
\* CC sink that the room has by now.
Disconnected(g) ==
    /\ upstream[g] = "closing"
    /\ upstream' = [upstream EXCEPT ![g] = "none"]
    /\ feeds' = [feeds EXCEPT ![g] = None]
    /\ ccSink' = None
    /\ ended' = ended \cup ({feeds[g], ccSink} \ {None})
    /\ UNCHANGED <<counter, connector, mine, ccCounts, ccFlux, sink, lastConnectionState,
                   stage, flux, tested, collided>>

----------------------------------------------------------------------------
(* emitSynthetic, on HTTP threads: kick, ghost start and ghost stop.       *)

\* A room nobody is subscribed to drops the event.
TestSubscribers(r) ==
    /\ r \notin tested
    /\ HasSubscribers
    /\ tested' = tested \cup {r}
    /\ UNCHANGED <<counter, wiring, cc, sink, lastConnectionState, stage, flux, ended, collided>>

\* touchLastSeen throws, or the counter was removed between the two lookups of
\* the test: no event.
SyntheticThrows(r) ==
    /\ r \in tested
    /\ tested' = tested \ {r}
    /\ UNCHANGED <<counter, wiring, cc, sink, lastConnectionState, stage, flux, ended, collided>>

EmitSynthetic(r) ==
    /\ r \in tested
    /\ tested' = tested \ {r}
    /\ \E k \in Sinks : SinkFor(k)
    /\ UNCHANGED <<counter, wiring, cc, lastConnectionState, stage, flux, collided>>

----------------------------------------------------------------------------
Subscribe(s) ==
    \/ FindCounter(s) \/ Count(s) \/ PutConnector(s) \/ AttachListeners(s) \/ Announce(s)
    \/ ConnectUpstream(s) \/ Join(s) \/ Attach(s) \/ SubscribeCc(s)

Unsubscribe(s) ==
    \/ TestCounter(s) \/ TestCount(s) \/ DropCcSink(s)
    \/ ReadCounter(s) \/ Uncount(s) \/ RemoveCounter(s) \/ RemoveConnector(s)
    \/ CloseUpstream(s) \/ DropSink(s) \/ Forget(s) \/ DropCc(s)

Next ==
    \/ \E s \in Sessions :
          Refuse(s) \/ ListGhosts(s) \/ UnsubscribeCc(s) \/ Subscribe(s) \/ Unsubscribe(s)
    \/ \E g \in Connectors : Connected(g) \/ Deliver(g) \/ ConnectFails(g) \/ Disconnected(g)
    \/ \E r \in Requests : TestSubscribers(r) \/ SyntheticThrows(r) \/ EmitSynthetic(r)

Spec == Init /\ [][Next]_vars

----------------------------------------------------------------------------
(* Properties.                                                             *)

TypeOK ==
    /\ counts \in Counters \cup {None}
    /\ value \in [Counters -> Int]
    /\ connector \in Connectors \cup {None}
    /\ sink \in Sinks \cup {None}
    /\ ccSink \in CcSinks \cup {None}
    /\ ccCounts \in Nat \cup {None}
    /\ lastConnectionState \in {"connecting", "connected", None}
    /\ stage \in [Sessions -> Resting \cup Subscribing \cup LeavingCc \cup Unsubscribing]
    /\ ref \in [Sessions -> Counters \cup {None}]
    /\ mine \in [Sessions -> Connectors \cup {None}]
    /\ flux \in [Sessions -> Sinks \cup {None}]
    /\ ccFlux \in [Sessions -> CcSinks \cup {None}]
    /\ ended \in SUBSET (Sinks \cup CcSinks)
    /\ upstream \in [Connectors -> {"none", "closing"} \cup Held]
    /\ feeds \in [Connectors -> Sinks \cup {None}]
    /\ tested \in SUBSET Requests
    /\ collided \in BOOLEAN

\* No callback of any session is under way.
AtRest == \A s \in Sessions : stage[s] \in Resting

AllAway == \A s \in Sessions : stage[s] = "away"

\* However subscribe() and unsubscribe() interleave, and although refused
\* sessions and sessions counted elsewhere are subtracted from it: once every
\* session has left, the map has no counter for the room.
CounterReleased == AllAway => counts = None

\* "last leaves closes it": once no session is left, no connector is open that
\* close() has not reached (broken: README, section 6), ...
LastLeaverCloses == AllAway => \A g \in Connectors : upstream[g] \notin {"dialing", "online"}

\* ... nor is one left that never connected, or an entry of the room's maps.
RoomReleased ==
    AllAway =>
        /\ connector = None /\ ccSink = None /\ ccCounts = None
        /\ \A g \in Connectors : upstream[g] \notin Held

\* "a subscriber joining after the upstream is already connected gets the
\* current state immediately": the state kept for it is then "connected".
\* Broken after a collision: README, section 6.
OnlineIsKnown ==
    connector # None /\ upstream[connector] = "online" => lastConnectionState = "connected"

\* Between callbacks a subscribed session listens to the room's sink, fed by
\* the room's only open connector, or to a sink that has completed, so that
\* the session is being closed.
RoomServed ==
    AtRest => \A s \in Sessions :
        stage[s] = "attached" =>
            \/ flux[s] \in ended
            \/ /\ flux[s] = sink
               /\ connector # None
               /\ feeds[connector] = sink
               /\ \A g \in Connectors : upstream[g] \in Held <=> g = connector

\* Concurrent sessions endanger a room only through a release: until one has
\* run beside another session's callback, the last to leave releases it, ...
ReleasedUnlessCollided == collided \/ RoomReleased

\* ... a late joiner finds the current state, ...
KnownUnlessCollided == collided \/ OnlineIsKnown

\* ... and every subscriber is served, also when a refused session or an
\* earlier connector has miscounted or emitted.
ServedUnlessCollided == collided \/ RoomServed

\* "the room subscriber's upstream keeps producing CC events and we want them
\* delivered": while a session's room stream is open, so are its captions.
\* Broken: README, section 6.
CaptionsDelivered ==
    \A s \in Sessions :
        stage[s] = "attached" /\ flux[s] \notin ended => ccFlux[s] \notin ended
=============================================================================
