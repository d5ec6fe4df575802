----------------------------- MODULE RoomGhosts -----------------------------
(***************************************************************************)
(* Ghost publishers of a room: the table ghost_publisher, the start and    *)
(* stop requests of UserController, and the ghosts on stage in one client, *)
(* the Watcher's.  Sessions, sinks and emitSynthetic are those of module   *)
(* RoomHub; nothing orders the requests of one user.  The cleanup job      *)
(* deletes no row (module CleanupJobs).                                    *)
(***************************************************************************)
EXTENDS RoomHub

CONSTANTS
    Watcher,   \* the session whose client is followed
    Ghosts     \* users who ghost-publish

ASSUME GhostAssumption == Watcher \in Sessions

VARIABLES
    publishing,  \* table ghost_publisher: users with a row for the room
    call,        \* HTTP thread -> the request it serves
    replay,      \* liveEmits of the Watcher's subscribe()
    seen,        \* ghosts on stage in the Watcher's client
    entitled     \* history: ghosts it was to be shown on joining and that have
                 \* not stopped since

client == <<replay, seen, entitled>>
ghosts == <<publishing, call, client>>
ghostVars == <<vars, ghosts>>

NoCall == [kind |-> "none", user |-> None]
Calls == {NoCall} \cup [kind : {"start", "stop"}, user : Ghosts]

GhostInit ==
    /\ Init
    /\ publishing = {}
    /\ call = [r \in Requests |-> NoCall]
    /\ replay = {} /\ seen = {} /\ entitled = {}

\* The Watcher's client receives what the room's sink emits.
Watching == stage[Watcher] \in {"captions", "attached"} /\ flux[Watcher] \notin ended

\* A stop request of u has deleted the row and may still emit.
Stopping(u) == \E r \in Requests : call[r] = [kind |-> "stop", user |-> u]

----------------------------------------------------------------------------
(* The Watcher's session.                                                  *)

\* listByRoom(cname)
ListPublishers ==
    /\ ListGhosts(Watcher)
    /\ replay' = publishing
    /\ entitled' = {u \in publishing : ~ Stopping(u)}
    /\ UNCHANGED <<publishing, call, seen>>

\* Mutant: the ghosts are not replayed to a late joiner.
ReplayNothing ==
    /\ Attach(Watcher)
    /\ UNCHANGED ghosts

\* Flux.concat(fromIterable(liveEmits), ..., sink): a stage_join per ghost.
Replay ==
    /\ Attach(Watcher)
    /\ seen' = replay
    /\ UNCHANGED <<publishing, call, replay, entitled>>

\* The client's page is gone.
Leave ==
    /\ UnsubscribeCc(Watcher)
    /\ replay' = {} /\ seen' = {} /\ entitled' = {}
    /\ UNCHANGED <<publishing, call>>

----------------------------------------------------------------------------
(* UserController.                                                         *)

\* The request goes on to emitSynthetic.
Begin(r, kind, u) ==
    /\ call[r] = NoCall
    /\ call' = [call EXCEPT ![r] = [kind |-> kind, user |-> u]]
    /\ UNCHANGED vars

\* INSERT OR IGNORE: a user who has a row already gets no event.
StartGhost(r, u) ==
    /\ u \notin publishing
    /\ publishing' = publishing \cup {u}
    /\ Begin(r, "start", u)
    /\ UNCHANGED client

\* DELETE: a user without a row gets no event.
StopGhost(r, u) ==
    /\ u \in publishing
    /\ publishing' = publishing \ {u}
    /\ entitled' = entitled \ {u}
    /\ Begin(r, "stop", u)
    /\ UNCHANGED <<replay, seen>>

\* emitSynthetic's test of the counter
Test(r) ==
    /\ call[r] # NoCall
    /\ TestSubscribers(r)
    /\ UNCHANGED ghosts

\* No event: nobody is subscribed, touchLastSeen throws (the row stays), or the
\* counter was removed between the two lookups of the test.
Drop(r) ==
    /\ \/ call[r] # NoCall /\ r \notin tested /\ ~ HasSubscribers /\ UNCHANGED vars
       \/ SyntheticThrows(r) /\ (call[r].kind = "start" \/ counts = None)
    /\ call' = [call EXCEPT ![r] = NoCall]
    /\ UNCHANGED <<publishing, client>>

\* Another thread may be emitting on the sink: tryEmitNext then fails with
\* FAIL_NON_SERIALIZED, which emitWithRevisionBump ignores.
Contended(r) ==
    \/ \E q \in tested : q # r
    \/ \E g \in Connectors : upstream[g] \in {"dialing", "online", "closing"}

\* The synthetic stage_join or stage_quit.
Emit(r) ==
    /\ EmitSynthetic(r)
    /\ call' = [call EXCEPT ![r] = NoCall]
    /\ IF Watching /\ flux[Watcher] = sink'
       THEN \/ seen' = IF call[r].kind = "start"
                       THEN seen \cup {call[r].user} ELSE seen \ {call[r].user}
            \/ Contended(r) /\ UNCHANGED seen
       ELSE UNCHANGED seen
    /\ UNCHANGED <<publishing, replay, entitled>>

----------------------------------------------------------------------------
\* The steps of the hub that do not concern the ghosts.
HubStep ==
    \/ \E s \in Sessions :
          \/ Refuse(s) \/ Unsubscribe(s)
          \/ FindCounter(s) \/ Count(s) \/ PutConnector(s) \/ AttachListeners(s) \/ Announce(s)
          \/ ConnectUpstream(s) \/ Join(s) \/ SubscribeCc(s)
    \/ \E s \in Sessions \ {Watcher} : ListGhosts(s) \/ Attach(s) \/ UnsubscribeCc(s)
    \/ \E g \in Connectors : Connected(g) \/ Deliver(g) \/ ConnectFails(g) \/ Disconnected(g)

GhostNext ==
    \/ HubStep /\ UNCHANGED ghosts
    \/ ListPublishers \/ Replay \/ Leave
    \/ \E r \in Requests, u \in Ghosts : StartGhost(r, u) \/ StopGhost(r, u)
    \/ \E r \in Requests : Test(r) \/ Drop(r) \/ Emit(r)

GhostSpec == GhostInit /\ [][GhostNext]_ghostVars

----------------------------------------------------------------------------
(* Properties.                                                             *)

GhostTypeOK ==
    /\ TypeOK
    /\ publishing \in SUBSET Ghosts
    /\ call \in [Requests -> Calls]
    /\ replay \in SUBSET Ghosts
    /\ seen \in SUBSET Ghosts
    /\ entitled \in SUBSET Ghosts

\* "re-emit a synthetic stage_join for each so they see the current publishers":
\* a client shows every ghost that was publishing when its onOpen listed them,
\* unless a stop request of that ghost was under way then, until the ghost
\* stops - whatever other requests of the same user overlap.
GhostsReplayed == Watching => entitled \subseteq seen

\* "a client that opens the room's WebSocket AFTER this event fired won't see
\* the ghost publisher until the next start/stop toggle re-emits the event".
\* It does see the ghost: README, section 6.
LateJoinerBlind ==
    [][stage[Watcher] = "wired" /\ stage'[Watcher] = "attached" => seen' = {}]_ghostVars

\* stopGhostPublish "synthesizes a stage_quit so receivers stop subscribing to
\* their audio": once no request is under way, no client shows a ghost that
\* has stopped.  Broken: README, section 6.
StoppedGhostLeaves ==
    Watching /\ (\A r \in Requests : call[r] = NoCall) => seen \subseteq publishing
=============================================================================
