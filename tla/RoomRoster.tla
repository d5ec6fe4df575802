----------------------------- MODULE RoomRoster -----------------------------
(***************************************************************************)
(* The audience revision of a room and the client that relies on it: every *)
(* event that changes the roster bumps the revision, audienceReconcile     *)
(* compares it with the one the client has, and the last unsubscribe()     *)
(* forgets it.  Sessions, sinks and emitters are those of module RoomHub;  *)
(* one client is followed, the Watcher's.                                  *)
(*                                                                         *)
(* A room without an entry has revision 0, as has one whose entry is new.  *)
(* An emitter looks the AtomicInteger up in one step and increments it in  *)
(* another, when it may no longer be in the map.                           *)
(***************************************************************************)
EXTENDS RoomHub

CONSTANTS
    Watcher,      \* the session whose client is followed
    MaxRevision   \* bound: audience events between two releases

ASSUME RosterAssumption ==
    /\ Watcher \in Sessions
    /\ MaxRevision \in Nat
    /\ Connectors \cap Requests = {}

VARIABLES
    audienceRevision,  \* value of the room's entry of audienceRevisions
    bump,              \* emitter -> whether it holds the room's AtomicInteger
    known,             \* revision the Watcher's client has, -1 on joining
    poll,              \* revision read by the Watcher's open reconcile request
    drifted,           \* the audience changed since the client's last roster
    overtaken          \* history: a revision was forgotten while an emitter held it

client == <<known, poll, drifted>>
roster == <<audienceRevision, bump, client, overtaken>>
rosterVars == <<vars, roster>>

Emitters == Connectors \cup Requests
NoPoll == -2

RosterInit ==
    /\ Init
    /\ audienceRevision = 0
    /\ bump = [e \in Emitters |-> "idle"]
    /\ known = -1 /\ poll = NoPoll /\ drifted = FALSE
    /\ overtaken = FALSE

\* The Watcher's client receives what the room's sink emits.
Watching == stage[Watcher] \in {"captions", "attached"} /\ flux[Watcher] \notin ended

----------------------------------------------------------------------------
(* bumpAudienceRevision: UserJoin, UserQuit, StageJoin and RoomKick.       *)

\* audienceRevisions.computeIfAbsent(cname, ...), by a connector's listener or
\* by an HTTP thread behind emitSynthetic's test
FindRevision(e) ==
    /\ bump[e] = "idle"
    /\ IF e \in Connectors THEN upstream[e] \in {"dialing", "online", "closing"} ELSE e \in tested
    /\ bump' = [bump EXCEPT ![e] = "held"]
    /\ UNCHANGED <<vars, audienceRevision, client, overtaken>>

\* .incrementAndGet(), of the room's revision or of a forgotten one, and the
\* event is emitted.
BumpAndEmit(e) ==
    /\ bump[e] # "idle"
    /\ bump' = [bump EXCEPT ![e] = "idle"]
    /\ IF e \in Connectors THEN Deliver(e) ELSE EmitSynthetic(e)
    /\ audienceRevision' = audienceRevision + (IF bump[e] = "held" THEN 1 ELSE 0)
    /\ audienceRevision' <= MaxRevision
    /\ drifted' = (drifted \/ Watching)
    /\ UNCHANGED <<known, poll, overtaken>>

\* Mutant: the entry is decremented instead of removed.
ForgetOne(s) ==
    /\ Forget(s)
    /\ audienceRevision' = audienceRevision - 1
    /\ UNCHANGED <<bump, client, overtaken>>

\* audienceRevisions.remove(cname), in the last unsubscribe()
ForgetRevision(s) ==
    /\ Forget(s)
    /\ audienceRevision' = 0
    /\ bump' = [e \in Emitters |-> IF bump[e] = "held" THEN "lost" ELSE bump[e]]
    /\ overtaken' = (overtaken \/ \E e \in Emitters : bump[e] = "held")
    /\ UNCHANGED client

----------------------------------------------------------------------------
(* The Watcher's client and RoomController.audienceReconcile.              *)

\* "clients always reset their local revision to -1 on join"
Leave ==
    /\ UnsubscribeCc(Watcher)
    /\ known' = -1 /\ poll' = NoPoll /\ drifted' = FALSE
    /\ UNCHANGED <<audienceRevision, bump, overtaken>>

\* Mutant: the client is answered with the next revision.
ReconcileAhead ==
    /\ stage[Watcher] = "attached"
    /\ poll = NoPoll
    /\ IF audienceRevision + 1 <= known
       THEN known' = audienceRevision + 1 /\ UNCHANGED poll
       ELSE poll' = audienceRevision + 1 /\ UNCHANGED known
    /\ UNCHANGED <<vars, audienceRevision, bump, drifted, overtaken>>

Reconcile ==
    /\ stage[Watcher] = "attached"
    /\ poll = NoPoll
    /\ IF audienceRevision <= known
       THEN known' = audienceRevision /\ UNCHANGED poll
       ELSE poll' = audienceRevision /\ UNCHANGED known
    /\ UNCHANGED <<vars, audienceRevision, bump, drifted, overtaken>>

\* The roster is fetched after the revision was read.
FetchRoster ==
    /\ poll # NoPoll
    /\ poll' = NoPoll
    /\ known' = poll
    /\ drifted' = FALSE
    /\ UNCHANGED <<vars, audienceRevision, bump, overtaken>>

----------------------------------------------------------------------------
\* Steps of the hub that leave the revision alone; a thread that is emitting an
\* audience event takes no other.
HubStep ==
    \/ \E s \in Sessions :
          \/ Refuse(s) \/ ListGhosts(s) \/ Subscribe(s)
          \/ s # Watcher /\ UnsubscribeCc(s)
          \/ TestCounter(s) \/ TestCount(s) \/ DropCcSink(s)
          \/ ReadCounter(s) \/ Uncount(s) \/ RemoveCounter(s) \/ RemoveConnector(s)
          \/ CloseUpstream(s) \/ DropSink(s) \/ DropCc(s)
    \/ \E g \in Connectors :
          /\ bump[g] = "idle"
          /\ Connected(g) \/ Deliver(g) \/ ConnectFails(g) \/ Disconnected(g)
    \/ \E r \in Requests :
          /\ bump[r] = "idle"
          /\ TestSubscribers(r) \/ SyntheticThrows(r) \/ EmitSynthetic(r)

RosterNext ==
    \/ HubStep /\ UNCHANGED roster
    \/ \E e \in Emitters : FindRevision(e) \/ BumpAndEmit(e)
    \/ \E s \in Sessions : ForgetRevision(s)
    \/ Leave \/ Reconcile \/ FetchRoster

RosterSpec == RosterInit /\ [][RosterNext]_rosterVars

----------------------------------------------------------------------------
(* Properties.                                                             *)

RosterTypeOK ==
    /\ TypeOK
    /\ audienceRevision \in 0..MaxRevision
    /\ bump \in [Emitters -> {"idle", "held", "lost"}]
    /\ known \in -1..MaxRevision
    /\ poll \in {NoPoll} \cup 0..MaxRevision
    /\ drifted \in BOOLEAN
    /\ overtaken \in BOOLEAN

\* "Safe to drop: clients always reset their local revision to -1 on join":
\* audienceReconcile never tells a client with an open stream that nothing
\* changed after the roster has changed.  Broken: README, section 6.
ReconcileSound == Watching /\ drifted => audienceRevision > known

\* Forgetting the revision is safe until a release runs beside another
\* session's callback or between the two steps of a bump.
ReconcileUnlessCollided == collided \/ overtaken \/ ReconcileSound
=============================================================================
