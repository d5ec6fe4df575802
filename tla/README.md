# JilaliTalk backend: TLA+ models, checks and proofs

JilaliTalk-backend is a Micronaut service (a "BFF") between browsers and the
HelloTalk upstream.  Most of its endpoints are stateless HTTP proxies.  What is
hard to get right is its long-lived state: two kinds of upstream WebSockets that
reconnect by themselves, hubs that share them among browser sessions, and a
SQLite file shared by several processes.  This directory models that part.

Paths below are relative to `src/src/main/java/com/jilali/`.

## 1. Inventory

| Component | State | Operations | What makes it hard | Correct means |
|---|---|---|---|---|
| Cleanup jobs and leader lock (`platform/scheduler`) | table `scheduler_lock`; one random identity per JVM | `tryAcquire`, `renew`, purge | processes interleave between statements, crash, restart under another identity; statements throw | one purger per job; a live leader keeps purging, and old rows go; a dead one is replaced |
| IM connector (`im/HtImUpstreamConnector`) | volatile `ws`, `connected`, `intentionalClose`, `sessionKey`, `jwt`; heartbeat pump; backoff | `connect`, `close`, callbacks of `buildAsync`, listener, reconnect loop, relogin | owner, listener threads, HTTP callbacks and common pool share fields without a lock | one connection; heartbeat while logged in; reconnect after loss; nothing left after `close()` |
| Heartbeat pump, backoff, lifecycle (`core/ws`, `platform/reconnect`, `platform/websocket`) | one scheduled future; attempt counter | `start`, `stop`, `close`, `nextDelay`, `reset` | `close` is final, `start` after it throws | used so that it never is |
| IM hub (`im/ImEventSource`, `ImSocketController`) | subscriber count, sink, connector, last state | `subscribe`, `unsubscribe`, origin check, connector callbacks | no lock, sessions on several event loops; callbacks of old connectors come late; connectors close themselves; refused sessions are "closed" too | at most one upstream; every subscriber served; released after the last |
| Room hub (`realtime/RoomEventSource`, `RoomSocketController`) | per room: count, connector, room sink, captions sink and count, audience revision, last state | as above plus captions and synthetic events | the same, plus counters that are looked up and changed in two steps, and HTTP threads of other controllers | the same, plus captions, revision and ghosts |
| Ghost publishers (`JdbcGhostPublisherRepository`, `UserController`) | table `ghost_publisher` | start, stop, list, touch, purge | the table and the event stream change in separate steps; requests of one user overlap; an emission may fail | a joining client sees who publishes |
| Audience reconcile (`RoomController`) | none of its own | revision read, roster fetch | two reads, a revision that restarts | a missed change is never called "unchanged" |
| LiveHub connector (`realtime/HtLiveHubUpstreamConnector`) | `ws`, `session`, flags, pump, backoff | as the IM connector without login | as the IM connector; a mapper that throws ends the socket | as the IM connector |
| LiveHub mappers (`HtNotifyMapper`, `HtCcNotifyMapper`) | none | frame to event | two channels share the type numbers; rules duplicated in several places | every frame reaches the right listener |
| IM session (`HtImUpstreamConnector` from the login on, `SequentialSender`) | session key, chain of sends | dispatch of packets, acknowledgements, offline sync, sends of several threads | a handler's sends and events interleave with other threads; sockets are lost in the middle | each push acknowledged in order; both stores read to their end; no send blocks the next |
| IM frames (`HtImPacketFramer`, `HtImFrameDecoder`, `HtImNotifyMapper`) | none | packet to event, live and replayed | signed lengths, three packings, encryption that headers state wrongly | a replayed packet gives what it gave live |
| IM enricher (`ImEventEnricher`) | none | asynchronous profile lookup | reorders events; a lookup may find nobody | one event out per event in |
| Service token (`core/AuthTokenHolder`) and sessions (`auth`) | tables `service_token`, `auth_session`; token in memory | load, set, persist; login, relogin, logout, expiry | memory and row change in separate steps; statements throw; crashes | a restart finds the newest token |
| Upstream headers (`HeaderPropagationFilter`, `SessionAuthClientFilter`, `DefaultHeadersClientFilter`) | none | three filters per request | the filters' order; headers are added, not replaced; each default reads the shared token by itself | a request names one account |
| Fan-out services (`RoomJoinService`, `RoomsSearchService`, `ProfileBundleService`, `SignInBundleService`, `UpstreamRetry`) | per request | parallel calls, retries, cancellation | the first failure interrupts the others; calls succeed without data | a sound answer or the true cause; always an end |
| Profile cache, translation, ciphers, JSON naming, error handling, proxies, start-up | none, or constant | proxying, conversion | | see section 7 |

Interactions: a session controller calls its hub; the hub creates a connector,
attaches two listeners to it and calls `connect` and later `close`; the
connector's threads call the listeners, which write the hub's fields.
`UserController` writes the ghost table and injects synthetic events into the
room hub; `RoomController` reads the hub's revision; the cleanup job is to delete
old ghost rows under the leader lock.  The IM hub passes every event of its connector
through the enricher into its sink.  Logins and relogins publish their JWT in the
token holder, which the header filters read for requests without a better one.

`PROJECT.json` lists every component and, under "hazards", each place where the
code could go wrong in a way a test would hardly reach.

## 2. Modules

| Module | Models | Steps |
|---|---|---|
| `CleanupJobs` | one run of each job in each process | one SQL statement per action |
| `ImConnector` | one IM connector with all its threads | a stretch of one thread up to its next shared read or write that matters |
| `LiveHubConnector` | one LiveHub connector with all its threads | the same |
| `LiveHubFrames` | the two LiveHub mappers, as operators on frames | - |
| `JsonNodes` | JSON objects as the mappers see them | - |
| `Upstream` | **abstract**: what a connector promises its owner | one callback per action |
| `ImHub` | the IM hub and its session controller | one shared field per action |
| `RoomHub` | one room of the room hub and its session controller | one map operation per action |
| `RoomGhosts` | `RoomHub` with the ghost table, its requests and one client | the same, one SQL statement per action |
| `RoomRoster` | `RoomHub` with the audience revision, the reconcile poll and one client | the same |
| `ImFrames` | the IM decoders and mapper, as operators on packets | - |
| `ImSession` | a logged-in IM session: dispatch, sends, offline sync, events | one send or event per action |
| `AuthTokens` | token holder, sessions and the headers of requests | one SQL statement, holder access or header per action |
| `Bundles` | one request of a fan-out service | one call, failure or retry per action |
| `CleanupJobsProofs`, `ImConnectorProofs`, `LiveHubConnectorProofs`, `ImHubProofs`, `RoomHubProofs`, `ImSessionProofs`, `AuthTokensProofs`, `BundlesProofs` | theorems | - |
| `MC*` | constants for TLC | - |

**The contract between connector and hub.**  `Upstream` says which callbacks a
connector makes and in which order: it announces itself once, delivers
events while it has a socket, fails its first attempt at most once and before anything
else, and runs the disconnect listener once, after `close()`, as its last
callback.  `RoomHub` uses a connector in exactly these ways (its connectors may in addition
stay silent, which covers a socket lost to `onError`).  `LiveHubConnector` instantiates
the contract (`Contract == INSTANCE Upstream WITH ...`) with a refinement mapping:
`Phase` reads off the owner's calls and the connector's own state how far the connector is, and
`heard` is the last callback made.  `ImplementsUpstream` is checked by TLC and proved
(`Implements`).  The IM connector does not meet it: after a relogin
it runs two chains of sockets, so it may announce itself and disconnect more than once;
`ImHub` therefore allows repeated announcements and, because a ban or a failed relogin makes the
connector close itself, an end that the hub did not ask for (`EndsItself`).

`LiveHubConnector` extends `LiveHubFrames`: what a frame does to the socket and which
callback it causes is decided by the same mappers whose agreement is proved.
`ImSession` extends `ImFrames` in the same way and continues where `ImConnector` ends:
one models how sockets come and go, the other what happens on them.

How state and actions correspond to code:

* **`CleanupJobs`.** `row` is the table; `id` the identity of the JVM in a place,
  never drawn twice; `at` the statement a job's run executes next; `stale` the jobs with rows past
  their TTL.  The purge compares values as SQLite does, by storage class first (`SqliteLess`).  `ttl` is
  an argument of `tryAcquire` and `renew` that no statement uses; so it is not in the model.
* **`ImConnector`.** The variables up to `attempt` are the fields.  `call`, `wire`
  and `login` follow one `attemptConnect`, its socket and the login on it;
  `delayed`, `relogins`, `switches` and `closers` count threads at a given
  point.  A name of a socket is used again once its socket is over, so behaviours
  are unbounded with few names.  `java.net.http` is external: frames in order,
  then at most one of `onClose` and `onError`; a listener that throws ends in
  `onError`.
* **`ImHub`.** A *generation* is a connector with the sink created with it; `flux` is what a
  session listens to, or what the local variable of its callback refers to.  Callbacks of one session
  follow each other; those of different sessions interleave field by field, because the source
  takes no lock and Netty spreads channels over event loops.
* **`RoomHub`.** The first variables are the room's entries in the source's maps.  A counter is an object
  (`value`): `ref` is the one a session's callback has looked up, which may have left the map
  since.  `mine` is the connector in a callback's local variable.  `ccCounts` alone is looked up and
  updated in one step; it decides only whether a room without subscribers drops its captions sink.
  An `onOpen` that throws (the ghost list, a token without uid) is as a refused one: `onClose`
  follows.
* **`collided`**, in both hubs, is history: a *release* (what the last `unsubscribe` does after its decrement)
  has run while another session was inside a callback.  No action depends on it.
* **`RoomGhosts`.** `publishing` is the table, `call` the request of each HTTP thread; nothing orders the requests of
  one user.  `seen` and `entitled` belong to the client of one session, the Watcher.  An emission
  may fail while another thread can be emitting (`Contended`), may be dropped, or may never come
  because `touchLastSeen` threw.  The cleanup job deletes no row, so none is purged.
* **`RoomRoster`.** `bump` says whether an emitter holds the revision it looked up; `known`, `poll` and `drifted`
  belong to the Watcher's client; `overtaken` is history.
* **`LiveHubFrames`, `ImFrames`.** A JSON object is a record of the keys it has; an
  event is its type and its user (and, for IM events, whether the user's name and picture are
  there, which decides about the lookup).  A packet's bytes are what they look like as
  they are and after decryption: a magic and a document.  Definitions keep the names
  of the Java methods.
* **`ImSession`.** A handler is computed as the list of what it does (`work`) when its
  packet is received and then carried out item by item, so that the heartbeat, HTTP
  threads and lookups come between.  A page of an offline store is the list of its packets,
  each decoded when its turn comes, with the session key there is then (`DoReplay`).  Each packet on its
  way (`feed`) has a number: that of the push, which its acknowledgement repeats, or that
  of the page it brings.  `outbox` is the `SequentialSender`'s chain with the
  sends of earlier sockets still in it.  `emitted`, `delivered` and `dropped`
  number the events.  `pushed`, `acked` and `pages` belong to the upstream.  A page's
  `data` node, pushes and the upstream's answers are external.
* **`AuthTokens`.** `token` and `row` are the holder's field and its table row; `at` and
  `held` follow a login or relogin through `set`, `get` and the write.  `phase`
  follows a request through the three filters and header by header through the third.
  `latest`, `behind` and `swapped` are history: the JWT published last, whether one
  of the windows below was hit, and which requests were being filled in when the holder changed.
  The seed is taken to be present and every JWT to carry a uid.  A header has a set of values, because
  `header()` adds.  The filters run in descending `getOrder()`, as the comment at
  `DefaultHeadersClientFilter:171-184` reports from the running service: session, propagation, defaults.
  `fetchUserInfo` is modelled on threads with and without a request of the frontend.
* **`Bundles`.** `task` and `attempts` are the subtasks of one request's
  `StructuredTaskScope` (external: the first failure cancels, `join` throws it, `close`
  waits) and their loops in `UpstreamRetry`.  A call may succeed with null (`unwrap` returns the data as it is,
  `fetchUserInfo` null for an unknown user).  What follows `join` may throw although no task failed, and the
  request's own thread may be interrupted.

Definitions marked "Mutant" are faulty variants of the definition after them.
No specification uses them; each shows that a property notices the fault.

## 3. Runs

| Run | Instance | States | Shows |
|---|---|---|---|
| `cleanup` | 2 processes, 1 job, 4 identities, 1 failing statement | 16 thousand | `OnePurger`, `PurgerHoldsRow`, `LiveLeaderPurges` hold |
| `cleanup_failover` | same | | **violated**: a crashed leader is never replaced |
| `im_connector` | 2 socket names, backoff counter to 1, 1 relogin | 76 thousand | `SingleConnection`, `LiveSession`, `CloseHeals`, `CloseReachesSocket` hold |
| `im_hub` | 3 sessions, 3 generations | 1.46 million | `FieldsReleased`, `OneUpstreamUnlessCollided`, `ClosedUnlessCollided`, `ServedUnlessCollided` hold |
| `im_hub_upstreams` | same | | **violated**: two upstreams at once |
| `room_hub` | 2 reopening sessions with captions, one of them the Watcher, 1 request, 2 connectors, 3 + 2 sinks, revision to 2, up to a collision | 2.63 million | `ReleasedUnlessCollided`, `KnownUnlessCollided`, `ServedUnlessCollided`, `ReconcileUnlessCollided` hold |
| `room_ghosts` | the Watcher and 1 session, 2 overlapping requests of 1 ghost, 1 connector, 2 sinks, collisions included | 6.10 million | `GhostsReplayed`, `CounterReleased` hold |
| `livehub` | 2 socket names, backoff counter to 1, 17 types x 17 payload shapes and odd frames | 7 thousand | `SingleConnection`, `HeartbeatKept`, `CloseHeals`, `ImplementsUpstream`, `JoinNamesUser` hold |
| `im_session` | 5 kinds of pushes, stores of 1 and 2 pages, 2 incidents, a corpus of packets | 201 thousand | `PushesAcked`, `OnlyLookupsLate`, `EventsSettle`, `SyncCompletes`, `SendsArrive`, `OfflineReplaysLive`, `NoSelfVisit` hold |
| `im_delivery` | same | | **violated**: an event whose lookup finds nobody is dropped |
| `auth` | logins of 2 accounts and 1 relogin of a third, of which 2 publish; 1 request, 2 crashes, 1 failing statement | 5.50 million | `TokenSurvives`, `HeadersAgree` hold |
| `services` | every service; a search of 3 pages | 221 thousand | `AnswerSound`, `RequestEnds` hold |

Each violated property quotes a comment of the source; the findings in
`PROJECT.json` say where the code departs from it.  Section 6 lists further statements that the
models refute.

**Bounds and why they are enough.**

* *Processes, identities.*  Two processes are enough for a race and for a
  take-over, and four identities allow two restarts.  Locks of different jobs
  share nothing.  The proofs remove these bounds.
* *Sockets.*  `ws` keeps one name occupied, so two names allow a current socket
  and another one at once, which is what every property is about.
* *Backoff counter.*  It only selects a delay, and delays are not timed.
* *Relogins.*  One already reaches the state after a relogin.
* *Hub sessions.*  In the IM hub three sessions on loops of their own give a first, a later and a leaving or refused one at
  the same time.  A room has two that open again and again, so that each plays all these parts; the theorems hold
  for any number.
* *Room names.*  Sessions, counters, connectors and sinks are reused, so a few of each
  give unboundedly many generations; a callback that needs a fresh name waits while every name is in
  use.  The symmetry sets permute names of one kind only, and the runs with symmetry check invariants only.
* *Collisions.*  `room_hub` checks states after a collision but does not continue them
  (`CONSTRAINT UntilCollision`): its properties are disjunctions with `collided` (or `overtaken`), which once true
  remains so.  `im_hub` and `room_ghosts` continue them.  `room_ghosts` leaves captions to `room_hub`, and with one
  connector a first subscriber waits until the closing one is gone; `CounterReleased` is about the counter, which no
  connector touches.
* *Revision.*  Two events per generation are enough for a client to hold a
  smaller, an equal and a larger number than the room's.

* *Incidents.*  A push, a lost socket and a send of another thread are an incident each;
  two allow a push and a loss in either order, two pushes, and a push with
  a send, each at any point of login and sync.  The stores' pages are those
  on which `has_more` and the page's size disagree.
* *Corpus.*  Every document shape the mapper tells apart, in every packing, plain and
  encrypted, with each key type and sender.  Decoding has no state, so it is evaluated once.
* *Tokens.*  Two publishers are enough for one to come between the steps of the other, and each of the three
  windows is reached; they may be two logins, so that cookie, JWT and holder name three accounts, or a login and
  the relogin (`CONSTRAINT TwoMints`).  The proofs remove all these bounds.
* *Services.*  Their calls and attempts are those of the code; only a search is cut to 3 pages.

Every invariant of the passing runs is also a theorem (section 5), without the bounds above, except
`RosterTypeOK` and `ReconcileUnlessCollided`.  The types of `AuthTokens`, `RoomHub` and `RoomGhosts` and
`DiscriminatorsAgree` are proved and not checked by a run.

`im_connector`, `im_hub`, `livehub`, `im_session` and `auth` switch deadlock checking off: a
closed connector, a hub whose sessions are gone, a session whose socket failed, and a process
whose logins and crashes are used up may stop.  So do the room's runs, where callbacks may wait for a
name.

**Qualifications stated in the properties.**

* `SingleConnection` and `LiveSession` of the IM connector speak of the time before a
  relogin has swapped the token.  After one, the closed socket's `onClose`
  starts the reconnect loop while the relogin dials too, and two chains run.
* `CloseReachesSocket` requires that no callback stands between its test of
  `intentionalClose` and its last assignment; in that window the socket does survive
  `close()`.
* `CloseHeals` accepts a later socket that ended in `onError`, because nothing
  replaces that one (section 6).
* `...UnlessCollided` of both hubs speak of the time until a release has run beside a callback of
  another session.  Sessions that subscribe at once, sessions that leave one by one, refused sessions,
  late callbacks of connectors and HTTP threads are all in it.  What happens after a collision is the
  subject of section 6, of `FieldsReleased` and of `CounterReleased`.
* `ReconcileUnlessCollided` in addition excludes a release between the two steps of a bump.
* `GhostsReplayed` promises the ghosts that were publishing when `onOpen` listed them and have not
  stopped since; not those that start between the listing and the subscription, and not those with a stop under way
  at the listing.
* `OnlyLookupsLate` and `EventsSettle` allow events that are looked up to come late, and
  an event to be dropped in the two ways `im_delivery` is about.
* `TokenSurvives` names three windows (`behind`): a statement that throws, a crash between `set()`
  and the write, and a `set()` between the get and the write of another
  `persistIfHolder()`.  The next undisturbed publication closes them.
* `HeadersAgree` speaks of requests with one credential.  It leaves out those during whose filling the holder was set
  (`swapped`), and `x-ht-token` if the frontend sends `authorization` alone.
* `OfflineReplaysLive` leaves out packets declared plain (keyType 0) whose ciphertext begins with a byte that the
  fallback recognizes (section 6).
* `LiveLeaderPurges` says that the DELETE is issued, not that it deletes (section 6).
* `AnswerSound` allows a null part where the code does; see section 6 for the profile without user.

## 4. Fairness

* *Cleanup.*  Micronaut runs `@Scheduled` methods of a live process again and
  again: weak fairness of each job's run.  Crashes, restarts and failing
  statements are not fair.
* *Connectors.*  Executors run what is queued, `thenAccept` runs when its
  future completes, and `buildAsync` completes one way or the other: weak
  fairness.  Not every attempt fails for ever: strong fairness of success, the
  assumption under which "reconnects" means anything.  A close that was
  sent is answered or the socket fails (the JDK's client enforces it).  The
  peer is not assumed to send anything else, and the owner is not assumed to close.
* *IM session.*  A send completes, the listener goes on with its packets, a lookup ends
  and `tryEmitNext` returns: weak fairness.  Pushes, HTTP requests, losses and
  new sockets are not fair.
* *Services.*  Threads run, sleeps end, and the HTTP client's read timeout ends every call:
  weak fairness of the request's steps.
* *Hubs.*  None: only safety is checked.

## 5. Proofs

TLAPS proves, for every value of the constants:

* `CleanupJobsProofs`: `TypeCorrect`, `LeaderHoldsRow` (`Spec => []PurgerHoldsRow`)
  and `OnlyOnePurger` (`Spec => []OnePurger`).  The inductive invariant adds to
  `PurgerHoldsRow` that identities in use are distinct and drawn (`Identities`,
  without which a restarted process could be taken for the holder) and that a
  process that is down runs nothing (`DeadAreAsleep`, without which a restart
  could change the identity of a purger).  Two purgers of a job hold the same
  row, so they have one identity, so they are one.  Assumed: `Free` is no
  identity, `MaxFailures` is a natural number.
* `ImConnectorProofs`: `TypeCorrect`, `SingleConnectionHolds`, `LiveSessionHolds`.
  The inductive invariant adds who may start an attempt: before `connect()`
  nothing is going on (`Untouched`), and a relogin about to dial has already
  swapped the token (`SwitchMeansRelogin`).  For the live session it adds that a
  socket still being built is not open and carries no login (`NotBuiltYet`) and
  that only `close()` and a relogin shut the pump down (`PumpUsable`).
  Because there is one chain, the `onClose` that stops the pump is that of the
  only socket.  Assumed: `NoSocket` is no socket, the two bounds are natural
  numbers.

* `LiveHubConnectorProofs`: `TypeCorrect`, `SingleConnectionHolds`, `HeartbeatKeptHolds` and
  `Implements` (`Spec => ImplementsUpstream`).  The invariant adds to the two properties
  that nothing goes on before `connect()` (`Untouched`), that the close flag is the
  owner's (`ClosedByOwner`), that a socket being built has not answered (`NotBuiltYet`),
  that nothing was heard while the first attempt is under way (`FirstAttempt`), and that nothing is left after
  the last callback (`Last`).  The refinement needs them: the contract forbids a
  second "failed" and anything after "disconnected", which is only true because there is
  one chain.  Each action is shown to map to a step of the contract or to a stutter.
  Assumed: `NoSocket` is no socket, the bound is a natural number.
  Two theorems are about the mappers: `DiscriminatorsAgreeHolds` and `JoinNamesUserHolds`
  hold for every set of frames, not only for the shapes the run enumerates.  The first follows
  the mapper type by type (`CcEventIsSomething`); the second needs that only `mapTypeOne` makes a
  join (`JoinIsTypeOne`) and that a batch whose first user `requiresUserId` accepts becomes a gift.
  Assumed for them: the users of a gift batch are a sequence of integers.
* `ImHubProofs`, with no assumption on the event loops.  `TypeCorrect` and `FieldsReleasedHolds` hold in every interleaving.
  Their invariant says that the counter is never larger than the number of sessions it was raised for
  (`Undercount`; refused sessions make it smaller, which is why the last session to leave finds it at zero or below),
  that below zero somebody is about to reset it (`NotNegative`), and that a field that is not null has a
  session that will null it (`FieldsOwned`).  `OneUpstreamHolds`, `LastLeaverClosesHolds` and `ServedHolds` are about the
  `...UnlessCollided` properties.  Their invariant adds, while nothing has collided, that a release runs alone
  (`ReleaseAlone`), that one session at a time opens (`OneOpener`), and what the fields are between and at
  each step of the callbacks (`Quiet`, `InSubscribe`, `InUnsubscribe`).  Assumed: `None` is no generation.
* `RoomHubProofs`, likewise.  In every interleaving: `TypeCorrect` and `CounterReleasedHolds`, from `Undercount`, stated
  for the counter in the map and the sessions that refer to it, and `Attended` (a counter in the map has a session that
  will decrement or remove it).  Until a collision: `RoomReleasedHolds`, `OnlineIsKnownHolds`, `RoomServedHolds`, from an invariant
  that follows the map entries through the callbacks while connectors of earlier generations and HTTP threads write
  them too: a room is served by the only connector `close()` has not reached (`Serving`), or
  has none (`Released`), or is at a known step between.  About clients, collisions included: `GhostTypeCorrect` and
  `GhostsReplayedHolds`, whose invariant says where the ghosts owed to the client are at each stage of its join, and that
  a ghost whose stop is under way is owed to nobody.  Every step of `RoomGhosts` is shown to be a step of `RoomHub`
  (`GhostsRefineHub`).  Assumed: the Watcher is a session, `None` is no counter, connector, sink or
  number, room and captions sinks are different objects.
* `ImSessionProofs`: `TypeCorrect`, `PushesAckedHolds`, `OnlyLookupsLateHolds`, and for every set of
  packets `OfflineReplaysLiveHolds` and `NoSelfVisitHolds`.  `PushesAcked` is not inductive:
  the invariant follows the pushes of a socket through three stretches (`Pipeline`), those whose
  acknowledgement is queued or received (`Queued`), the one whose handler has yet to send it (`InHand`)
  and those on their way (`Coming`), and says that each number is in exactly one place and in order.  `Cleared` adds that a
  socket that is down has no live send and nothing in hand, so that the acknowledgements of one
  socket never reach the next.  The handlers enter by one lemma each: only the handler of a push
  acknowledges, once and first (`Silent`).  For the order of events the
  invariant adds that an event being looked up was not delivered (`Waiting`).  The two theorems about
  decoding go through `DecodeF2`, `DecodeOfflinePacket` and the mapper case by case; for keyType 0 the fallback gives the
  decrypted bytes because whatever gives an event has a recognized first byte.
  Assumed: pushes are no responses, a page lists stored packets and its `last_id` is a natural number.
* `AuthTokensProofs`: `TypeCorrect`, `TokenSurvivesHolds`, `HeadersAgreeHolds`.
  The invariant adds where the latest JWT is at every step of a publication (`Followed`: a
  writer that no window disturbed will write the latest), that nothing runs in a process that is down
  (`Running`), and what the headers of a request are at each filter, by the credentials it
  has (`Request`).  Assumed: `None` is no JWT and no uid, seed, logins and
  relogins are different, every JWT has a uid, the bounds are natural numbers.
* `BundlesProofs`: `TypeCorrect`, `AnswerSoundHolds`.  The invariant adds that a task that
  sleeps has an attempt left (`Budget`), that the scope is opened only with the first call's
  answer (`Opened`), that the scope's cause is the failure of a task that was not interrupted
  (`TrueCause`), that a call which must have data has it (`Required`), that a failure after the join has all its calls
  returned (`Assembled`), and that a request ends after its tasks (`Quiet`).  The number of pages of a search is arbitrary.

Proofs go action by action; a lemma (`IInvStep` or `Inductive`) collects them and the theorems combine
it with `InitIInv` in one temporal step.  TLC checked the inductive invariants of the hubs and of the
IM session on the instances of their runs before they were proved.

**Model-checked only.**  The liveness properties (fairness is outside the
prover's reach): `LiveLeaderPurges`, both `CloseHeals`, `CloseReachesSocket`, `EventsSettle`,
`SyncCompletes`, `SendsArrive`, `RequestEnds`; the two invariants of `RoomRoster`; and the violated
properties, whose counterexamples TLC finds.

## 6. Departures of the code from its comments

Found while modelling.  The first three are runs.  The second group are statements of comments and tests that
are kept as definitions of the modules; they are not runs of their own, and TLC refutes each if
it is put in the place of the properties of the run named here (of `room_hub` without its `CONSTRAINT`).  The
others are described only.

* *Leader lock* (`cleanup_failover`): a crashed leader's row never expires.
* *IM hub* (`im_hub_upstreams`): "at most one upstream connection at any time" does not survive sessions on two event
  loops.  A session that subscribes between the last `unsubscribe`'s decrement and its `close()` opens a second one.
* *Delivery* (`im_delivery`): a lookup that returns null, or two threads in the sink at
  once, lose an event, where the source promises exactly one per push.

Refuted, with the run whose constants show it:

* *Purge* (`CleanupJobs!StaleRowsPurged`, `cleanup`): `setTimestamp` binds an INTEGER, `last_seen` holds the TEXT of
  `CURRENT_TIMESTAMP`, and SQLite orders every INTEGER before every TEXT: `last_seen < ?`
  (`JdbcGhostPublisherRepository:122-130`) is never true and nothing is deleted, where `CleanupJobs:15-17` says that the
  job drops rows older than an hour which would otherwise stay "forever".  The profile cache's purge is the same.
* *Relogin* (`ImConnector!HeartbeatKept`, `im_connector`): `attemptRelogin` shuts the pump's scheduler down for good (line 306);
  the next accepted login throws in `heartbeat.start` and ends its own socket, where the class comment says that
  the connector "keeps a 30-second heartbeat".
* *IM hub* (`ImHub!LastLeaverCloses`, `im_hub`): an `unsubscribe` that closes the connector before `subscribe` reaches
  `connect()`, which clears the close flag, leaves a connection that no field names, where the class comment says
  "the last to leave closes it" (`ImEventSource:22-23`).
* *Room hub* (`RoomHub!LastLeaverCloses`, `RoomHub!OnlineIsKnown`, `room_hub`): a counter removed between another session's
  increment and its `connectors.put` leaves a connector that nobody closes ("last leaves closes it",
  `RoomEventSource:20`); a late `lastConnectionState.remove` (line 177) erases the next connector's "connected", which is
  announced once only (lines 42-44 promise the current state to every later subscriber).
* *Captions* (`RoomHub!CaptionsDelivered`, `room_hub`): the disconnect listener of an old connector (line 86) removes the
  captions sink the room has by then, that of the next generation.
* *Revision* (`RoomRoster!ReconcileSound`, `room_hub`): "Safe to drop" (lines 174-175) is not, between the two steps of
  a bump or beside another session: `audienceReconcile` then answers "unchanged" after a change.
* *Late joiners* (`RoomGhosts!LateJoinerBlind`, `room_ghosts`): `UserController:88-89` and `schema.sql:38-40` say that they do not see
  ghost publishers until the next toggle; `subscribe()` replays the table to them (`RoomEventSource:67-71`, 111-120).
* *Stopped ghosts* (`RoomGhosts!StoppedGhostLeaves`, `room_ghosts`): the list is read before the subscription, so a `stage_quit` in
  between is missed and the client keeps a ghost that has stopped (`UserController:108-109`).
* *Offline fallback* (`ImSession!CiphertextRecovered`, `im_session`): ciphertext under keyType 0 that begins with a recognized byte is
  taken for plain content (`HtImFrameDecoder:144`).  The decoder's test (`HtImFrameDecoderTest:165-186`) avoids the case by
  encrypting again.
* *Credentials* (`AuthTokens!FrontendHeaderWins`, `AuthTokens!FetchedAsService`, `auth`): the session filter was ordered on the belief
  that it runs after propagation ("a real header the frontend already sent still wins",
  `SessionAuthClientFilter:20-21`); it runs before it, and both add, so that a request with a cookie and a JWT carries both
  tokens.  A profile fetch on a request's thread gets the caller's token beside the "fixed service-account token"
  (`UserProfileEncryptedClient:71-72`).

Described only:

* *Network errors*: `onError` of both connectors does not reconnect, though the IM connector's
  class comment promises a reconnect after a "network drop".
* *Caption frames*: the room mapper is asked first and takes frames of types 1, 3, 4, 7
  and 12, so a subtitle line (type 4) becomes a `stage_join`, where the class comment says
  that frames are dispatched by `ownsType`.
* *Failed load*: if the SELECT of `AuthTokenHolder` throws at the start, the seed is
  written over the newer token in the row.
* *Torn headers*: a login while a request's headers are filled in gives it the token of
  one account and the uid of another; the `User-Agent` always carries the shared account's uid, where
  the comment says the caller's.
* *Other accounts*: every login publishes its JWT as the shared token; the comment assumes that it is
  "for the same account".
* *Profiles without a user*: `ProfileBundleResponse` marks four of its parts `@Nullable` and `userInfo` not; for a
  user the upstream does not list, `ProfileBundleService` answers with a null there.
* *Limitations*: "scoped by the caller uid", but one slot for all callers.
* *Acknowledgements*: `decodeMsgAck` is said to return an empty record on any failure; without a UUID
  it returns nothing, and no event is emitted.
* *`SequentialSender.reset`*: said to be for reconnects; only `close()` calls it.

## 7. Not modelled

* *Profile cache.*  `CachedUserProfileService` has no caller, so the table is only ever purged (in vain).
  The same holds for `updateJwt` and `touchLastSeen` of the sessions.
* *The limitations slot.*  It is overwritten by whichever answer comes last and does not know whose
  it is; there is no true property of it beyond its assignment.
* *Delays and timeouts as numbers*; the 5-minute, 30-second and TTL constants.
* *Payload fields* that are copied with defaults, and the bodies that `ImSendController` builds.
* *Byte layouts*: header offsets, the sequence number of an acknowledgement, `inflate`'s
  limit of eight times its input, and the ciphers and signatures, which the
  repository's tests cover with captured vectors.
* *Stateless parts*: proxies, translation, JSON naming, error handling; and database start-up (DDL, run once).

## 8. Plan

1. *Done:* cleanup and lock; both connectors; both hubs with ghosts and reconcile, on any number of event loops; frames
   of both channels; IM session; tokens and headers; fan-out services; the abstract upstream
   and its refinement; proofs of the invariants of the passing runs (but those of `RoomRoster`) and of the refinement.
2. *Next:* a proof of `ReconcileUnlessCollided`; action properties that state what a step of a hub or connector may never do (no
   event into a completed sink, no callback after the last), with proofs from the invariants
   above; an abstract specification of a hub's promise to one session, which `ImHub` and `RoomHub`
   both implement, as `LiveHubConnector` implements `Upstream`.
