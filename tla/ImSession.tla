----------------------------- MODULE ImSession -----------------------------
(***************************************************************************)
(* HtImUpstreamConnector from the login on: the dispatch of packets        *)
(* (handlePacket and below), acknowledgements, offline sync, the           *)
(* SequentialSender that all threads send through, and the way of an event *)
(* through ImEventEnricher into the hub's sink.  Connecting, reconnecting, *)
(* relogins and closing are in module ImConnector; here a socket is lost   *)
(* at any time and may be followed by another.                             *)
(*                                                                         *)
(* Threads: the socket's listener, which handles one packet after the      *)
(* other; one thread per profile lookup; the HTTP threads and the          *)
(* heartbeat, which send.  A handler is the list of what it does, in       *)
(* order, taken off item by item so that the others interleave.            *)
(*                                                                         *)
(* The sink is Reactor's serialized one (external): tryEmitNext by one     *)
(* thread while another is inside fails, and the code ignores the result.  *)
(***************************************************************************)
EXTENDS ImFrames, FiniteSets, SequencesExt

CONSTANTS
    Pushes,      \* packets the upstream sends of its own accord
    Corpus,      \* packets over which the decoding itself is checked
    Pages,       \* chain -> the pages of its offline store, each a JSON "data" node
    Stored,      \* the packets in those pages
    MaxIncidents \* bound: pushes, sockets lost and packets sent by HTTP threads
                 \* or the heartbeat, together

\* The stores of 1:1 and of group messages, and the key of a page's packets.
Chains == {"dm", "group"}
ListKey(chain) == IF chain = "dm" THEN "packet_list" ELSE "msgs"

\* Responses are sent to requests only; a page lists packets and its last_id is
\* a number.
ASSUME SessionAssumption ==
    /\ MaxIncidents \in Nat
    /\ \A packet \in Pushes : packet.flag # "response"
    /\ \A chain \in Chains :
          /\ Len(Pages[chain]) \in Nat
          /\ \A i \in 1..Len(Pages[chain]) :
                /\ Path(Pages[chain][i], ListKey(chain), <<>>) \in Seq(Stored)
                /\ Path(Pages[chain][i], "last_id", 0) \in Nat

VARIABLES
    link,        \* "down", "open", "ready" (logged in), "dead" (onError)
    sessionKey,  \* the field is not null
    feed,        \* packets on their way from the upstream, each with its number:
                 \* of the push, or of the page it brings
    work,        \* what the listener has still to do for its packet
    outbox,      \* the SequentialSender's chain; its head is being sent
    emitted,     \* number of events handed to the enricher
    looked,      \* those of them that are looked up
    lookups,     \* those whose lookup is running
    inSink,      \* who is inside tryEmitNext: Nobody, Listener or an event's lookup
    delivered,   \* events the sink took, in order
    dropped,     \* events that were given up
    pushed,      \* pushes sent so far on this socket
    acked,       \* their acknowledgements, as the upstream received them
    pages,       \* chain -> pages handled on this socket
    left         \* what is left of MaxIncidents

events == <<emitted, looked, lookups, inSink, delivered, dropped>>
upstream == <<pushed, acked>>
vars == <<link, sessionKey, feed, work, outbox, events, upstream, pages, left>>

Nobody == 0
Listener == -1

Init ==
    /\ link = "down" /\ sessionKey = FALSE
    /\ feed = <<>> /\ work = <<>> /\ outbox = <<>>
    /\ emitted = 0 /\ looked = {} /\ lookups = {} /\ inSink = Nobody
    /\ delivered = <<>> /\ dropped = {}
    /\ pushed = 0 /\ acked = <<>>
    /\ pages = [c \in Chains |-> {}]
    /\ left = MaxIncidents

----------------------------------------------------------------------------
(* The handlers, as lists of what they do.                                 *)

\* All that matters of an event from here on is whether it is looked up.
Emit(event) == [do |-> "emit", lookup |-> NeedsLookup(event)]
Send(packet) == [do |-> "send", packet |-> packet]
Replay(packet) == [do |-> "replay", packet |-> packet]
Key == [do |-> "key"]
Throw == [do |-> "throw"]

Ack(id) == [kind |-> "ack", id |-> id]
Sync(chain, lastId) == [kind |-> "sync", chain |-> chain, lastId |-> lastId]

EmitAny(event) == IF event = NoEvent THEN <<>> ELSE <<Emit(event)>>

\* dispatchPush()
DispatchPush(push, packet) ==
    IF push = Poke THEN <<Send(Sync("group", 0))>> ELSE EmitAny(EventOf(push, packet))

\* Mutant: another page is asked for when this one was not empty.
HasMoreBySize(data, list) == list # <<>>

\* has_more decides; without it, whether the page had anything.
HasMore(data, list) ==
    IF Has(data, "has_more") THEN Path(data, "has_more", 0) # 0 ELSE list # <<>>

\* handleOfflineResponse() and handleGroupResponse()
HandlePage(data, chain) ==
    IF ~NonNull(data, ListKey(chain)) THEN <<>>
    ELSE LET list == data[ListKey(chain)]
         IN  [i \in DOMAIN list |-> Replay(list[i])]
             \o IF HasMore(data, list) /\ NonNull(data, "last_id")
                THEN <<Send(Sync(chain, data.last_id))>> ELSE <<>>

\* handleLoginResponse() of an accepted login.
HandleLogin(data) ==
    IF ~Has(data, "session_key") THEN <<>>
    ELSE <<Key, Emit(Event("connected", "", TRUE)),
           Send(Sync("group", 0)), Send(Sync("dm", 0))>>

HandleF1(packet) ==
    LET root == DecodeF1(packet)
        data == Path(root, "data", NoNode)
    IN  IF packet.cmd = "pong" \/ ~Parses(root) THEN <<>>
        ELSE CASE packet.cmd = "offline" -> HandlePage(data, "dm")
               [] packet.cmd = "group"   -> HandlePage(data, "group")
               [] OTHER                  -> HandleLogin(data)

\* Mutant: only a push that can be decoded is acknowledged.
HandlePushLate(packet, id) ==
    LET push == DecodeF2(packet, sessionKey)
    IN  IF push = Ignored THEN <<>> ELSE <<Send(Ack(id))>> \o DispatchPush(push, packet)

\* copyPayload() throws on a negative length, after the acknowledgement.
HandlePush(packet, id) ==
    <<Send(Ack(id))>>
    \o IF packet.len = "negative" /\ sessionKey THEN <<Throw>>
       ELSE DispatchPush(DecodeF2(packet, sessionKey), packet)

HandleMsgAck(packet, id) ==
    (IF packet.flag = "push" THEN <<Send(Ack(id))>> ELSE <<>>)
    \o IF packet.len = "negative" THEN <<Throw>> ELSE EmitAny(DecodeMsgAck(packet))

\* handlePacket(): MSG_ACK goes before the flags.
HandlePacket(packet, id) ==
    LET sound == packet.len # "negative"
    IN  CASE packet.cmd = "msg_ack" -> HandleMsgAck(packet, id)
          [] packet.cmd # "msg_ack" /\ packet.flag = "push" -> HandlePush(packet, id)
          [] packet.cmd = "typing" /\ packet.flag = "typing" ->
                IF sound THEN <<Emit(Event("typing", packet.from, TRUE))>> ELSE <<Throw>>
          [] packet.cmd # "msg_ack" /\ packet.flag = "response" ->
                IF sound \/ packet.cmd = "pong" THEN HandleF1(packet) ELSE <<Throw>>
          [] OTHER -> <<>>

----------------------------------------------------------------------------
(* Sending.                                                                *)

\* sendOutbound() drops what comes while the socket is not connected.  An
\* onError leaves the flag set.
Connected == link \in {"open", "ready", "dead"}

Enqueue(packet) ==
    outbox' = IF Connected THEN Append(outbox, [live |-> TRUE, packet |-> packet]) ELSE outbox

\* The sends queued for a socket that is gone fail one by one.
Orphaned == [i \in DOMAIN outbox |-> [outbox[i] EXCEPT !.live = FALSE]]

\* What the upstream answers (external).
Response(cmd, data) ==
    [flag |-> "response", cmd |-> cmd, from |-> "0", len |-> "some",
     body |-> [raw |-> [magic |-> "zlib", doc |-> [data |-> data]]]]

Answer(chain, lastId) ==
    LET page == IF lastId < Len(Pages[chain]) THEN Pages[chain][lastId + 1]
                ELSE IF chain = "dm" THEN [packet_list |-> <<>>] ELSE [msgs |-> <<>>]
    IN  [id |-> lastId + 1,
         packet |-> Response(IF chain = "dm" THEN "offline" ELSE "group", page)]

LoginAccepted == [id |-> 0, packet |-> Response("login", [session_key |-> "k"])]

\* Mutant: a send that fails breaks the chain.
TransmitStalls ==
    /\ outbox # <<>>
    /\ LET packet == Head(outbox).packet
       IN  /\ Head(outbox).live /\ link \in {"open", "ready"}
           /\ feed' = CASE packet.kind = "login" -> Append(feed, LoginAccepted)
                        [] packet.kind = "sync"  -> Append(feed, Answer(packet.chain, packet.lastId))
                        [] OTHER                 -> feed
           /\ acked' = IF packet.kind = "ack" THEN Append(acked, packet.id) ELSE acked
    /\ outbox' = Tail(outbox)
    /\ UNCHANGED <<link, sessionKey, work, events, pushed, pages, left>>

\* The head of the chain completes, with or without success, and the next send
\* starts.  The upstream answers a login and a sync request.
Transmit ==
    /\ outbox # <<>>
    /\ LET packet == Head(outbox).packet
           arrives == Head(outbox).live /\ link \in {"open", "ready"}
       IN  /\ feed' = CASE arrives /\ packet.kind = "login" -> Append(feed, LoginAccepted)
                        [] arrives /\ packet.kind = "sync"  ->
                              Append(feed, Answer(packet.chain, packet.lastId))
                        [] OTHER -> feed
           /\ acked' = IF arrives /\ packet.kind = "ack" THEN Append(acked, packet.id) ELSE acked
    /\ outbox' = Tail(outbox)
    /\ UNCHANGED <<link, sessionKey, work, events, pushed, pages, left>>

\* ImEventSource.sendOutbound() for ImSendController, or sendPing().
Outbound ==
    /\ left > 0
    /\ left' = left - 1
    /\ Enqueue([kind |-> "message"])
    /\ UNCHANGED <<link, sessionKey, feed, work, events, upstream, pages>>

----------------------------------------------------------------------------
(* The listener thread.                                                    *)

\* The pages of a store that a packet brings.
Brings(entry, chain) ==
    {n \in {entry.id} : /\ entry.packet.flag = "response"
                        /\ entry.packet.cmd = IF chain = "dm" THEN "offline" ELSE "group"}

\* onBinary()
Receive ==
    /\ link \in {"open", "ready"}
    /\ work = <<>> /\ inSink # Listener
    /\ feed # <<>>
    /\ work' = HandlePacket(Head(feed).packet, Head(feed).id)
    /\ feed' = Tail(feed)
    /\ pages' = [c \in Chains |-> pages[c] \cup Brings(Head(feed), c)]
    /\ UNCHANGED <<link, sessionKey, outbox, events, upstream, left>>

\* The next item of the current packet.
Doing(what) ==
    /\ inSink # Listener
    /\ work # <<>> /\ Head(work).do = what
    /\ work' = Tail(work)

\* sendBinary()
DoSend ==
    /\ Doing("send")
    /\ Enqueue(Head(work).packet)
    /\ UNCHANGED <<link, sessionKey, feed, events, upstream, pages, left>>

\* this.sessionKey = key; the heartbeat starts.
DoKey ==
    /\ Doing("key")
    /\ sessionKey' = TRUE
    /\ link' = IF link = "open" THEN "ready" ELSE link
    /\ UNCHANGED <<feed, outbox, events, upstream, pages, left>>

\* The loop over a page: the next of its packets is decoded and dispatched.
DoReplay ==
    /\ inSink # Listener
    /\ work # <<>> /\ Head(work).do = "replay"
    /\ LET packet == Head(work).packet
       IN  work' = DispatchPush(DecodeOfflinePacket(packet, sessionKey), packet) \o Tail(work)
    /\ UNCHANGED <<link, sessionKey, feed, outbox, events, upstream, pages, left>>

\* An exception out of onBinary ends the socket in onError, which emits Error.
DoThrow ==
    /\ inSink # Listener
    /\ work # <<>> /\ Head(work) = Throw
    /\ work' = <<Emit(Event("error", "", TRUE))>>
    /\ link' = IF link \in {"open", "ready"} THEN "dead" ELSE link
    /\ UNCHANGED <<sessionKey, feed, outbox, events, upstream, pages, left>>

\* tryEmitNext() by `thread` of event n.
TryEmitNext(thread, n) ==
    IF inSink = Nobody
    THEN inSink' = thread /\ delivered' = Append(delivered, n) /\ UNCHANGED dropped
    ELSE dropped' = dropped \cup {n} /\ UNCHANGED <<inSink, delivered>>

\* Mutant: every event is looked up.
DoEmitAsync ==
    /\ Doing("emit")
    /\ emitted' = emitted + 1
    /\ lookups' = lookups \cup {emitted'}
    /\ looked' = IF Head(work).lookup THEN looked \cup {emitted'} ELSE looked
    /\ UNCHANGED <<inSink, delivered, dropped>>
    /\ UNCHANGED <<link, sessionKey, feed, outbox, upstream, pages, left>>

\* emit(): an event that needs a lookup leaves the thread, any other goes into
\* the sink at once.
DoEmit ==
    /\ Doing("emit")
    /\ emitted' = emitted + 1
    /\ IF Head(work).lookup
       THEN /\ looked' = looked \cup {emitted'}
            /\ lookups' = lookups \cup {emitted'}
            /\ UNCHANGED <<inSink, delivered, dropped>>
       ELSE /\ TryEmitNext(Listener, emitted')
            /\ UNCHANGED <<looked, lookups>>
    /\ UNCHANGED <<link, sessionKey, feed, outbox, upstream, pages, left>>

----------------------------------------------------------------------------
(* The lookups.                                                            *)

\* Mutant: a lookup that fails takes its event with it.
LookupEndsQuietly(n) ==
    /\ n \in lookups
    /\ lookups' = lookups \ {n}
    /\ TryEmitNext(n, n) \/ UNCHANGED <<inSink, delivered, dropped>>
    /\ UNCHANGED <<emitted, looked>>
    /\ UNCHANGED <<link, sessionKey, feed, work, outbox, upstream, pages, left>>

\* userInfo() gives the profile or throws: the event goes out, filled in or as
\* it was.
LookupEnds(n) ==
    /\ n \in lookups
    /\ lookups' = lookups \ {n}
    /\ TryEmitNext(n, n)
    /\ UNCHANGED <<emitted, looked>>
    /\ UNCHANGED <<link, sessionKey, feed, work, outbox, upstream, pages, left>>

\* userInfo() gives null for a user the upstream does not list: an empty Mono.
LookupEmpty(n) ==
    /\ n \in lookups
    /\ lookups' = lookups \ {n}
    /\ dropped' = dropped \cup {n}
    /\ UNCHANGED <<emitted, looked, inSink, delivered>>
    /\ UNCHANGED <<link, sessionKey, feed, work, outbox, upstream, pages, left>>

\* The thread inside tryEmitNext returns from it.
LeaveSink ==
    /\ inSink # Nobody
    /\ inSink' = Nobody
    /\ UNCHANGED <<emitted, looked, lookups, delivered, dropped>>
    /\ UNCHANGED <<link, sessionKey, feed, work, outbox, upstream, pages, left>>

----------------------------------------------------------------------------
(* The socket and its peer.                                                *)

\* attemptConnect() succeeded: the login packet is sent.
Open ==
    /\ link = "down"
    /\ link' = "open"
    /\ outbox' = Append(outbox, [live |-> TRUE, packet |-> [kind |-> "login"]])
    /\ feed' = <<>>
    /\ pushed' = 0 /\ acked' = <<>>
    /\ pages' = [c \in Chains |-> {}]
    /\ UNCHANGED <<sessionKey, work, events, left>>

\* The upstream pushes to a session that it has accepted.
Push(packet) ==
    /\ link = "ready"
    /\ left > 0
    /\ left' = left - 1
    /\ pushed' = IF packet.flag = "push" THEN pushed + 1 ELSE pushed
    /\ feed' = Append(feed, [id |-> pushed', packet |-> packet])
    /\ UNCHANGED <<link, sessionKey, work, outbox, events, acked, pages>>

\* onClose(), between two packets; what was on its way is gone.
Lose ==
    /\ link \in {"open", "ready"}
    /\ work = <<>> /\ inSink # Listener
    /\ left > 0
    /\ left' = left - 1
    /\ link' = "down"
    /\ feed' = <<>>
    /\ outbox' = Orphaned
    /\ UNCHANGED <<sessionKey, work, events, upstream, pages>>

----------------------------------------------------------------------------
Next ==
    \/ Transmit \/ Outbound
    \/ Receive \/ DoSend \/ DoKey \/ DoReplay \/ DoThrow \/ DoEmit
    \/ \E n \in lookups : LookupEnds(n) \/ LookupEmpty(n)
    \/ LeaveSink
    \/ Open
    \/ \E packet \in Pushes : Push(packet)
    \/ Lose

Spec == Init /\ [][Next]_vars

\* A send completes, the listener goes on with its packets, a lookup ends and
\* tryEmitNext returns.  Nothing is promised of the upstream's pushes, of HTTP
\* requests, and of when a socket is lost or opened again.
Fairness ==
    /\ WF_vars(Transmit)
    /\ WF_vars(Receive \/ DoSend \/ DoKey \/ DoReplay \/ DoThrow \/ DoEmit)
    /\ WF_vars(LeaveSink)
    /\ WF_vars(\E n \in lookups : LookupEnds(n) \/ LookupEmpty(n))

FairSpec == Spec /\ Fairness

----------------------------------------------------------------------------
(* Properties.                                                             *)

\* Packets sent, and what a handler does.
Outgoing == [kind : {"login", "message"}] \cup [kind : {"ack"}, id : Nat]
            \cup [kind : {"sync"}, chain : Chains, lastId : Nat]
Items == [do : {"key", "throw"}] \cup [do : {"emit"}, lookup : BOOLEAN]
         \cup [do : {"send"}, packet : Outgoing] \cup [do : {"replay"}, packet : Stored]

TypeOK ==
    /\ link \in {"down", "open", "ready", "dead"}
    /\ sessionKey \in BOOLEAN
    /\ outbox \in Seq([live : BOOLEAN, packet : Outgoing])
    /\ work \in Seq(Items)
    /\ emitted \in Nat
    /\ delivered \in Seq(1..emitted)
    /\ looked \cup dropped \subseteq 1..emitted
    /\ lookups \subseteq looked
    /\ inSink \in {Nobody, Listener} \cup looked
    /\ pushed \in Nat /\ acked \in Seq(Nat)
    /\ pages \in [Chains -> SUBSET Nat]
    /\ left \in Nat

\* "SendAck-before-parse": the upstream gets one acknowledgement for each push
\* of a socket, in their order, also for those that cannot be decoded: what it
\* has got is a prefix of what it pushed.
PushesAcked == acked = [i \in 1..Len(acked) |-> i] /\ Len(acked) <= pushed

\* No event reaches the subscribers twice, and only an event that waits for its
\* profile is overtaken by a later one.
OnlyLookupsLate ==
    \A i, j \in DOMAIN delivered :
        i < j => /\ delivered[i] # delivered[j]
                 /\ delivered[i] > delivered[j] => delivered[j] \in looked

\* An event is not forgotten while its profile is looked up, whether that
\* succeeds or fails: in the end it is delivered, unless it clashed with another
\* in the sink or names a user the upstream does not list.
EventsSettle == []<>(ToSet(delivered) \cup dropped = 1..emitted)

\* "has_more ... not whether this response's packet_list happened to be
\* non-empty": a session that stays up reads both stores to their last page,
\* over empty pages in the middle and whatever pokes and sends come between.
SyncCompletes ==
    link = "ready" ~> \/ \A c \in Chains : 1..Len(Pages[c]) \subseteq pages[c]
                      \/ link # "ready"

\* "each send waits for the previous to finish", also when that one fails: on a
\* socket that stays up the login goes out and every push is acknowledged,
\* behind whatever is left of the sends of the socket before.
SendsArrive ==
    []<>(link \in {"down", "dead"} \/ (link = "ready" /\ Len(acked) = pushed))

\* Decoding depends on the packet and the session key alone: its properties are
\* evaluated once, in the initial state, over the corpus.
Fresh == link = "down" /\ left = MaxIncidents

LiveEvent(packet) == EventOf(DecodeF2(packet, TRUE), packet)
ReplayEvent(packet) == EventOf(DecodeOfflinePacket(packet, TRUE), packet)
ReplayedOtherwise ==
    {packet \in Corpus : /\ packet.keyType \in {0, 1} /\ packet.len = "some"
                         /\ LiveEvent(packet) \notin {NoEvent, ReplayEvent(packet)}}

\* "Decoded push body - shared by live F2 frames and replayed offline packets":
\* an encrypted packet that gives an event when it is pushed gives the same one
\* when it is replayed to a client that was offline, if its keyType says that it
\* is encrypted and also if it says that it is not; in the second case unless the
\* ciphertext begins with a byte that the fallback takes for plain content.
OfflineReplaysLive ==
    Fresh => \A packet \in ReplayedOtherwise :
                packet.keyType = 0 /\ IsRecognizedMagic(packet.body.raw.magic)

\* "keyType is declared 0 (plaintext) in the header but the body is actually QQ-TEA
\* ciphertext - the decoder must still recover it via the defensive fallback
\* decrypt."  Broken: README, section 6.
CiphertextRecovered == Fresh => ReplayedOtherwise = {}

SelfVisits ==
    {packet \in Corpus :
        \E event \in {LiveEvent(packet), ReplayEvent(packet)} :
            event.type = "profile_visit" /\ event.user \in {"", Self}}

\* "drop it rather than surface a nonsensical you visited your own profile":
\* in neither shape of the push, live or replayed.
NoSelfVisit == Fresh => SelfVisits = {}

\* "the wire always sees exactly one event per upstream push".
ExactlyOneEvent ==
    \A n \in 1..emitted : n \in lookups \/ n \in ToSet(delivered)
=============================================================================
