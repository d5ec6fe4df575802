-------------------------- MODULE ImSessionProofs --------------------------
(***************************************************************************)
(* Proofs about ImSession, for any pushes, any offline stores and any      *)
(* number of incidents.                                                    *)
(***************************************************************************)
EXTENDS ImSession, TLAPS

\* What can be on its way from the upstream.
Entries ==
    {[id |-> n, packet |-> packet] : n \in Nat, packet \in Pushes}
    \cup {LoginAccepted} \cup {Answer(chain, n) : chain \in Chains, n \in Nat}

IsPush(entry) == entry.packet.flag = "push"
IsAck(item) == item.do = "send" /\ item.packet.kind = "ack"
IsLiveAck(sent) == sent.live /\ sent.packet.kind = "ack"

Types == TypeOK /\ feed \in Seq(Entries)

\* The acknowledgements of pushes up to a have been sent or queued, ...
Queued(a) ==
    /\ Len(acked) <= a
    /\ \A i \in DOMAIN outbox :
          IsLiveAck(outbox[i]) => outbox[i].packet.id \in Len(acked) + 1 .. a
    /\ \A i, j \in DOMAIN outbox :
          IsLiveAck(outbox[i]) /\ IsLiveAck(outbox[j]) /\ i < j =>
              outbox[i].packet.id < outbox[j].packet.id
    /\ \A n \in Len(acked) + 1 .. a :
          \E i \in DOMAIN outbox : IsLiveAck(outbox[i]) /\ outbox[i].packet.id = n

\* ... those up to b have been received, the last of them perhaps waiting to be
\* acknowledged as the first thing its handler does, ...
InHand(a, b) ==
    /\ \A i \in DOMAIN work : i > 1 => ~IsAck(work[i])
    /\ \/ work # <<>> /\ IsAck(work[1]) /\ work[1].packet.id = a + 1 /\ b = a + 1
       \/ (work = <<>> \/ ~IsAck(work[1])) /\ b = a

\* ... and the others are on their way.
Coming(b) ==
    /\ b <= pushed
    /\ \A i \in DOMAIN feed : IsPush(feed[i]) => feed[i].id \in b + 1 .. pushed
    /\ \A i, j \in DOMAIN feed :
          IsPush(feed[i]) /\ IsPush(feed[j]) /\ i < j => feed[i].id < feed[j].id
    /\ \A n \in b + 1 .. pushed : \E i \in DOMAIN feed : IsPush(feed[i]) /\ feed[i].id = n

Up == link \in {"open", "ready"}
Pipeline == Up => \E a, b \in 0 .. pushed : Queued(a) /\ InHand(a, b) /\ Coming(b)

\* Nothing of a lost socket is handled, and none of its sends arrives any more.
Cleared ==
    link = "down" => work = <<>> /\ \A i \in DOMAIN outbox : ~outbox[i].live

\* An event that is looked up has not been delivered.
Waiting == \A i \in DOMAIN delivered : delivered[i] \notin lookups

IInv == Types /\ Pipeline /\ Cleared /\ PushesAcked /\ Waiting /\ OnlyLookupsLate

----------------------------------------------------------------------------
(* The handlers.                                                           *)

\* Only the handler of a push acknowledges, and does so first.
Silent(w) == w \in Seq(Items) /\ \A i \in DOMAIN w : ~IsAck(w[i])

LEMMA SilentCat ==
    ASSUME NEW v, NEW w, Silent(v), Silent(w)
    PROVE  Silent(v \o w)
  BY DEF Silent

LEMMA SilentEmpty == Silent(<<>>)
  BY DEF Silent

LEMMA SilentOne == ASSUME NEW item \in Items, ~IsAck(item) PROVE Silent(<<item>>)
  BY DEF Silent

LEMMA EmitSilent == \A event : Emit(event) \in Items /\ ~IsAck(Emit(event))
  BY DEF Emit, Items, IsAck, NeedsLookup

LEMMA SyncSilent ==
    \A chain \in Chains, n \in Nat :
        Send(Sync(chain, n)) \in Items /\ ~IsAck(Send(Sync(chain, n)))
  BY DEF Send, Sync, Items, Outgoing, IsAck

LEMMA DispatchSilent ==
    ASSUME NEW push, NEW packet
    PROVE  Silent(DispatchPush(push, packet))
  <1>1. Silent(<<Send(Sync("group", 0))>>)
    BY SyncSilent, SilentOne DEF Chains
  <1>2. \A event : Silent(EmitAny(event))
    BY EmitSilent, SilentOne, SilentEmpty DEF EmitAny
  <1>3. QED BY <1>1, <1>2 DEF DispatchPush

LEMMA PageSilent ==
    ASSUME NEW chain \in Chains, NEW data,
           Path(data, ListKey(chain), <<>>) \in Seq(Stored), Path(data, "last_id", 0) \in Nat
    PROVE  Silent(HandlePage(data, chain))
  <1>1. CASE ~NonNull(data, ListKey(chain))
    BY <1>1, SilentEmpty DEF HandlePage
  <1>2. CASE NonNull(data, ListKey(chain))
    <2> DEFINE list == data[ListKey(chain)]
               replays == [i \in DOMAIN list |-> Replay(list[i])]
               more == IF HasMore(data, list) /\ NonNull(data, "last_id")
                       THEN <<Send(Sync(chain, data.last_id))>> ELSE <<>>
    <2>1. list \in Seq(Stored)
      BY <1>2 DEF Path
    <2>2. Silent(replays)
      <3>1. \A packet \in Stored : Replay(packet) \in Items /\ ~IsAck(Replay(packet))
        BY DEF Replay, Items, IsAck
      <3>2. replays \in Seq(Items)
        BY <2>1, <3>1
      <3>3. QED BY <2>1, <3>1, <3>2 DEF Silent
    <2>3. Silent(more)
      <3>1. CASE HasMore(data, list) /\ NonNull(data, "last_id")
        <4>1. data.last_id \in Nat
          BY <3>1 DEF Path
        <4>2. QED BY <3>1, <4>1, SyncSilent, SilentOne
      <3>2. CASE ~(HasMore(data, list) /\ NonNull(data, "last_id"))
        BY <3>2, SilentEmpty
      <3>3. QED BY <3>1, <3>2
    <2>4. HandlePage(data, chain) = replays \o more
      BY <1>2 DEF HandlePage
    <2>5. QED BY <2>2, <2>3, <2>4, SilentCat
  <1>3. QED BY <1>1, <1>2

LEMMA LoginSilent == \A data : Silent(HandleLogin(data))
  <1>1. Key \in Items /\ ~IsAck(Key)
    BY DEF Key, Items, IsAck
  <1>2. \A chain \in Chains : Send(Sync(chain, 0)) \in Items /\ ~IsAck(Send(Sync(chain, 0)))
    BY SyncSilent
  <1>3. ASSUME NEW c \in Items, NEW d \in Items, NEW e \in Items, NEW f \in Items,
               ~IsAck(c), ~IsAck(d), ~IsAck(e), ~IsAck(f)
        PROVE  Silent(<<c, d, e, f>>)
    <2>1. <<c, d, e, f>> \in Seq(Items)
      OBVIOUS
    <2>2. \A i \in DOMAIN <<c, d, e, f>> : ~IsAck(<<c, d, e, f>>[i])
      BY <1>3
    <2>3. QED BY <2>1, <2>2 DEF Silent
  <1>4. \A data : Has(data, "session_key") => Silent(HandleLogin(data))
    BY <1>1, <1>2, <1>3, EmitSilent DEF HandleLogin, Chains
  <1>5. \A data : ~Has(data, "session_key") => Silent(HandleLogin(data))
    BY SilentEmpty DEF HandleLogin
  <1>6. QED BY <1>4, <1>5

\* An entry is a push or typing frame, or an answer to a request.
LEMMA AnswerKinds ==
    ASSUME NEW chain \in Chains, NEW n \in Nat
    PROVE  \E data :
              /\ Answer(chain, n) = [id |-> n + 1,
                                     packet |-> Response(IF chain = "dm" THEN "offline" ELSE "group", data)]
              /\ Path(data, ListKey(chain), <<>>) \in Seq(Stored)
              /\ Path(data, "last_id", 0) \in Nat
  <1> DEFINE page == IF n < Len(Pages[chain]) THEN Pages[chain][n + 1]
                     ELSE IF chain = "dm" THEN [packet_list |-> <<>>] ELSE [msgs |-> <<>>]
  <1>1. Answer(chain, n) = [id |-> n + 1,
                            packet |-> Response(IF chain = "dm" THEN "offline" ELSE "group", page)]
    BY DEF Answer
  <1>2. Path(page, ListKey(chain), <<>>) \in Seq(Stored) /\ Path(page, "last_id", 0) \in Nat
    <2>1. CASE n < Len(Pages[chain])
      <3>1. n + 1 \in 1 .. Len(Pages[chain]) /\ page = Pages[chain][n + 1]
        BY <2>1, SessionAssumption
      <3>2. QED BY <3>1, SessionAssumption
    <2>2. CASE ~(n < Len(Pages[chain])) /\ chain = "dm"
      <3>1. page = [packet_list |-> <<>>]
        BY <2>2
      <3>2. ListKey(chain) = "packet_list"
        BY <2>2 DEF ListKey
      <3> HIDE DEF page
      <3>3. DOMAIN page = {"packet_list"} /\ page["packet_list"] = <<>>
        BY <3>1
      <3>4. QED BY <3>2, <3>3 DEF Path, NonNull
    <2>3. CASE ~(n < Len(Pages[chain])) /\ chain = "group"
      <3>1. page = [msgs |-> <<>>]
        BY <2>3
      <3>2. ListKey(chain) = "msgs"
        BY <2>3 DEF ListKey
      <3> HIDE DEF page
      <3>3. DOMAIN page = {"msgs"} /\ page["msgs"] = <<>>
        BY <3>1
      <3>4. QED BY <3>2, <3>3 DEF Path, NonNull
    <2>4. QED BY <2>1, <2>2, <2>3 DEF Chains
  <1>3. QED BY <1>1, <1>2

LEMMA EntryTypes ==
    ASSUME NEW entry \in Entries
    PROVE  entry.id \in Nat /\ (entry.packet \in Pushes \/ ~IsPush(entry))
  <1>1. CASE entry \in {[id |-> n, packet |-> packet] : n \in Nat, packet \in Pushes}
    BY <1>1
  <1>2. CASE entry = LoginAccepted
    BY <1>2 DEF LoginAccepted, Response, IsPush
  <1>3. ASSUME NEW chain \in Chains, NEW n \in Nat, entry = Answer(chain, n)
        PROVE  entry.id \in Nat /\ ~IsPush(entry)
    <2>1. PICK data :
             Answer(chain, n) = [id |-> n + 1,
                                 packet |-> Response(IF chain = "dm" THEN "offline" ELSE "group", data)]
      BY AnswerKinds
    <2>2. QED BY <1>3, <2>1 DEF Response, IsPush
  <1>4. QED BY <1>1, <1>2, <1>3 DEF Entries

LEMMA ResponseSilent ==
    ASSUME NEW entry \in Entries, entry.packet \notin Pushes \/ entry.packet.flag = "response"
    PROVE  Silent(HandlePacket(entry.packet, entry.id))
  <1>1. ASSUME NEW cmd \in {"login", "offline", "group"}, NEW data, entry.packet = Response(cmd, data)
        PROVE  HandlePacket(entry.packet, entry.id) =
                  CASE cmd = "offline" -> HandlePage(data, "dm")
                    [] cmd = "group"   -> HandlePage(data, "group")
                    [] OTHER           -> HandleLogin(data)
    <2>1. HandlePacket(entry.packet, entry.id) = HandleF1(Response(cmd, data))
      BY <1>1 DEF HandlePacket, Response
    <2>2. DecodeF1(Response(cmd, data)) = [data |-> data]
      BY DEF DecodeF1, Response, Doc, Path, NonNull
    <2>3. Parses([data |-> data]) /\ Path([data |-> data], "data", NoNode) = data
      BY DEF Parses, Path, NonNull
    <2>4. Response(cmd, data).cmd = cmd /\ cmd # "pong"
      BY DEF Response
    <2>5. QED BY <2>1, <2>2, <2>3, <2>4 DEF HandleF1
  <1>2. CASE entry = LoginAccepted
    BY <1>1, <1>2, LoginSilent DEF LoginAccepted
  <1>3. ASSUME NEW chain \in Chains, NEW n \in Nat, entry = Answer(chain, n)
        PROVE  Silent(HandlePacket(entry.packet, entry.id))
    <2>1. PICK data :
             /\ Answer(chain, n) = [id |-> n + 1,
                                    packet |-> Response(IF chain = "dm" THEN "offline" ELSE "group", data)]
             /\ Path(data, ListKey(chain), <<>>) \in Seq(Stored)
             /\ Path(data, "last_id", 0) \in Nat
      BY AnswerKinds
    <2>2. entry.packet = Response(IF chain = "dm" THEN "offline" ELSE "group", data)
      BY <1>3, <2>1
    <2>3. HandlePacket(entry.packet, entry.id) = HandlePage(data, chain)
      BY <1>1, <2>2 DEF Chains
    <2>4. QED BY <2>1, <2>3, PageSilent
  <1>4. QED BY <1>2, <1>3, SessionAssumption DEF Entries

LEMMA ThrowSilent == Silent(<<Throw>>)
  <1>1. Throw \in Items /\ ~IsAck(Throw)
    BY DEF Throw, Items, IsAck
  <1>2. QED BY <1>1, SilentOne

LEMMA PushAcks ==
    ASSUME NEW entry \in Entries, IsPush(entry)
    PROVE  \E w : /\ Silent(w)
                  /\ HandlePacket(entry.packet, entry.id) = <<Send(Ack(entry.id))>> \o w
  <1>1. CASE entry.packet.cmd = "msg_ack"
    <2> DEFINE w == IF entry.packet.len = "negative" THEN <<Throw>> ELSE EmitAny(DecodeMsgAck(entry.packet))
    <2>1. Silent(w)
      BY ThrowSilent, EmitSilent, SilentOne, SilentEmpty DEF EmitAny
    <2>2. HandlePacket(entry.packet, entry.id) = <<Send(Ack(entry.id))>> \o w
      BY <1>1 DEF HandlePacket, HandleMsgAck, IsPush
    <2>3. QED BY <2>1, <2>2
  <1>2. CASE entry.packet.cmd # "msg_ack"
    <2> DEFINE w == IF entry.packet.len = "negative" /\ sessionKey THEN <<Throw>>
                    ELSE DispatchPush(DecodeF2(entry.packet, sessionKey), entry.packet)
    <2>1. Silent(w)
      BY ThrowSilent, DispatchSilent
    <2>2. HandlePacket(entry.packet, entry.id) = HandlePush(entry.packet, entry.id)
      BY <1>2 DEF HandlePacket, IsPush
    <2>3. HandlePush(entry.packet, entry.id) = <<Send(Ack(entry.id))>> \o w
      BY DEF HandlePush
    <2>4. QED BY <2>1, <2>2, <2>3
  <1>3. QED BY <1>1, <1>2

LEMMA OthersSilent ==
    ASSUME NEW entry \in Entries, ~IsPush(entry)
    PROVE  Silent(HandlePacket(entry.packet, entry.id))
  <1>1. CASE entry.packet \notin Pushes \/ entry.packet.flag = "response"
    BY <1>1, ResponseSilent
  <1> DEFINE packet == entry.packet
  <1>2. CASE packet.cmd = "msg_ack" /\ packet.flag # "push"
    <2>1. HandlePacket(packet, entry.id) = HandleMsgAck(packet, entry.id)
      BY <1>2 DEF HandlePacket
    <2>2. Silent(IF packet.len = "negative" THEN <<Throw>> ELSE EmitAny(DecodeMsgAck(packet)))
      BY ThrowSilent, EmitSilent, SilentOne, SilentEmpty DEF EmitAny
    <2>3. QED BY <1>2, <2>1, <2>2, SilentEmpty, SilentCat DEF HandleMsgAck
  <1>3. CASE packet.cmd = "typing" /\ packet.flag = "typing"
    <2>1. HandlePacket(packet, entry.id) =
             IF packet.len # "negative" THEN <<Emit(Event("typing", packet.from, TRUE))>> ELSE <<Throw>>
      BY <1>3 DEF HandlePacket
    <2>2. QED BY <2>1, ThrowSilent, EmitSilent, SilentOne
  <1>4. CASE /\ packet.cmd # "msg_ack" /\ packet.flag \notin {"push", "response"}
             /\ ~(packet.cmd = "typing" /\ packet.flag = "typing")
    <2>1. HandlePacket(packet, entry.id) = <<>>
      BY <1>4 DEF HandlePacket
    <2>2. QED BY <2>1, SilentEmpty
  <1>5. QED BY <1>1, <1>2, <1>3, <1>4 DEF IsPush

----------------------------------------------------------------------------
(* Decoding, whatever the packets.                                         *)

LEMMA IgnoredGivesNothing == \A packet : EventOf(Ignored, packet) = NoEvent
  BY DEF EventOf, Ignored

\* No packet, live or replayed, makes a visit of nobody or of the account itself.
LEMMA NoVisitOfSelf ==
    ASSUME NEW push, NEW packet, EventOf(push, packet).type = "profile_visit"
    PROVE  EventOf(push, packet).user \notin {"", Self}
  <1> DEFINE root == push.doc
             event == EventOf(push, packet)
  <1> USE DEF Event, NoEvent
  <1>1. event = Map(root, packet)
    BY DEF EventOf
  <1>2. event.type = "profile_visit"
    OBVIOUS
  <1>3. event.user \notin {"", Self}
    <2> HIDE DEF event, root
    <2>1. CASE Has(root, "msg_type")
      <3>1. event = MapMessage(root, packet)
        BY <1>1, <2>1 DEF Map
      <3>2. MapIntro(root, Path(root, "from_id", packet.from)).type # "profile_visit"
        BY DEF MapIntro
      <3>3. Path(root, "msg_type", "null") = "new_voice_visitor"
        BY <1>2, <3>1, <3>2 DEF MapMessage
      <3>4. event = MapProfileVisit(root, packet)
        BY <3>1, <3>3 DEF MapMessage
      <3>5. QED BY <1>2, <3>4 DEF MapProfileVisit
    <2>2. CASE ~Has(root, "msg_type") /\ Has(root, "notify_type")
      <3>1. event = MapNotify(root, packet)
        BY <1>1, <2>2 DEF Map
      <3>2. ~Has(root, "cname")
        BY <1>2, <3>1 DEF MapNotify
      <3>3. Path(root, "notify_type", "") \notin SelfTypes
        <4>1. \A type \in SelfTypes : SelfEvent(type) # "profile_visit"
          BY DEF SelfTypes, SelfEvent
        <4>2. QED BY <1>2, <3>1, <3>2, <4>1 DEF MapNotify
      <3>4. Path(root, "notify_type", "") # "53"
        BY <1>2, <3>1, <3>2, <3>3 DEF MapNotify
      <3>5. QED BY <1>2, <3>1, <3>2, <3>3, <3>4 DEF MapNotify
    <2>3. QED BY <1>1, <1>2, <2>1, <2>2 DEF Map
  <1>4. QED BY <1>3

\* "drop it rather than surface a nonsensical you visited your own profile":
\* for every packet the upstream may push or keep, in both shapes of a visit,
\* with whatever header and fields.
THEOREM NoSelfVisitHolds == Spec => []NoSelfVisit
  <1>1. SelfVisits = {}
    BY NoVisitOfSelf DEF SelfVisits, LiveEvent, ReplayEvent
  <1>2. NoSelfVisit
    BY <1>1 DEF NoSelfVisit
  <1>3. QED BY <1>2, PTL

\* "shared by live F2 frames and replayed offline packets": an encrypted packet
\* that gives an event when it is pushed gives the same one when it is replayed
\* from an offline page, also by the fallback for a keyType of 0, whatever its
\* header, its packing and its document; but not if its keyType is 0 and its
\* ciphertext begins like plain content.
THEOREM OfflineReplaysLiveHolds == Spec => []OfflineReplaysLive
  <1>1. ASSUME NEW packet, packet.keyType \in {0, 1}, packet.len = "some",
               LiveEvent(packet) # NoEvent,
               ~(packet.keyType = 0 /\ IsRecognizedMagic(packet.body.raw.magic))
        PROVE  LiveEvent(packet) = ReplayEvent(packet)
    <2> DEFINE dec == packet.body.dec
    <2>1. DecodeF2(packet, TRUE) # Ignored
      BY <1>1, IgnoredGivesNothing DEF LiveEvent
    <2>2. dec \notin {Broken, TooShort} /\ DecodeF2(packet, TRUE) = DecodePushBody(dec)
      BY <1>1, <2>1 DEF DecodeF2
    <2>3. \/ DecodePushBody(dec) \in {Ignored, Poke}
          \/ dec.magic \in {"receipt", "zlib", "json"}
      BY DEF DecodePushBody
    <2>4. EventOf(Poke, packet) = NoEvent
      BY DEF EventOf, Poke
    <2>5. IsRecognizedMagic(dec.magic)
      BY <1>1, <2>1, <2>2, <2>3, <2>4 DEF IsRecognizedMagic, LiveEvent
    <2>6. OfflinePayload(packet, TRUE) = dec
      BY <1>1, <2>2, <2>5 DEF OfflinePayload
    <2>7. dec.magic # "gzip"
      BY <2>1, <2>2 DEF DecodePushBody
    <2>8. DecodeOfflinePacket(packet, TRUE) = DecodePushBody(dec)
      BY <1>1, <2>6, <2>7 DEF DecodeOfflinePacket
    <2>9. QED BY <2>2, <2>8 DEF LiveEvent, ReplayEvent
  <1>2. OfflineReplaysLive
    BY <1>1 DEF OfflineReplaysLive, ReplayedOtherwise
  <1>3. QED BY <1>2, PTL

----------------------------------------------------------------------------
(* Types.                                                                  *)

LEMMA EmptySeq == \A S : <<>> \in Seq(S)
  OBVIOUS

LEMMA AppendSeq == \A S, x : \A s \in Seq(S) : x \in S => Append(s, x) \in Seq(S)
  OBVIOUS

LEMMA TailSeq ==
    \A S : \A s \in Seq(S) : s # <<>> => Head(s) \in S /\ Tail(s) \in Seq(S)
  OBVIOUS

LEMMA WiderSeq == \A S, T : S \subseteq T => Seq(S) \subseteq Seq(T)
  <1>1. ASSUME NEW S, NEW T, S \subseteq T, NEW s \in Seq(S) PROVE s \in Seq(T)
    <2>1. s = [i \in 1 .. Len(s) |-> s[i]] /\ Len(s) \in Nat
      OBVIOUS
    <2>2. \A i \in 1 .. Len(s) : s[i] \in T
      BY <1>1
    <2>3. QED BY <2>1, <2>2
  <1>2. QED BY <1>1

\* The SequentialSender's entries.
Sends == [live : BOOLEAN, packet : Outgoing]

LEMMA TypesInit == Init => Types
  <1> SUFFICES ASSUME Init PROVE Types
    OBVIOUS
  <1>1. feed \in Seq(Entries) /\ outbox \in Seq(Sends) /\ work \in Seq(Items)
        /\ delivered \in Seq(1 .. emitted) /\ acked \in Seq(Nat)
    BY EmptySeq DEF Init
  <1>2. QED BY <1>1, SessionAssumption DEF Init, Types, TypeOK, Chains, Nobody, Sends

LEMMA HandlerTypes ==
    ASSUME NEW entry \in Entries
    PROVE  HandlePacket(entry.packet, entry.id) \in Seq(Items)
  <1>1. CASE ~IsPush(entry)
    BY <1>1, OthersSilent DEF Silent
  <1>2. CASE IsPush(entry)
    <2>1. PICK w : /\ Silent(w)
                   /\ HandlePacket(entry.packet, entry.id) = <<Send(Ack(entry.id))>> \o w
      BY <1>2, PushAcks
    <2>2. Send(Ack(entry.id)) \in Items
      BY EntryTypes DEF Send, Ack, Items, Outgoing
    <2>3. QED BY <2>1, <2>2 DEF Silent
  <1>3. QED BY <1>1, <1>2

\* What an item of the handler's list carries.
LEMMA ItemTypes ==
    ASSUME NEW item \in Items
    PROVE  /\ item.do = "send" => item.packet \in Outgoing
           /\ item.do = "replay" => item.packet \in Stored
           /\ item.do = "emit" => item.lookup \in BOOLEAN
  BY DEF Items

LEMMA EnqueueTypes ==
    ASSUME Types, NEW packet \in Outgoing, Enqueue(packet)
    PROVE  outbox' \in Seq(Sends)
  <1>1. outbox \in Seq(Sends)
    BY DEF Types, TypeOK, Sends
  <1>2. [live |-> TRUE, packet |-> packet] \in Sends
    BY DEF Sends
  <1>3. QED BY <1>1, <1>2, AppendSeq DEF Enqueue

LEMMA SinkTypes ==
    ASSUME Types, NEW thread, NEW n \in 1 .. emitted',
           thread \in {Nobody, Listener} \cup looked', emitted' \in Nat, emitted <= emitted',
           looked \subseteq looked', TryEmitNext(thread, n)
    PROVE  /\ delivered' \in Seq(1 .. emitted')
           /\ dropped' \subseteq 1 .. emitted'
           /\ inSink' \in {Nobody, Listener} \cup looked'
  <1>1. 1 .. emitted \subseteq 1 .. emitted' /\ delivered \in Seq(1 .. emitted)
    BY DEF Types, TypeOK
  <1>2. delivered \in Seq(1 .. emitted')
    BY <1>1, WiderSeq
  <1>3. CASE inSink = Nobody
    <2>1. delivered' \in Seq(1 .. emitted')
      BY <1>2, <1>3, AppendSeq DEF TryEmitNext
    <2>2. QED BY <1>1, <1>3, <2>1 DEF TryEmitNext, Types, TypeOK
  <1>4. CASE inSink # Nobody
    BY <1>1, <1>2, <1>4 DEF TryEmitNext, Types, TypeOK
  <1>5. QED BY <1>3, <1>4

LEMMA TypesStep == ASSUME Types, [Next]_vars PROVE Types'
  <1> USE DEF Types, TypeOK
  <1>1. CASE Transmit
    <2>1. Head(outbox).packet \in Outgoing /\ outbox' \in Seq(Sends)
      <3>1. Head(outbox) \in Sends /\ Tail(outbox) \in Seq(Sends)
        BY <1>1, TailSeq DEF Transmit, Sends
      <3>2. QED BY <1>1, <3>1 DEF Transmit, Sends
    <2>2. feed' \in Seq(Entries)
      <3>1. LoginAccepted \in Entries
        BY DEF Entries
      <3>2. \A packet \in Outgoing : packet.kind = "sync" =>
               Answer(packet.chain, packet.lastId) \in Entries
        BY DEF Entries, Outgoing
      <3>3. feed' = feed \/ \E entry \in Entries : feed' = Append(feed, entry)
        BY <1>1, <2>1, <3>1, <3>2 DEF Transmit
      <3>4. QED BY <3>3, AppendSeq
    <2>3. acked' \in Seq(Nat)
      <3>1. \A packet \in Outgoing : packet.kind = "ack" => packet.id \in Nat
        BY DEF Outgoing
      <3>2. QED BY <1>1, <2>1, <3>1 DEF Transmit
    <2>4. QED BY <1>1, <2>1, <2>2, <2>3 DEF Transmit, events, Sends
  <1>2. CASE Outbound
    <2>1. outbox' \in Seq(Sends)
      BY <1>2, EnqueueTypes DEF Outbound, Outgoing
    <2>2. QED BY <1>2, <2>1 DEF Outbound, events, upstream, Sends
  <1>3. CASE Receive
    <2>1. Head(feed) \in Entries /\ feed' \in Seq(Entries)
      BY <1>3, TailSeq DEF Receive
    <2>2. work' \in Seq(Items)
      BY <1>3, <2>1, HandlerTypes DEF Receive
    <2>3. pages' \in [Chains -> SUBSET Nat]
      BY <1>3, <2>1, EntryTypes DEF Receive, Brings
    <2>4. QED BY <1>3, <2>1, <2>2, <2>3 DEF Receive, events, upstream
  <1>4. CASE DoSend
    <2>1. Head(work).packet \in Outgoing /\ work' \in Seq(Items)
      BY <1>4, ItemTypes DEF DoSend, Doing
    <2>2. outbox' \in Seq(Sends)
      BY <1>4, <2>1, EnqueueTypes DEF DoSend
    <2>3. QED BY <1>4, <2>1, <2>2 DEF DoSend, events, upstream, Sends
  <1>5. CASE DoKey
    BY <1>5 DEF DoKey, Doing, events, upstream
  <1>6. CASE DoReplay
    <2> DEFINE packet == Head(work).packet
               v == DispatchPush(DecodeOfflinePacket(packet, sessionKey), packet)
    <2>1. v \in Seq(Items)
      BY DispatchSilent DEF Silent
    <2>2. Tail(work) \in Seq(Items) /\ work' = v \o Tail(work)
      BY <1>6 DEF DoReplay
    <2> HIDE DEF v
    <2>3. work' \in Seq(Items)
      BY <2>1, <2>2
    <2>4. QED BY <1>6, <2>3 DEF DoReplay, events, upstream
  <1>7. CASE DoThrow
    <2>1. Silent(<<Emit(Event("error", "", TRUE))>>)
      BY EmitSilent, SilentOne
    <2>2. work' \in Seq(Items)
      BY <1>7, <2>1 DEF DoThrow, Silent
    <2>3. QED BY <1>7, <2>2 DEF DoThrow, events, upstream
  <1>8. CASE DoEmit
    <2>1. emitted' = emitted + 1 /\ 1 .. emitted \subseteq 1 .. emitted'
      BY <1>8 DEF DoEmit
    <2>2. work' \in Seq(Items)
      BY <1>8 DEF DoEmit, Doing
    <2>3. CASE Head(work).lookup
      <3>1. delivered' \in Seq(1 .. emitted')
        BY <1>8, <2>1, <2>3, WiderSeq DEF DoEmit
      <3>2. QED BY <1>8, <2>1, <2>2, <2>3, <3>1 DEF DoEmit, upstream
    <2>4. CASE ~Head(work).lookup
      <3>1. /\ delivered' \in Seq(1 .. emitted')
            /\ dropped' \subseteq 1 .. emitted'
            /\ inSink' \in {Nobody, Listener} \cup looked'
        BY <1>8, <2>1, <2>4, SinkTypes DEF DoEmit
      <3>2. /\ UNCHANGED <<looked, lookups>>
            /\ UNCHANGED <<link, sessionKey, feed, outbox, pushed, acked, pages, left>>
        BY <1>8, <2>4 DEF DoEmit, upstream
      <3>3. looked' \cup dropped' \subseteq 1 .. emitted' /\ lookups' \subseteq looked'
        BY <2>1, <3>1, <3>2
      <3>4. emitted' \in Nat
        BY <2>1
      <3>5. QED BY <2>2, <3>1, <3>2, <3>3, <3>4
    <2>5. QED BY <2>3, <2>4
  <1>9. ASSUME NEW n \in lookups, LookupEnds(n) PROVE Types'
    <2>1. /\ delivered' \in Seq(1 .. emitted')
          /\ dropped' \subseteq 1 .. emitted'
          /\ inSink' \in {Nobody, Listener} \cup looked'
      BY <1>9, SinkTypes DEF LookupEnds
    <2>2. QED BY <1>9, <2>1 DEF LookupEnds, upstream
  <1>10. ASSUME NEW n \in lookups, LookupEmpty(n) PROVE Types'
    BY <1>10 DEF LookupEmpty, upstream
  <1>11. CASE LeaveSink
    BY <1>11 DEF LeaveSink, upstream
  <1>12. CASE Open
    <2>1. [live |-> TRUE, packet |-> [kind |-> "login"]] \in Sends /\ outbox \in Seq(Sends)
      BY DEF Sends, Outgoing
    <2>2. outbox' \in Seq(Sends)
      BY <1>12, <2>1, AppendSeq DEF Open
    <2>3. QED BY <1>12, <2>2, EmptySeq DEF Open, events, Chains, Sends
  <1>13. ASSUME NEW packet \in Pushes, Push(packet) PROVE Types'
    <2>1. pushed' \in Nat
      BY <1>13 DEF Push
    <2>2. [id |-> pushed', packet |-> packet] \in Entries
      BY <2>1 DEF Entries
    <2>3. feed' \in Seq(Entries)
      BY <1>13, <2>2, AppendSeq DEF Push
    <2>4. QED BY <1>13, <2>1, <2>3 DEF Push, events
  <1>14. CASE Lose
    <2>1. outbox' \in Seq(Sends)
      <3>1. outbox \in Seq(Sends)
        BY DEF Sends
      <3>2. \A sent \in Sends : [sent EXCEPT !.live = FALSE] \in Sends
        BY DEF Sends
      <3>3. outbox' = [i \in 1 .. Len(outbox) |-> [outbox[i] EXCEPT !.live = FALSE]]
        BY <1>14 DEF Lose, Orphaned
      <3>4. QED BY <3>1, <3>2, <3>3
    <2>2. QED BY <1>14, <2>1, EmptySeq DEF Lose, events, upstream, Sends
  <1>15. CASE UNCHANGED vars
    BY <1>15 DEF vars, events, upstream
  <1>16. QED BY <1>1, <1>2, <1>3, <1>4, <1>5, <1>6, <1>7, <1>8, <1>9, <1>10, <1>11,
               <1>12, <1>13, <1>14, <1>15 DEF Next

----------------------------------------------------------------------------
(* The order of events.                                                    *)

LEMMA DeliveredLast ==
    ASSUME Types, OnlyLookupsLate, NEW n, delivered' = Append(delivered, n), looked \subseteq looked',
           \A i \in DOMAIN delivered :
               delivered[i] # n /\ (delivered[i] > n => n \in looked')
    PROVE  OnlyLookupsLate'
  <1>1. delivered \in Seq(1 .. emitted)
    BY DEF Types, TypeOK
  <1>2. SUFFICES ASSUME NEW i \in DOMAIN delivered', NEW j \in DOMAIN delivered', i < j
                 PROVE  /\ delivered'[i] # delivered'[j]
                        /\ delivered'[i] > delivered'[j] => delivered'[j] \in looked'
    BY DEF OnlyLookupsLate
  <1>3. i \in DOMAIN delivered /\ delivered'[i] = delivered[i]
    BY <1>1, <1>2
  <1>4. CASE j \in DOMAIN delivered
    <2>1. delivered'[j] = delivered[j]
      BY <1>1, <1>4
    <2>2. QED BY <1>2, <1>3, <1>4, <2>1 DEF OnlyLookupsLate
  <1>5. CASE j \notin DOMAIN delivered
    <2>1. delivered'[j] = n
      BY <1>1, <1>2, <1>5
    <2>2. QED BY <1>3, <2>1
  <1>6. QED BY <1>4, <1>5

LEMMA DeliveredWaiting ==
    ASSUME Types, Waiting, NEW n, delivered' = Append(delivered, n), n \notin lookups',
           lookups' \subseteq lookups
    PROVE  Waiting'
  <1>1. delivered \in Seq(1 .. emitted)
    BY DEF Types, TypeOK
  <1>2. SUFFICES ASSUME NEW i \in DOMAIN delivered' PROVE delivered'[i] \notin lookups'
    BY DEF Waiting
  <1>3. CASE i \in DOMAIN delivered
    BY <1>1, <1>3 DEF Waiting
  <1>4. CASE i \notin DOMAIN delivered
    <2>1. delivered'[i] = n
      BY <1>1, <1>2, <1>4
    <2>2. QED BY <2>1
  <1>5. QED BY <1>3, <1>4

LEMMA EventsStep ==
    ASSUME Types, Waiting, OnlyLookupsLate, [Next]_vars
    PROVE  Waiting' /\ OnlyLookupsLate'
  <1>1. /\ \A i \in DOMAIN delivered : delivered[i] \in 1 .. emitted
        /\ lookups \subseteq looked /\ looked \subseteq 1 .. emitted /\ emitted \in Nat
    BY DEF Types, TypeOK
  <1>2. CASE UNCHANGED delivered /\ looked \subseteq looked' /\ lookups' \subseteq lookups
    BY <1>2 DEF Waiting, OnlyLookupsLate
  <1>3. CASE DoEmit /\ Head(work).lookup
    <2>1. /\ UNCHANGED delivered /\ looked' = looked \cup {emitted + 1}
          /\ lookups' = lookups \cup {emitted + 1}
      BY <1>3 DEF DoEmit
    <2>2. Waiting'
      BY <1>1, <2>1 DEF Waiting
    <2>3. OnlyLookupsLate'
      BY <2>1 DEF OnlyLookupsLate
    <2>4. QED BY <2>2, <2>3
  <1>4. CASE DoEmit /\ ~Head(work).lookup
    <2>1. UNCHANGED <<looked, lookups>>
      BY <1>4 DEF DoEmit
    <2>2. UNCHANGED delivered \/ delivered' = Append(delivered, emitted + 1)
      BY <1>4 DEF DoEmit, TryEmitNext
    <2>3. CASE delivered' = Append(delivered, emitted + 1)
      <3>1. /\ emitted + 1 \notin lookups'
            /\ \A i \in DOMAIN delivered :
                  delivered[i] # emitted + 1 /\ ~(delivered[i] > emitted + 1)
        BY <1>1, <2>1
      <3>2. QED BY <2>1, <2>3, <3>1, DeliveredLast, DeliveredWaiting
    <2>4. QED BY <1>2, <2>1, <2>2, <2>3
  <1>5. ASSUME NEW n \in lookups, LookupEnds(n) PROVE Waiting' /\ OnlyLookupsLate'
    <2>1. lookups' = lookups \ {n} /\ UNCHANGED looked
      BY <1>5 DEF LookupEnds
    <2>2. UNCHANGED delivered \/ delivered' = Append(delivered, n)
      BY <1>5 DEF LookupEnds, TryEmitNext
    <2>3. CASE delivered' = Append(delivered, n)
      <3>1. /\ n \notin lookups' /\ n \in looked'
            /\ \A i \in DOMAIN delivered : delivered[i] # n
        BY <1>1, <2>1 DEF Waiting
      <3>2. QED BY <2>1, <2>3, <3>1, DeliveredLast, DeliveredWaiting
    <2>4. QED BY <1>2, <2>1, <2>2, <2>3
  <1>6. ASSUME NEW n \in lookups, LookupEmpty(n) PROVE Waiting' /\ OnlyLookupsLate'
    BY <1>2, <1>6 DEF LookupEmpty
  <1>7. CASE LeaveSink \/ UNCHANGED events
    BY <1>2, <1>7 DEF LeaveSink, events
  <1>8. CASE Transmit \/ Outbound \/ Receive \/ DoSend \/ DoKey \/ DoReplay \/ DoThrow
             \/ Open \/ (\E packet \in Pushes : Push(packet)) \/ Lose \/ UNCHANGED vars
    BY <1>7, <1>8 DEF Transmit, Outbound, Receive, DoSend, DoKey, DoReplay, DoThrow,
                      Open, Push, Lose, vars
  <1>9. QED BY <1>3, <1>4, <1>5, <1>6, <1>7, <1>8 DEF Next

----------------------------------------------------------------------------
(* The way of a push to its acknowledgement: the upstream's feed, the      *)
(* handler, the sender's chain.                                            *)

LEMMA AppendIndex ==
    \A S, x : \A s \in Seq(S) :
        /\ DOMAIN Append(s, x) = DOMAIN s \cup {Len(s) + 1}
        /\ \A i \in DOMAIN s : Append(s, x)[i] = s[i] /\ i < Len(s) + 1
        /\ Append(s, x)[Len(s) + 1] = x
  OBVIOUS

LEMMA TailIndex ==
    \A S : \A s \in Seq(S) : s # <<>> =>
        /\ 1 \in DOMAIN s /\ Head(s) = s[1]
        /\ \A i \in DOMAIN Tail(s) : i + 1 \in DOMAIN s /\ i + 1 > 1 /\ Tail(s)[i] = s[i + 1]
        /\ \A i \in DOMAIN s : i # 1 => i - 1 \in DOMAIN Tail(s) /\ Tail(s)[i - 1] = s[i]
        /\ \A i \in DOMAIN s : i >= 1
  OBVIOUS

LEMMA QueuedOther ==
    ASSUME Types, NEW a \in Nat, Queued(a), UNCHANGED acked,
           NEW sent, ~IsLiveAck(sent), outbox' = Append(outbox, sent)
    PROVE  Queued(a)'
  <1>1. outbox \in Seq(Sends)
    BY DEF Types, TypeOK, Sends
  <1>2. /\ DOMAIN outbox' = DOMAIN outbox \cup {Len(outbox) + 1}
        /\ \A i \in DOMAIN outbox : outbox'[i] = outbox[i]
        /\ outbox'[Len(outbox) + 1] = sent
    BY <1>1, AppendIndex
  <1>3. \A i \in DOMAIN outbox' : IsLiveAck(outbox'[i]) => i \in DOMAIN outbox
    BY <1>2
  <1>4. QED BY <1>2, <1>3 DEF Queued

LEMMA QueuedAck ==
    ASSUME Types, NEW a \in Nat, Queued(a), UNCHANGED acked,
           outbox' = Append(outbox, [live |-> TRUE, packet |-> Ack(a + 1)])
    PROVE  Queued(a + 1)'
  <1> DEFINE sent == [live |-> TRUE, packet |-> Ack(a + 1)]
             l == Len(acked)
             last == Len(outbox) + 1
  <1>1. outbox \in Seq(Sends) /\ l \in Nat /\ l <= a
    BY DEF Types, TypeOK, Sends, Queued
  <1>2. IsLiveAck(sent) /\ sent.packet.id = a + 1
    BY DEF IsLiveAck, Ack
  <1> HIDE DEF sent
  <1>3. /\ DOMAIN outbox' = DOMAIN outbox \cup {last}
        /\ \A i \in DOMAIN outbox : outbox'[i] = outbox[i] /\ i < last
        /\ outbox'[last] = sent
    BY <1>1, AppendIndex DEF sent
  <1>4. \A i \in DOMAIN outbox' :
           IsLiveAck(outbox'[i]) => outbox'[i].packet.id \in l + 1 .. a + 1
    BY <1>1, <1>2, <1>3 DEF Queued
  <1>5. \A i \in DOMAIN outbox :
           IsLiveAck(outbox[i]) => outbox[i].packet.id < a + 1
    BY <1>1 DEF Queued
  <1>6. \A i, j \in DOMAIN outbox' :
           IsLiveAck(outbox'[i]) /\ IsLiveAck(outbox'[j]) /\ i < j =>
               outbox'[i].packet.id < outbox'[j].packet.id
    <2>1. SUFFICES ASSUME NEW i \in DOMAIN outbox', NEW j \in DOMAIN outbox',
                          IsLiveAck(outbox'[i]), IsLiveAck(outbox'[j]), i < j
                   PROVE  outbox'[i].packet.id < outbox'[j].packet.id
      OBVIOUS
    <2>2. i \in DOMAIN outbox
      BY <1>1, <1>3, <2>1
    <2>3. CASE j = last
      BY <1>2, <1>3, <1>5, <2>1, <2>2, <2>3
    <2>4. CASE j \in DOMAIN outbox
      BY <1>3, <2>1, <2>2, <2>4 DEF Queued
    <2>5. QED BY <1>3, <2>3, <2>4
  <1>7. \A n \in l + 1 .. a + 1 :
           \E i \in DOMAIN outbox' : IsLiveAck(outbox'[i]) /\ outbox'[i].packet.id = n
    <2>1. \A n \in l + 1 .. a :
             \E i \in DOMAIN outbox' : IsLiveAck(outbox'[i]) /\ outbox'[i].packet.id = n
      BY <1>3 DEF Queued
    <2>2. \E i \in DOMAIN outbox' : IsLiveAck(outbox'[i]) /\ outbox'[i].packet.id = a + 1
      BY <1>2, <1>3
    <2>3. \A n \in l + 1 .. a + 1 : n \in l + 1 .. a \/ n = a + 1
      BY <1>1
    <2>4. QED BY <2>1, <2>2, <2>3
  <1>8. Len(acked') = l /\ l <= a + 1
    BY <1>1
  <1> HIDE DEF l
  <1>9. QED BY <1>4, <1>6, <1>7, <1>8 DEF Queued

\* The head of the chain is sent: an acknowledgement is the one that is due.
LEMMA QueuedSent ==
    ASSUME Types, NEW a \in Nat, Queued(a), outbox # <<>>, outbox' = Tail(outbox),
           acked' = IF IsLiveAck(Head(outbox)) THEN Append(acked, Head(outbox).packet.id) ELSE acked
    PROVE  /\ IsLiveAck(Head(outbox)) => Head(outbox).packet.id = Len(acked) + 1 /\ Len(acked) + 1 <= a
           /\ Queued(a)'
  <1> DEFINE l == Len(acked)
  <1>1. outbox \in Seq(Sends) /\ acked \in Seq(Nat) /\ l \in Nat /\ l <= a
    BY DEF Types, TypeOK, Sends, Queued
  <1>2. /\ 1 \in DOMAIN outbox /\ Head(outbox) = outbox[1]
        /\ \A i \in DOMAIN outbox' : i + 1 \in DOMAIN outbox /\ i + 1 > 1 /\ outbox'[i] = outbox[i + 1]
        /\ \A i \in DOMAIN outbox : i # 1 => i - 1 \in DOMAIN outbox' /\ outbox'[i - 1] = outbox[i]
        /\ \A i \in DOMAIN outbox : i >= 1
    BY <1>1, TailIndex
  <1>3. \A i, j \in DOMAIN outbox' : i < j => i + 1 < j + 1
    BY <1>1
  <1>4. \A i, j \in DOMAIN outbox' :
           IsLiveAck(outbox'[i]) /\ IsLiveAck(outbox'[j]) /\ i < j =>
               outbox'[i].packet.id < outbox'[j].packet.id
    BY <1>2, <1>3 DEF Queued
  <1>5. CASE ~IsLiveAck(Head(outbox))
    <2>1. acked' = acked
      BY <1>5
    <2>2. \A i \in DOMAIN outbox' :
             IsLiveAck(outbox'[i]) => outbox'[i].packet.id \in l + 1 .. a
      BY <1>2 DEF Queued
    <2>3. \A n \in l + 1 .. a :
             \E i \in DOMAIN outbox' : IsLiveAck(outbox'[i]) /\ outbox'[i].packet.id = n
      <3>1. SUFFICES ASSUME NEW n \in l + 1 .. a
                     PROVE  \E i \in DOMAIN outbox' : IsLiveAck(outbox'[i]) /\ outbox'[i].packet.id = n
        OBVIOUS
      <3>2. PICK i \in DOMAIN outbox : IsLiveAck(outbox[i]) /\ outbox[i].packet.id = n
        BY <3>1 DEF Queued
      <3>3. i # 1
        BY <1>2, <1>5, <3>2
      <3>4. i - 1 \in DOMAIN outbox' /\ outbox'[i - 1] = outbox[i]
        BY <1>2, <3>3
      <3>5. QED BY <3>2, <3>4
    <2>4. QED BY <1>1, <1>4, <1>5, <2>1, <2>2, <2>3 DEF Queued
  <1>6. CASE IsLiveAck(Head(outbox))
    <2> DEFINE id == Head(outbox).packet.id
    <2>1. id \in l + 1 .. a
      BY <1>2, <1>6 DEF Queued
    <2>2. \A i \in DOMAIN outbox : i # 1 /\ IsLiveAck(outbox[i]) => id < outbox[i].packet.id
      <3>1. \A i \in DOMAIN outbox : i # 1 => 1 < i
        BY <1>1, <1>2
      <3>2. QED BY <1>2, <1>6, <3>1 DEF Queued
    <2>3. id = l + 1
      <3>1. l + 1 \in l + 1 .. a
        BY <1>1, <2>1
      <3>2. PICK i \in DOMAIN outbox : IsLiveAck(outbox[i]) /\ outbox[i].packet.id = l + 1
        BY <3>1 DEF Queued
      <3>3. CASE i = 1
        BY <1>2, <3>2, <3>3
      <3>4. CASE i # 1
        <4>1. id < l + 1
          BY <2>2, <3>2, <3>4
        <4>2. QED BY <1>1, <2>1, <4>1
      <3>5. QED BY <3>3, <3>4
    <2>4. l + 1 <= a
      BY <1>1, <2>1
    <2>5. Len(acked') = l + 1
      BY <1>1, <1>6, <2>1
    <2>6. \A i \in DOMAIN outbox' :
             IsLiveAck(outbox'[i]) => outbox'[i].packet.id \in l + 2 .. a
      <3>1. SUFFICES ASSUME NEW i \in DOMAIN outbox', IsLiveAck(outbox'[i])
                     PROVE  outbox'[i].packet.id \in l + 2 .. a
        OBVIOUS
      <3>2. i + 1 \in DOMAIN outbox /\ i + 1 # 1 /\ outbox'[i] = outbox[i + 1]
        BY <1>2
      <3>3. l + 1 < outbox'[i].packet.id
        BY <2>2, <2>3, <3>1, <3>2
      <3>4. outbox'[i].packet.id \in l + 1 .. a
        BY <3>1, <3>2 DEF Queued
      <3>5. QED BY <1>1, <3>3, <3>4
    <2>7. \A n \in l + 2 .. a :
             \E i \in DOMAIN outbox' : IsLiveAck(outbox'[i]) /\ outbox'[i].packet.id = n
      <3>1. SUFFICES ASSUME NEW n \in l + 2 .. a
                     PROVE  \E i \in DOMAIN outbox' : IsLiveAck(outbox'[i]) /\ outbox'[i].packet.id = n
        OBVIOUS
      <3>2. n \in l + 1 .. a /\ n # l + 1
        BY <1>1
      <3>3. PICK i \in DOMAIN outbox : IsLiveAck(outbox[i]) /\ outbox[i].packet.id = n
        BY <3>2 DEF Queued
      <3>4. i # 1
        BY <1>2, <2>3, <3>2, <3>3
      <3>5. i - 1 \in DOMAIN outbox' /\ outbox'[i - 1] = outbox[i]
        BY <1>2, <3>4
      <3>6. QED BY <3>3, <3>5
    <2>8. Len(acked') <= a /\ Len(acked') + 1 = l + 2
      BY <1>1, <2>4, <2>5
    <2> HIDE DEF l
    <2>9. Queued(a)'
      BY <1>4, <2>6, <2>7, <2>8 DEF Queued
    <2>10. QED BY <2>3, <2>4, <2>9 DEF l
  <1>7. QED BY <1>5, <1>6

LEMMA ComingOther ==
    ASSUME Types, NEW b \in Nat, Coming(b), UNCHANGED pushed,
           NEW entry, ~IsPush(entry), feed' = Append(feed, entry)
    PROVE  Coming(b)'
  <1>1. /\ DOMAIN feed' = DOMAIN feed \cup {Len(feed) + 1}
        /\ \A i \in DOMAIN feed : feed'[i] = feed[i]
        /\ feed'[Len(feed) + 1] = entry
    BY AppendIndex DEF Types
  <1>2. \A i \in DOMAIN feed' : IsPush(feed'[i]) => i \in DOMAIN feed
    BY <1>1
  <1>3. QED BY <1>1, <1>2 DEF Coming

LEMMA ComingPush ==
    ASSUME Types, NEW b \in Nat, Coming(b), pushed' = pushed + 1,
           NEW entry, IsPush(entry), entry.id = pushed + 1, feed' = Append(feed, entry)
    PROVE  Coming(b)'
  <1> DEFINE last == Len(feed) + 1
  <1>1. /\ DOMAIN feed' = DOMAIN feed \cup {last}
        /\ \A i \in DOMAIN feed : feed'[i] = feed[i] /\ i < last
        /\ feed'[last] = entry
    BY AppendIndex DEF Types
  <1>2. pushed \in Nat /\ b <= pushed /\ feed \in Seq(Entries)
    BY DEF Types, TypeOK, Coming
  <1>3. \A i \in DOMAIN feed : IsPush(feed[i]) => feed[i].id \in b + 1 .. pushed
    BY DEF Coming
  <1>4. \A i \in DOMAIN feed' : IsPush(feed'[i]) => feed'[i].id \in b + 1 .. pushed + 1
    BY <1>1, <1>2, <1>3
  <1>5. \A i, j \in DOMAIN feed' :
           IsPush(feed'[i]) /\ IsPush(feed'[j]) /\ i < j => feed'[i].id < feed'[j].id
    <2>1. SUFFICES ASSUME NEW i \in DOMAIN feed', NEW j \in DOMAIN feed',
                          IsPush(feed'[i]), IsPush(feed'[j]), i < j
                   PROVE  feed'[i].id < feed'[j].id
      OBVIOUS
    <2>2. i \in DOMAIN feed
      BY <1>1, <1>2, <2>1
    <2>3. CASE j = last
      <3>1. feed'[i].id \in b + 1 .. pushed
        BY <1>1, <1>3, <2>1, <2>2
      <3>2. QED BY <1>1, <1>2, <2>3, <3>1
    <2>4. CASE j \in DOMAIN feed
      BY <1>1, <2>1, <2>2, <2>4 DEF Coming
    <2>5. QED BY <1>1, <2>3, <2>4
  <1>6. \A n \in b + 1 .. pushed + 1 : \E i \in DOMAIN feed' : IsPush(feed'[i]) /\ feed'[i].id = n
    <2>1. \A n \in b + 1 .. pushed : \E i \in DOMAIN feed' : IsPush(feed'[i]) /\ feed'[i].id = n
      BY <1>1 DEF Coming
    <2>2. \E i \in DOMAIN feed' : IsPush(feed'[i]) /\ feed'[i].id = pushed + 1
      BY <1>1
    <2>3. \A n \in b + 1 .. pushed + 1 : n \in b + 1 .. pushed \/ n = pushed + 1
      BY <1>2
    <2>4. QED BY <2>1, <2>2, <2>3
  <1>7. b <= pushed'
    BY <1>2
  <1>8. QED BY <1>4, <1>5, <1>6, <1>7 DEF Coming

\* The first packet is taken: a push is the one that is due.
LEMMA ComingTaken ==
    ASSUME Types, NEW b \in Nat, Coming(b), UNCHANGED pushed, feed # <<>>, feed' = Tail(feed)
    PROVE  IF IsPush(Head(feed)) THEN Head(feed).id = b + 1 /\ Coming(b + 1)' ELSE Coming(b)'
  <1>1. pushed \in Nat /\ b <= pushed /\ feed \in Seq(Entries)
    BY DEF Types, TypeOK, Coming
  <1>2. /\ 1 \in DOMAIN feed /\ Head(feed) = feed[1]
        /\ \A i \in DOMAIN feed' : i + 1 \in DOMAIN feed /\ i + 1 > 1 /\ feed'[i] = feed[i + 1]
        /\ \A i \in DOMAIN feed : i # 1 => i - 1 \in DOMAIN feed' /\ feed'[i - 1] = feed[i]
        /\ \A i \in DOMAIN feed : i >= 1
    BY <1>1, TailIndex
  <1>3. \A i, j \in DOMAIN feed' : i < j => i + 1 < j + 1
    BY <1>1
  <1>4. \A i, j \in DOMAIN feed' :
           IsPush(feed'[i]) /\ IsPush(feed'[j]) /\ i < j => feed'[i].id < feed'[j].id
    BY <1>2, <1>3 DEF Coming
  <1>5. CASE ~IsPush(Head(feed))
    <2>1. \A i \in DOMAIN feed' : IsPush(feed'[i]) => feed'[i].id \in b + 1 .. pushed
      BY <1>2 DEF Coming
    <2>2. ASSUME NEW n \in b + 1 .. pushed
          PROVE  \E i \in DOMAIN feed' : IsPush(feed'[i]) /\ feed'[i].id = n
      <3>1. PICK i \in DOMAIN feed : IsPush(feed[i]) /\ feed[i].id = n
        BY <2>2 DEF Coming
      <3>2. i # 1
        BY <1>2, <1>5, <3>1
      <3>3. i - 1 \in DOMAIN feed' /\ feed'[i - 1] = feed[i]
        BY <1>2, <3>2
      <3>4. QED BY <3>1, <3>3
    <2>3. QED BY <1>1, <1>4, <1>5, <2>1, <2>2 DEF Coming
  <1>6. CASE IsPush(Head(feed))
    <2> DEFINE id == Head(feed).id
    <2>1. id \in b + 1 .. pushed
      BY <1>2, <1>6 DEF Coming
    <2>2. \A i \in DOMAIN feed : i # 1 /\ IsPush(feed[i]) => id < feed[i].id
      <3>1. \A i \in DOMAIN feed : i # 1 => 1 < i
        BY <1>1, <1>2
      <3>2. QED BY <1>2, <1>6, <3>1 DEF Coming
    <2>3. id = b + 1
      <3>1. b + 1 \in b + 1 .. pushed
        BY <1>1, <2>1
      <3>2. PICK i \in DOMAIN feed : IsPush(feed[i]) /\ feed[i].id = b + 1
        BY <3>1 DEF Coming
      <3>3. CASE i = 1
        BY <1>2, <3>2, <3>3
      <3>4. CASE i # 1
        <4>1. id < b + 1
          BY <2>2, <3>2, <3>4
        <4>2. QED BY <1>1, <2>1, <4>1
      <3>5. QED BY <3>3, <3>4
    <2>4. ASSUME NEW i \in DOMAIN feed', IsPush(feed'[i])
          PROVE  feed'[i].id \in (b + 1) + 1 .. pushed
      <3>1. i + 1 \in DOMAIN feed /\ i + 1 # 1 /\ feed'[i] = feed[i + 1]
        BY <1>2
      <3>2. b + 1 < feed'[i].id
        BY <2>2, <2>3, <2>4, <3>1
      <3>3. feed'[i].id \in b + 1 .. pushed
        BY <2>4, <3>1 DEF Coming
      <3>4. QED BY <1>1, <3>2, <3>3
    <2>5. ASSUME NEW n \in (b + 1) + 1 .. pushed
          PROVE  \E i \in DOMAIN feed' : IsPush(feed'[i]) /\ feed'[i].id = n
      <3>1. n \in b + 1 .. pushed /\ n # b + 1
        BY <1>1
      <3>2. PICK i \in DOMAIN feed : IsPush(feed[i]) /\ feed[i].id = n
        BY <3>1 DEF Coming
      <3>3. i # 1
        BY <1>2, <2>3, <3>1, <3>2
      <3>4. i - 1 \in DOMAIN feed' /\ feed'[i - 1] = feed[i]
        BY <1>2, <3>3
      <3>5. QED BY <3>2, <3>4
    <2>6. b + 1 <= pushed
      BY <1>1, <2>1
    <2>7. Coming(b + 1)'
      BY <1>4, <2>4, <2>5, <2>6 DEF Coming
    <2>8. QED BY <1>6, <2>3, <2>7
  <1>7. QED BY <1>5, <1>6

\* What remains of a handler's list after its first item acknowledges nothing.
LEMMA RestSilent ==
    ASSUME Types, NEW a, NEW b, InHand(a, b), work # <<>>
    PROVE  Silent(Tail(work))
  <1>1. work \in Seq(Items)
    BY DEF Types, TypeOK
  <1>2. Tail(work) \in Seq(Items)
    BY <1>1, TailSeq
  <1>3. \A i \in DOMAIN Tail(work) : i + 1 \in DOMAIN work /\ i + 1 > 1 /\ Tail(work)[i] = work[i + 1]
    BY <1>1, TailIndex
  <1>4. QED BY <1>2, <1>3 DEF Silent, InHand

LEMMA SilentInHand ==
    ASSUME NEW a, Silent(work')
    PROVE  InHand(a, a)'
  <1>1. work' # <<>> => 1 \in DOMAIN work'
    BY DEF Silent
  <1>2. QED BY <1>1 DEF Silent, InHand

\* An item that does not acknowledge is taken: what is in hand stays the same.
LEMMA OtherItem ==
    ASSUME Types, NEW a, NEW b, InHand(a, b), work # <<>>, ~IsAck(Head(work)), Silent(work')
    PROVE  b = a /\ InHand(a, b)'
  <1>1. Head(work) = work[1]
    BY TailIndex DEF Types, TypeOK
  <1>2. b = a
    BY <1>1 DEF InHand
  <1>3. QED BY <1>2, SilentInHand

LEMMA PipelineStep ==
    ASSUME Types, Pipeline, Cleared, PushesAcked, [Next]_vars
    PROVE  Pipeline' /\ Cleared' /\ PushesAcked'
  <1>0. /\ pushed \in Nat /\ acked \in Seq(Nat) /\ Len(acked) \in Nat
        /\ work \in Seq(Items) /\ feed \in Seq(Entries) /\ outbox \in Seq(Sends)
    BY DEF Types, TypeOK, Sends
  <1>1. CASE UNCHANGED <<link, work, outbox, feed, pushed, acked>>
    BY <1>1 DEF Pipeline, Cleared, PushesAcked, Up, Queued, InHand, Coming
  <1> DEFINE Goal == Pipeline' /\ Cleared' /\ PushesAcked'
  \* An item that sends nothing: the sender's chain and the feed stay.
  <1>2. ASSUME work # <<>>, ~IsAck(Head(work)), link' = link \/ (Up /\ link' \in {"ready", "dead"}),
               Silent(Tail(work)) => Silent(work'),
               UNCHANGED <<outbox, feed, pushed, acked>>
        PROVE  Goal
    <2>1. link # "down"
      BY <1>2 DEF Cleared
    <2>2. Cleared' /\ PushesAcked'
      BY <1>2, <2>1 DEF Cleared, PushesAcked
    <2>3. CASE Up'
      <3>1. Up
        BY <1>2, <2>3 DEF Up
      <3>2. PICK a, b \in 0 .. pushed : Queued(a) /\ InHand(a, b) /\ Coming(b)
        BY <3>1 DEF Pipeline
      <3>3. Silent(work')
        BY <1>2, <3>2, RestSilent, SilentEmpty
      <3>4. InHand(a, b)'
        BY <1>2, <3>2, <3>3, OtherItem
      <3>5. Queued(a)' /\ Coming(b)' /\ pushed' = pushed
        BY <1>2, <3>2 DEF Queued, Coming
      <3>6. QED BY <2>2, <3>4, <3>5 DEF Pipeline
    <2>4. CASE ~Up'
      BY <2>2, <2>4 DEF Pipeline
    <2>5. QED BY <2>3, <2>4
  <1>3. CASE Transmit
    <2>1. /\ outbox # <<>> /\ outbox' = Tail(outbox)
          /\ UNCHANGED <<link, work, pushed>>
      BY <1>3 DEF Transmit
    <2>2. Cleared'
      <3>1. \A i \in DOMAIN outbox' : i + 1 \in DOMAIN outbox /\ outbox'[i] = outbox[i + 1]
        BY <1>0, <2>1, TailIndex
      <3>2. QED BY <2>1, <3>1 DEF Cleared
    <2>3. CASE ~Up
      <3>1. UNCHANGED acked /\ ~Up'
        BY <1>3, <2>1, <2>3 DEF Transmit, Up
      <3>2. QED BY <2>1, <2>2, <3>1 DEF Pipeline, PushesAcked
    <2>4. CASE Up
      <3>1. PICK a, b \in 0 .. pushed : Queued(a) /\ InHand(a, b) /\ Coming(b)
        BY <2>4 DEF Pipeline
      <3>2. a \in Nat /\ b \in Nat /\ a <= pushed
        BY <1>0
      <3>3. acked' = IF IsLiveAck(Head(outbox)) THEN Append(acked, Head(outbox).packet.id) ELSE acked
        BY <1>3, <2>4 DEF Transmit, Up, IsLiveAck
      <3>4. /\ IsLiveAck(Head(outbox)) =>
                  Head(outbox).packet.id = Len(acked) + 1 /\ Len(acked) + 1 <= a
            /\ Queued(a)'
        BY <2>1, <3>1, <3>2, <3>3, QueuedSent
      <3>5. PushesAcked'
        <4>1. CASE IsLiveAck(Head(outbox))
          <5>1. acked' = Append(acked, Len(acked) + 1) /\ Len(acked) + 1 <= pushed
            BY <1>0, <3>2, <3>3, <3>4, <4>1
          <5>2. acked = [i \in 1 .. Len(acked) |-> i]
            BY DEF PushesAcked
          <5>3. /\ Len(acked') = Len(acked) + 1
                /\ \A i \in 1 .. Len(acked') : acked'[i] = i
            BY <1>0, <5>1, <5>2
          <5>4. acked' = [i \in 1 .. Len(acked') |-> i]
            BY <1>0, <5>1, <5>3
          <5>5. QED BY <2>1, <5>1, <5>3, <5>4 DEF PushesAcked
        <4>2. CASE ~IsLiveAck(Head(outbox))
          BY <2>1, <3>3, <4>2 DEF PushesAcked
        <4>3. QED BY <4>1, <4>2
      <3>6. Coming(b)'
        <4>1. ~IsPush(LoginAccepted)
          BY DEF IsPush, LoginAccepted, Response
        <4>2. \A chain, n : ~IsPush(Answer(chain, n))
          BY DEF IsPush, Answer, Response
        <4>3. feed' = feed \/ \E entry : ~IsPush(entry) /\ feed' = Append(feed, entry)
          BY <1>3, <4>1, <4>2 DEF Transmit
        <4>4. CASE feed' = feed
          BY <2>1, <3>1, <4>4 DEF Coming
        <4>5. CASE \E entry : ~IsPush(entry) /\ feed' = Append(feed, entry)
          BY <2>1, <3>1, <3>2, <4>5, ComingOther
        <4>6. QED BY <4>3, <4>4, <4>5
      <3>7. InHand(a, b)'
        BY <2>1, <3>1 DEF InHand
      <3>8. QED BY <2>1, <2>2, <3>4, <3>5, <3>6, <3>7 DEF Pipeline
    <2>5. QED BY <2>3, <2>4
  <1>4. CASE Outbound
    <2>1. UNCHANGED <<link, work, feed, pushed, acked>>
      BY <1>4 DEF Outbound, upstream
    <2>2. CASE ~Connected
      BY <1>1, <1>4, <2>1, <2>2 DEF Outbound, Enqueue
    <2>3. CASE Connected
      <3> DEFINE sent == [live |-> TRUE, packet |-> [kind |-> "message"]]
      <3>1. outbox' = Append(outbox, sent)
        BY <1>4, <2>3 DEF Outbound, Enqueue
      <3>2. ~IsLiveAck(sent)
        BY DEF IsLiveAck
      <3> HIDE DEF sent
      <3>3. Cleared' /\ PushesAcked'
        BY <2>1, <2>3 DEF Cleared, PushesAcked, Connected
      <3>4. ASSUME Up PROVE Pipeline'
        <4>1. PICK a, b \in 0 .. pushed : Queued(a) /\ InHand(a, b) /\ Coming(b)
          BY <3>4 DEF Pipeline
        <4>2. Queued(a)'
          BY <1>0, <2>1, <3>1, <3>2, <4>1, QueuedOther
        <4>3. InHand(a, b)' /\ Coming(b)'
          BY <2>1, <4>1 DEF InHand, Coming
        <4>4. QED BY <2>1, <4>2, <4>3 DEF Pipeline
      <3>5. QED BY <2>1, <3>3, <3>4 DEF Pipeline, Up
    <2>4. QED BY <2>2, <2>3
  <1>5. CASE Receive
    <2> DEFINE entry == Head(feed)
    <2>1. /\ Up /\ work = <<>> /\ feed # <<>> /\ feed' = Tail(feed)
          /\ work' = HandlePacket(entry.packet, entry.id)
          /\ UNCHANGED <<link, outbox, pushed, acked>>
      BY <1>5 DEF Receive, Up, upstream
    <2>2. Cleared' /\ PushesAcked'
      BY <2>1 DEF Cleared, PushesAcked, Up
    <2>3. PICK a, b \in 0 .. pushed : Queued(a) /\ InHand(a, b) /\ Coming(b)
      BY <2>1 DEF Pipeline
    <2>4. b = a /\ a \in Nat
      BY <1>0, <2>1, <2>3 DEF InHand
    <2>5. entry \in Entries
      BY <1>0, <2>1, TailSeq
    <2>6. IF IsPush(entry) THEN entry.id = b + 1 /\ Coming(b + 1)' ELSE Coming(b)'
      BY <2>1, <2>3, <2>4, ComingTaken
    <2>7. Queued(a)'
      BY <2>1, <2>3 DEF Queued
    <2> HIDE DEF entry
    <2>8. CASE IsPush(entry)
      <3>1. PICK w : /\ Silent(w)
                     /\ HandlePacket(entry.packet, entry.id) = <<Send(Ack(entry.id))>> \o w
        BY <2>5, <2>8, PushAcks
      <3>2. work' = <<Send(Ack(a + 1))>> \o w
        BY <2>1, <2>4, <2>6, <2>8, <3>1
      <3>3. IsAck(Send(Ack(a + 1))) /\ Send(Ack(a + 1)).packet.id = a + 1
        BY DEF IsAck, Send, Ack
      <3>4. /\ work' # <<>> /\ work'[1] = Send(Ack(a + 1))
            /\ \A i \in DOMAIN work' : i > 1 => ~IsAck(work'[i])
        <4>1. w \in Seq(Items) /\ \A i \in DOMAIN w : ~IsAck(w[i])
          BY <3>1 DEF Silent
        <4>2. /\ Len(work') = 1 + Len(w) /\ DOMAIN work' = 1 .. 1 + Len(w)
              /\ work'[1] = Send(Ack(a + 1))
              /\ \A i \in DOMAIN work' : i > 1 => i - 1 \in DOMAIN w /\ work'[i] = w[i - 1]
          BY <3>2, <4>1
        <4>3. QED BY <4>1, <4>2
      <3>5. InHand(a, a + 1)'
        BY <3>3, <3>4 DEF InHand
      <3>6. Coming(a + 1)' /\ a + 1 \in 0 .. pushed
        BY <1>0, <2>1, <2>4, <2>6, <2>8 DEF Coming
      <3>7. QED BY <2>1, <2>2, <2>7, <3>5, <3>6 DEF Pipeline
    <2>9. CASE ~IsPush(entry)
      <3>1. Silent(work')
        BY <2>1, <2>5, <2>9, OthersSilent
      <3>2. InHand(a, a)'
        BY <3>1, SilentInHand
      <3>3. QED BY <2>1, <2>2, <2>4, <2>6, <2>7, <2>9, <3>2 DEF Pipeline
    <2>10. QED BY <2>8, <2>9
  <1>6. CASE DoSend
    <2> DEFINE packet == Head(work).packet
    <2>1. /\ work # <<>> /\ Head(work).do = "send" /\ work' = Tail(work)
          /\ UNCHANGED <<link, feed, pushed, acked>>
      BY <1>6 DEF DoSend, Doing, upstream
    <2>2. link # "down"
      BY <2>1 DEF Cleared
    <2>3. outbox' = Append(outbox, [live |-> TRUE, packet |-> packet])
      BY <1>6, <2>2 DEF DoSend, Enqueue, Connected, Types, TypeOK
    <2>4. Cleared' /\ PushesAcked'
      BY <2>1, <2>2 DEF Cleared, PushesAcked
    <2>5. ASSUME Up PROVE Pipeline'
      <3>1. PICK a, b \in 0 .. pushed : Queued(a) /\ InHand(a, b) /\ Coming(b)
        BY <2>5 DEF Pipeline
      <3>2. a \in Nat /\ Coming(b)'
        BY <1>0, <2>1, <3>1 DEF Coming
      <3>3. Silent(work')
        BY <2>1, <3>1, RestSilent
      <3>4. Head(work) = work[1] /\ Head(work) \in Items
        BY <1>0, <2>1, TailIndex, TailSeq
      <3>5. CASE IsAck(Head(work))
        <4>1. packet.id = a + 1 /\ b = a + 1
          BY <3>1, <3>4, <3>5, <2>1 DEF InHand
        <4>2. packet = Ack(a + 1)
          <5>1. packet \in Outgoing /\ packet.kind = "ack"
            BY <2>1, <3>4, <3>5, ItemTypes DEF IsAck
          <5>2. QED BY <4>1, <5>1 DEF Outgoing, Ack
        <4>3. Queued(b)'
          BY <2>1, <2>3, <3>1, <3>2, <4>1, <4>2, QueuedAck
        <4>4. InHand(b, b)'
          BY <3>3, SilentInHand
        <4>5. QED BY <2>1, <3>2, <4>3, <4>4 DEF Pipeline
      <3>6. CASE ~IsAck(Head(work))
        <4> DEFINE sent == [live |-> TRUE, packet |-> packet]
        <4>1. ~IsLiveAck(sent)
          BY <2>1, <3>6 DEF IsAck, IsLiveAck
        <4>2. Queued(a)'
          BY <2>1, <2>3, <3>1, <3>2, <4>1, QueuedOther
        <4>3. InHand(a, b)'
          BY <2>1, <3>1, <3>3, <3>6, OtherItem
        <4>4. QED BY <2>1, <3>2, <4>2, <4>3 DEF Pipeline
      <3>7. QED BY <3>5, <3>6
    <2>6. QED BY <2>1, <2>4, <2>5 DEF Pipeline, Up
  <1>7. CASE DoKey
    BY <1>2, <1>7 DEF DoKey, Doing, upstream, IsAck, Up
  <1>8. CASE DoEmit
    BY <1>2, <1>8 DEF DoEmit, Doing, upstream, IsAck
  <1>9. CASE DoThrow
    <2>1. Silent(<<Emit(Event("error", "", TRUE))>>)
      BY EmitSilent, SilentOne
    <2>2. ~IsAck(Head(work))
      <3>1. ~IsAck(Throw)
        BY DEF Throw, IsAck
      <3>2. QED BY <1>9, <3>1 DEF DoThrow
    <2>3. QED BY <1>2, <1>9, <2>1, <2>2 DEF DoThrow, upstream, Up
  <1>10. CASE DoReplay
    <2> DEFINE v == DispatchPush(DecodeOfflinePacket(Head(work).packet, sessionKey), Head(work).packet)
    <2>1. Silent(v)
      BY DispatchSilent
    <2>2. /\ work # <<>> /\ Head(work).do = "replay" /\ work' = v \o Tail(work)
          /\ UNCHANGED <<link, outbox, feed, pushed, acked>>
      BY <1>10 DEF DoReplay, upstream
    <2> HIDE DEF v
    <2>3. Silent(Tail(work)) => Silent(work')
      BY <2>1, <2>2, SilentCat
    <2>4. QED BY <1>2, <2>2, <2>3 DEF IsAck
  <1>11. ASSUME NEW n \in lookups, LookupEnds(n) \/ LookupEmpty(n) PROVE Goal
    BY <1>1, <1>11 DEF LookupEnds, LookupEmpty, upstream
  <1>12. CASE LeaveSink
    BY <1>1, <1>12 DEF LeaveSink, upstream
  <1>13. CASE Open
    <2>1. /\ link = "down" /\ link' = "open" /\ feed' = <<>> /\ pushed' = 0 /\ acked' = <<>>
          /\ work' = work /\ work = <<>>
          /\ outbox' = Append(outbox, [live |-> TRUE, packet |-> [kind |-> "login"]])
      BY <1>13 DEF Open, Cleared
    <2>2. Cleared' /\ PushesAcked'
      BY <2>1 DEF Cleared, PushesAcked
    <2>3. \A i \in DOMAIN outbox' : ~IsLiveAck(outbox'[i])
      <3> DEFINE sent == [live |-> TRUE, packet |-> [kind |-> "login"]]
      <3>1. ~IsLiveAck(sent)
        BY DEF IsLiveAck
      <3> HIDE DEF sent
      <3>2. /\ DOMAIN outbox' = DOMAIN outbox \cup {Len(outbox) + 1}
            /\ \A i \in DOMAIN outbox : outbox'[i] = outbox[i]
            /\ outbox'[Len(outbox) + 1] = sent
        BY <1>0, <2>1, AppendIndex DEF sent
      <3>3. \A i \in DOMAIN outbox : ~IsLiveAck(outbox[i])
        BY <2>1 DEF Cleared, IsLiveAck
      <3>4. QED BY <3>1, <3>2, <3>3
    <2>4. Queued(0)'
      BY <2>1, <2>3 DEF Queued
    <2>5. InHand(0, 0)' /\ Coming(0)'
      BY <2>1 DEF InHand, Coming
    <2>6. QED BY <2>1, <2>2, <2>4, <2>5 DEF Pipeline
  <1>14. ASSUME NEW packet \in Pushes, Push(packet) PROVE Goal
    <2> DEFINE entry == [id |-> pushed', packet |-> packet]
    <2>1. /\ link = "ready" /\ pushed' = IF packet.flag = "push" THEN pushed + 1 ELSE pushed
          /\ feed' = Append(feed, entry)
          /\ UNCHANGED <<link, work, outbox, acked>>
      BY <1>14 DEF Push
    <2>2. Cleared' /\ PushesAcked' /\ pushed' \in Nat /\ pushed <= pushed'
      BY <1>0, <2>1 DEF Cleared, PushesAcked
    <2>3. PICK a, b \in 0 .. pushed : Queued(a) /\ InHand(a, b) /\ Coming(b)
      BY <2>1 DEF Pipeline, Up
    <2>4. Queued(a)' /\ InHand(a, b)'
      BY <2>1, <2>3 DEF Queued, InHand
    <2>5. a \in 0 .. pushed' /\ b \in 0 .. pushed' /\ b \in Nat
      BY <1>0, <2>2
    <2>6. IsPush(entry) <=> packet.flag = "push"
      BY DEF IsPush
    <2>7. entry.id = pushed'
      OBVIOUS
    <2> HIDE DEF entry
    <2>8. Coming(b)'
      <3>1. CASE packet.flag = "push"
        BY <2>1, <2>3, <2>5, <2>6, <2>7, <3>1, ComingPush
      <3>2. CASE packet.flag # "push"
        BY <2>1, <2>3, <2>5, <2>6, <3>2, ComingOther
      <3>3. QED BY <3>1, <3>2
    <2>9. QED BY <2>2, <2>4, <2>5, <2>8 DEF Pipeline
  <1>15. CASE Lose
    <2>1. link' = "down" /\ work = <<>> /\ outbox' = Orphaned /\ UNCHANGED <<work, pushed, acked>>
      BY <1>15 DEF Lose, upstream
    <2>2. \A i \in DOMAIN outbox' : outbox'[i].live = FALSE
      <3>1. outbox' = [i \in DOMAIN outbox |-> [outbox[i] EXCEPT !.live = FALSE]]
        BY <2>1 DEF Orphaned
      <3>2. \A sent \in Sends : [sent EXCEPT !.live = FALSE].live = FALSE
        BY DEF Sends
      <3>3. \A i \in DOMAIN outbox : outbox[i] \in Sends
        BY <1>0
      <3>4. \A i \in DOMAIN outbox' : /\ i \in DOMAIN outbox
                                      /\ outbox'[i] = [outbox[i] EXCEPT !.live = FALSE]
        BY <3>1
      <3>5. QED BY <3>2, <3>3, <3>4
    <2>3. QED BY <2>1, <2>2 DEF Pipeline, Cleared, PushesAcked, Up
  <1>16. CASE UNCHANGED vars
    BY <1>1, <1>16 DEF vars, upstream
  <1>17. QED BY <1>3, <1>4, <1>5, <1>6, <1>7, <1>8, <1>9, <1>10, <1>11, <1>12, <1>13,
               <1>14, <1>15, <1>16 DEF Next

----------------------------------------------------------------------------
(* The theorems.                                                           *)

LEMMA Inductive == Spec => []IInv
  <1>1. Init => IInv
    <2>1. Init => Types
      BY TypesInit
    <2>2. Init => Pipeline /\ Cleared /\ PushesAcked
      BY DEF Init, Pipeline, Up, Cleared, PushesAcked
    <2>3. Init => Waiting /\ OnlyLookupsLate
      BY DEF Init, Waiting, OnlyLookupsLate
    <2>4. QED BY <2>1, <2>2, <2>3 DEF IInv
  <1>2. IInv /\ [Next]_vars => IInv'
    BY TypesStep, EventsStep, PipelineStep DEF IInv
  <1>3. QED BY <1>1, <1>2, PTL DEF Spec

\* The state of a session keeps its types: whatever is pushed and stored, the
\* sender's chain, the handler's list and the sink hold what they should.
THEOREM TypeCorrect == Spec => []TypeOK
  <1>1. IInv => TypeOK
    BY DEF IInv, Types
  <1>2. QED BY <1>1, Inductive, PTL

\* "SendAck-before-parse": for any pushes, decodable or not, in any interleaving
\* with lookups, HTTP sends, sync requests and lost sockets, the upstream gets
\* the acknowledgements of a socket's pushes one by one and in their order.
THEOREM PushesAckedHolds == Spec => []PushesAcked
  <1>1. IInv => PushesAcked
    BY DEF IInv
  <1>2. QED BY <1>1, Inductive, PTL

\* emit(): the sink takes no event twice, and takes an event after a later one
\* only if its profile was looked up.
THEOREM OnlyLookupsLateHolds == Spec => []OnlyLookupsLate
  <1>1. IInv => OnlyLookupsLate
    BY DEF IInv
  <1>2. QED BY <1>1, Inductive, PTL

=============================================================================
