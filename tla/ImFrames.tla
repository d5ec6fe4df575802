------------------------------ MODULE ImFrames ------------------------------
(***************************************************************************)
(* HtImPacketFramer, HtImFrameDecoder and HtImNotifyMapper: what becomes   *)
(* of a packet of the ht_im/sock channel, live or replayed from an offline *)
(* page.                                                                   *)
(*                                                                         *)
(* A packet is a record: flag and cmd of its header, keyType, the routing  *)
(* uid `from`, its payload length (`len`: "some", "zero", or "negative",   *)
(* the field being signed) and its body.  A body is what its bytes look    *)
(* like as they are (raw) and after QQTEA decryption with the session key  *)
(* (dec); decrypting what was not encrypted gives bytes as well, so the    *)
(* two are independent.  Bytes are known by their first ones (magic) and,  *)
(* where a decoder unpacks them, by the JSON document they hold.           *)
(*                                                                         *)
(* Uids are strings, "" being the empty one; an event is its type, the     *)
(* uid it is about and whether it carries that user's name and picture.    *)
(***************************************************************************)
EXTENDS Integers, Sequences, JsonNodes

CONSTANT Self   \* selfUserId

Event(type, user, named) == [type |-> type, user |-> user, named |-> named]
NoEvent == Event("none", "", TRUE)

\* Decryption of a body whose length is no multiple of 8, or below 8.
Broken == [magic |-> "broken"]
TooShort == [magic |-> "null"]

Doc(bytes) == Path(bytes, "doc", Malformed)

----------------------------------------------------------------------------
(* HtImFrameDecoder.                                                       *)

\* The F2Push variants that matter: what dispatchPush does with a push.
Ignored == [push |-> "ignored"]
Receipt == [push |-> "receipt"]
Poke == [push |-> "poke"]
Json(doc) == [push |-> "json", doc |-> doc]

JsonOrIgnored(doc) == IF Parses(doc) THEN Json(doc) ELSE Ignored

\* An unknown first byte ends like an ignored push, in a log line.
DecodePushBody(bytes) ==
    CASE bytes.magic = "receipt"          -> Receipt
      [] bytes.magic = "poke"             -> Poke
      [] bytes.magic \in {"zlib", "json"} -> JsonOrIgnored(Doc(bytes))
      [] OTHER                            -> Ignored

\* A live push is decrypted whatever its keyType says.
DecodeF2(packet, sessionKey) ==
    IF ~sessionKey \/ packet.len = "zero" \/ packet.body.dec \in {Broken, TooShort}
    THEN Ignored
    ELSE DecodePushBody(packet.body.dec)

\* Mutant: the receipt's first byte is forgotten.
IsCompressedOrJson(magic) == magic \in {"zlib", "gzip", "json"}

IsRecognizedMagic(magic) == magic \in {"zlib", "gzip", "json", "receipt"}

\* The bytes of a replayed packet: decrypted if keyType says so; if it says
\* no, but the bytes make no sense, decrypted if that makes sense.
OfflinePayload(packet, sessionKey) ==
    LET dec == packet.body.dec
        usable == sessionKey /\ dec \notin {Broken, TooShort}
    IN  IF \/ packet.keyType = 1 /\ usable
           \/ /\ packet.keyType = 0 /\ usable
              /\ ~IsRecognizedMagic(packet.body.raw.magic)
              /\ IsRecognizedMagic(dec.magic)
        THEN dec ELSE packet.body.raw

\* Gzip is unpacked in a replay only.  A length below 0 counts as 0.
DecodeOfflinePacket(packet, sessionKey) ==
    LET bytes == OfflinePayload(packet, sessionKey)
    IN  IF packet.len # "some" THEN Ignored
        ELSE IF bytes.magic = "gzip" THEN JsonOrIgnored(Doc(bytes))
        ELSE DecodePushBody(bytes)

\* A body of up to 16 bytes is an acknowledgement without msgId; a longer one
\* needs a UUID in it.
DecodeMsgAck(packet) ==
    IF packet.len = "some" /\ packet.body.raw.magic \in {"short", "uuid"}
    THEN Event("message_ack", "", TRUE) ELSE NoEvent

DecodeF1(packet) == IF packet.len = "some" THEN Doc(packet.body.raw) ELSE Malformed

----------------------------------------------------------------------------
(* HtImNotifyMapper.                                                       *)

\* isFilled of ImEventEnricher: both the nickname and the picture are there.
Filled(nickname, headUrl) == nickname # "" /\ headUrl # ""

FromNamed(root) ==
    Filled(Path(root, "from_nickname", Path(root, "nickname", "")),
           Path(root, "from_head_url", Path(root, "head_url", "")))
VisitorNamed(root) ==
    Filled(Path(root, "nickname", Path(root, "from_nickname", "")),
           Path(root, "head_url", Path(root, "headUrl", "")))

MapIntro(root, from) ==
    LET intro == Path(root, "introduction", NoNode)
        profile == Path(intro, "user_profile", intro)
    IN  IF Path(profile, "user_id", "") = "" THEN NoEvent
        ELSE Event("introduction_message", from, FromNamed(root))

\* Mutant: the visitor of a msg_type push is whoever its userId names.
MapProfileVisitByUserId(root, packet) ==
    LET visitor == Path(root, "userId", "")
    IN  IF visitor = "" THEN NoEvent ELSE Event("profile_visit", visitor, VisitorNamed(root))

\* visitor_id, else the header's uid, else userId: whoever is found first must
\* not be the account itself.
MapProfileVisit(root, packet) ==
    LET named == Path(root, "visitor_id", Path(root, "visitor_uid", ""))
        other == IF packet.from \notin {"0", Self} THEN packet.from
                 ELSE Path(root, "userId", Path(root, "user_id", ""))
        visitor == IF named = "" THEN other ELSE named
    IN  IF visitor \in {"", Self} THEN NoEvent
        ELSE Event("profile_visit", visitor, VisitorNamed(root))

\* The msg_type pushes.  The uid of a room share is that of the room's owner.
MapMessage(root, packet) ==
    LET from == Path(root, "from_id", packet.from)
        type == Path(root, "msg_type", "null")
    IN  CASE type = "text"         -> Event("text_message", from, TRUE)
          [] type = "image"        -> Event("image_message", from, TRUE)
          [] type = "send_gift"    -> Event("gift_message", from, FromNamed(root))
          [] type = "introduction" -> MapIntro(root, from)
          [] type = "voice_room"   ->
                Event("voice_room_shared",
                      Path(root, "from_id",
                           Path(Path(root, "voice_room", NoNode), "user_id", packet.from)), TRUE)
          [] type = "live_link"    ->
                Event("live_room_shared",
                      Path(root, "from_id",
                           Path(Path(root, "live_link", NoNode), "host_id", packet.from)), TRUE)
          [] type = "new_voice_visitor" -> MapProfileVisit(root, packet)
          [] OTHER -> NoEvent

\* notify_types about the account itself unless they name a user.
SelfTypes == {"18", "48", "34", "35", "40"}
SelfEvent(type) ==
    CASE type = "18" -> "stage_invite"
      [] type = "48" -> "mod_invite"
      [] type = "34" -> "mod_accepted"
      [] type = "35" -> "mod_removed"
      [] type = "40" -> "mod_unmuted"

\* The first of the visitor fields that is not empty.
Visitor(root) ==
    LET field(key) == Path(root, key, "")
    IN  IF field("visitor_uid") # "" THEN field("visitor_uid")
        ELSE IF field("visitor_user_id") # "" THEN field("visitor_user_id")
        ELSE field("visitor_id")

MapNotify(root, packet) ==
    LET info == Path(root, "notify_info", NoNode)
        type == Path(root, "notify_type", "")
    IN  IF Has(root, "cname")
        THEN Event(IF Has(root, "count") \/ Has(root, "voice_count")
                   THEN "voice_room_shared" ELSE "live_room_shared",
                   Path(root, "from_id", packet.from), TRUE)
        ELSE IF type \in SelfTypes
        THEN Event(SelfEvent(type), Path(info, "user_id", Self), TRUE)
        ELSE IF type = "53"
        THEN Event("follow", Path(info, "user_id", ""),
                   Filled(Path(info, "nickname", ""), Path(info, "head_url", "")))
        ELSE IF Visitor(root) \in {"", Self}
        THEN NoEvent
        ELSE Event("profile_visit", Visitor(root), VisitorNamed(root))

Map(root, packet) ==
    IF Has(root, "msg_type") THEN MapMessage(root, packet)
    ELSE IF Has(root, "notify_type") THEN MapNotify(root, packet)
    ELSE NoEvent

\* The event that dispatchPush makes of a push.
EventOf(push, packet) ==
    CASE push.push = "receipt" -> Event("read_receipt", "", TRUE)
      [] push.push = "json"    -> Map(push.doc, packet)
      [] OTHER                 -> NoEvent

----------------------------------------------------------------------------
(* ImEventEnricher: the events that are looked up before they are emitted. *)

NeedsLookup(event) ==
    /\ event.type \in {"profile_visit", "follow", "gift_message", "introduction_message"}
    /\ event.user \notin {"", "0"}
    /\ ~event.named
=============================================================================
