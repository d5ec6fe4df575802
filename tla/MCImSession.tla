---------------------------- MODULE MCImSession ----------------------------
(* The pushes of a run: a visit without name, which is looked up, a poke,  *)
(* one that claims a negative length, an acknowledgement sent as a    *)
(* push, and a typing frame.  The 1:1 store has a page without has_more, so *)
(* that one more is asked for; the group store begins with an empty page    *)
(* that is not the last, and ends with one that is not empty.               *)
EXTENDS ImSession

Packet(flag, cmd, keyType, from, len, raw, dec) ==
    [flag |-> flag, cmd |-> cmd, keyType |-> keyType, from |-> from, len |-> len,
     body |-> [raw |-> raw, dec |-> dec]]

Bytes(magic) == [magic |-> magic]
Holding(magic, doc) == [magic |-> magic, doc |-> doc]

TextDoc == [msg_type |-> "text", from_id |-> "u1"]
VisitDoc == [msg_type |-> "new_voice_visitor", visitor_id |-> "u1"]

Pushed(cmd, len, dec) == Packet("push", cmd, 1, "u1", len, Bytes("noise"), dec)

MCPushes == {
    Pushed("dm", "some", Holding("json", VisitDoc)),
    Pushed("dm", "some", Bytes("poke")),
    Pushed("dm", "negative", Bytes("noise")),
    Packet("push", "msg_ack", 1, "u1", "some", Bytes("uuid"), Broken),
    Packet("typing", "typing", 1, "u1", "some", Bytes("noise"), Bytes("noise"))}

TextReplay == Packet("push", "dm", 0, "u1", "some", Holding("gzip", TextDoc), Bytes("noise"))
VisitReplay == Packet("push", "dm", 1, "u1", "some", Bytes("noise"), Holding("zlib", VisitDoc))

MCStored == {TextReplay, VisitReplay}
MCPages == [
    dm |-> <<[packet_list |-> <<VisitReplay>>, last_id |-> 1]>>,
    group |-> <<[msgs |-> <<>>, has_more |-> 1, last_id |-> 1],
                [msgs |-> <<TextReplay>>, has_more |-> 0, last_id |-> 2]>>]

----------------------------------------------------------------------------
(* The corpus: every document in every packing the decoders know, plain or  *)
(* encrypted, whatever keyType says.  A ciphertext may begin with any byte, *)
(* that of a JSON text too.                                                 *)

Docs == {
    TextDoc, VisitDoc,
    [msg_type |-> "image"],
    [msg_type |-> "send_gift", from_id |-> "u2", from_nickname |-> "n"],
    [msg_type |-> "introduction", introduction |-> [user_id |-> "u2"]],
    [msg_type |-> "introduction"],
    [msg_type |-> "voice_room", voice_room |-> [user_id |-> "u2"]],
    [msg_type |-> "live_link", live_link |-> [host_id |-> "u2"]],
    [msg_type |-> "new_voice_visitor", userId |-> "self"],
    [msg_type |-> "new_voice_visitor", visitor_uid |-> "self"],
    [msg_type |-> "new_voice_visitor", user_id |-> "u2", nickname |-> "n", headUrl |-> "h"],
    [msg_type |-> "sticker"],
    [notify_type |-> "18"],
    [notify_type |-> "53", notify_info |-> [user_id |-> "u2"]],
    [notify_type |-> "9", visitor_id |-> "u2"],
    [notify_type |-> "9", visitor_uid |-> "self"],
    [notify_type |-> "9"],
    [notify_type |-> "9", cname |-> "room", voice_count |-> 3],
    [nulls |-> {"msg_type", "notify_type"}],
    [notify_type |-> "9", visitor_user_id |-> "u2", nulls |-> {"visitor_uid", "nickname"}],
    [other |-> "x"]}

Packings ==
    {Bytes(m) : m \in {"poke", "receipt", "noise"}}
    \cup {Holding(m, doc) : m \in {"zlib", "json"}, doc \in Docs \cup {Malformed}}

Encrypted ==
    {[raw |-> raw, dec |-> dec] :
        raw \in {Bytes("noise"), Holding("json", Malformed)}, dec \in Packings}
Plain ==
    {[raw |-> raw, dec |-> dec] :
        raw \in Packings \cup {Holding("gzip", TextDoc)}, dec \in {Bytes("noise"), Broken, TooShort}}

MCCorpus ==
    {Packet("push", "dm", keyType, from, "some", body.raw, body.dec) :
        keyType \in {0, 1}, from \in {"0", "self", "u1"}, body \in Encrypted \cup Plain}
=============================================================================
