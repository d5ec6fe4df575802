--------------------------- MODULE LiveHubFrames ---------------------------
(***************************************************************************)
(* HtNotifyMapper and HtCcNotifyMapper: what becomes of a frame of the     *)
(* LiveHub socket, which carries the room channel and the captions (CC)    *)
(* channel with overlapping notify_type numbers.                           *)
(*                                                                         *)
(* Of a JSON node (module JsonNodes) only the values are kept that a       *)
(* mapper looks at; an event is the name of its type and the user it is    *)
(* about (0: none), its other fields being copies with defaults.           *)
(***************************************************************************)
EXTENDS Integers, Sequences, JsonNodes

HeartbeatSec(text) == Parses(text) /\ Has(text, "heartbeat_sec")
IsHeartbeatResponse(text) == Parses(text) /\ Has(text, "heartbeat_time")
MsgId(text) == Parses(text) /\ NonNull(text, "msg_id")

\* No event, and the exception that leaves a mapper.
Nothing == [type |-> "none", user |-> 0]
Throws == [type |-> "throws", user |-> 0]

Event(type, info) == [type |-> type, user |-> Path(info, "user_id", 0)]
Anonymous(type) == [type |-> type, user |-> 0]

Info(text) == Path(text.event, "notify_info", NoNode)
NotifyType(text) == Path(text.event, "notify_type", -1)

----------------------------------------------------------------------------
(* HtNotifyMapper.                                                         *)

GiftType == 1
TypesRequiringUserId == {2, 8, 9, 10, 11, 18, 23, 29, 30, 34, 35, 40, 48}

\* A user of a gift batch: send_uid, or -1 for an element that is no object.
Users(info) == Path(info, "users", <<>>)

\* Mutant: the user of a type-1 frame is checked in a gift batch only.
RequiresUserIdOfGifts(type, info) ==
    \/ type \in TypesRequiringUserId /\ Path(info, "user_id", 0) = 0
    \/ /\ type = GiftType
       /\ Path(info, "type", -1) = 1 /\ Users(info) # <<>>
       /\ Head(Users(info)) <= 0

\* TRUE when the frame is to be dropped because it names no user.
RequiresUserId(type, info) ==
    \/ type \in TypesRequiringUserId /\ Path(info, "user_id", 0) = 0
    \/ /\ type = GiftType
       /\ IF Path(info, "type", -1) = 1 /\ Users(info) # <<>>
          THEN Head(Users(info)) <= 0
          ELSE Path(info, "user_id", 0) = 0

LuckyBagOrNull(info) ==
    IF Has(info, "lucky_bag_id") THEN Anonymous("lucky_bag") ELSE Nothing

\* The first of two alternatives that is an event.
Else(event, other) == IF event # Nothing THEN event ELSE other

MapGiftBatch(info) ==
    IF Path(info, "type", -1) = 1 /\ \E i \in DOMAIN Users(info) : Users(info)[i] >= 0
    THEN Anonymous("gift") ELSE Nothing

MapTypeOne(info) == Else(MapGiftBatch(info), Event("user_join", info))

MapTypeThree(info) ==
    LET game == Path(info, "game_type", -1)
        kick == Path(info, "kick_type", -1)
    IN  IF Has(info, "lucky_bag_id") THEN Anonymous("lucky_bag")
        ELSE CASE game = 2                             -> Anonymous("whiteboard_activated")
               [] game = 0                             -> Anonymous("whiteboard_deactivated")
               [] game \notin {0, 2} /\ kick = 1       -> Event("room_kick", info)
               [] game \notin {0, 2} /\ kick = 2       -> Event("user_quit", info)
               [] game \notin {0, 2} /\ kick \notin {1, 2} -> Anonymous("raw")

\* Types 12, 28, 50, 58 and 59 are told apart by their keys, in this order.
MapByEntityShape(info) ==
    LET keys == Keys(info)
    IN  IF {"received_gift_count", "config_gift_count"} \subseteq keys
        THEN Anonymous("gift_wish")
        ELSE IF {"camp_result", "reward_info", "reward_popup_color"} \cap keys # {}
        THEN Anonymous("treasure_reward")
        ELSE IF /\ {"gift_name", "label", "small_pic", "title"} \subseteq keys
                /\ "reward_list" \notin keys
        THEN Anonymous("purchase_vip")
        ELSE IF {"send_nick_name", "vip_time"} \subseteq keys
        THEN Anonymous("receive_vip_gifts")
        ELSE IF {"typ", "icon", "content"} \subseteq keys
        THEN Anonymous("fg_upgrade_award")
        ELSE Anonymous("raw")

ShapedTypes == {12, 28, 50, 58, 59}
UserTypes == {8, 9, 10, 11, 18, 23, 30, 34, 35, 40, 48, 53}

\* The types that always give the same event about the frame's user.
UserEvent(type) ==
    CASE type = 8         -> "mic_opened"
      [] type = 9         -> "mic_closed"
      [] type \in {10,11} -> "stage_raisehand"
      [] type = 18        -> "stage_invite"
      [] type = 23        -> "stage_join"
      [] type = 30        -> "stage_device_control"
      [] type = 34        -> "mod_accepted"
      [] type = 35        -> "mod_removed"
      [] type = 40        -> "mod_unmuted"
      [] type = 48        -> "mod_invite"
      [] type = 53        -> "follow"

MapEvent(type, info, root) ==
    CASE type = GiftType -> MapTypeOne(info)
      [] type = 2  -> IF Has(root, "notify_play_room") THEN Nothing ELSE Event("user_quit", info)
      [] type = 3  -> MapTypeThree(info)
      [] type = 4  -> Else(LuckyBagOrNull(info), Event("stage_join", info))
      [] type = 5  -> Else(LuckyBagOrNull(info),
                           IF Path(info, "seat_id", -1) = 0 THEN Event("stage_quit", info)
                                                            ELSE Nothing)
      [] type = 6  -> LuckyBagOrNull(info)
      [] type = 7  -> Event("room_props_applied", info)
      [] type = 25 -> Event("comment", info)
      [] type = 29 -> IF Path(info, "kick_type", -1) = 1 THEN Event("stage_kick", info) ELSE Nothing
      [] type = 47 -> Anonymous("room_topic_share")
      [] type \in UserTypes   -> Event(UserEvent(type), info)
      [] type \in ShapedTypes -> MapByEntityShape(info)
      [] OTHER -> Anonymous("raw")

\* map(): an event without a notify_type is a NullPointerException.
MapRoom(text) ==
    IF ~Parses(text) THEN Anonymous("error")
    ELSE IF HeartbeatSec(text) \/ IsHeartbeatResponse(text) \/ ~NonNull(text, "event") THEN Nothing
    ELSE IF ~Has(text.event, "notify_type") THEN Throws
    ELSE IF RequiresUserId(NotifyType(text), Info(text)) THEN Nothing
    ELSE MapEvent(NotifyType(text), Info(text), text)

\* RoomEventSource.audienceAffecting.
AudienceAffecting(event) == event.type \in {"user_join", "user_quit", "stage_join", "room_kick"}

----------------------------------------------------------------------------
(* HtCcNotifyMapper.                                                       *)

CcKillTypes == {3, 5, 7, 9, 10, 11}
CcTypes == {1, 2, 3, 4, 5, 6, 7, 9, 10, 11, 12}

RoomMarkers == {"seat_id", "lucky_bag_id", "props_type", "category_id", "topic_id",
                "game_type", "kick_type", "is_banned_comment", "manager_name"}
CcMarkers == {"nick_name", "role_type", "result_id", "expired_at", "enabled",
              "create_at", "update_at"}

\* The types a frame without any marker may have.
BareTypes == {2, 6} \cup CcKillTypes

OwnsType(text) ==
    /\ Parses(text) /\ NonNull(text, "event")
    /\ LET type == NotifyType(text)
           keys == Keys(Info(text))
       IN  /\ type \in CcTypes
           /\ "cname" \in keys
           /\ RoomMarkers \cap keys = {}
           /\ CcMarkers \cap keys # {} \/ type \in BareTypes

MapCcEvent(type, info) ==
    CASE type = 1  -> Event("subtitle_start", info)
      [] type = 2  -> Anonymous("subtitle_end")
      [] type = 3  -> Anonymous("subtitle_disabled")
      [] type = 4  -> Event("subtitle_line", info)
      [] type = 6  -> Event("subtitle_experience_activated", info)
      [] type = 12 -> Anonymous("subtitle_expired")
      [] OTHER     -> Anonymous("raw")

\* map(), with its own copy of the discriminator.
MapCc(text) ==
    IF ~Parses(text) THEN Anonymous("error")
    ELSE IF HeartbeatSec(text) \/ IsHeartbeatResponse(text) \/ ~NonNull(text, "event") THEN Nothing
    ELSE LET type == NotifyType(text)
             keys == Keys(Info(text))
         IN  IF \/ type \notin CcTypes
                \/ "cname" \notin keys
                \/ RoomMarkers \cap keys # {}
                \/ CcMarkers \cap keys = {} /\ type \notin BareTypes
             THEN Nothing
             ELSE MapCcEvent(type, Info(text))

----------------------------------------------------------------------------
\* The dispatch of handleFrame for a frame that is no heartbeat: the room
\* mapper first, the CC mapper for what it declines and the discriminator owns.
RouteCc(text) == IF MapRoom(text) = Nothing /\ OwnsType(text) THEN MapCc(text) ELSE Nothing
=============================================================================
