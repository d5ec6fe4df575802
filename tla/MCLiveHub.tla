----------------------------- MODULE MCLiveHub -----------------------------
(* Two socket names, as in MCImConnector.  The frames pair notify_types of  *)
(* both channels with payloads that differ in the keys a mapper looks at,   *)
(* and add the frames that are no event of a known form.  The caption       *)
(* frames of HtCcNotifyMapperTest are among them.                           *)
EXTENDS LiveHubConnector

CONSTANTS s1, s2

MCSockets == {s1, s2}

Room == [cname |-> "room"]
Payloads == {
    NoNode,
    Room,
    [cname |-> "room", user_id |-> 0],
    [cname |-> "room", user_id |-> 7],
    [cname |-> "room", user_id |-> 7, nick_name |-> "n"],
    [cname |-> "room", expired_at |-> 1],
    [cname |-> "room", user_id |-> 7, seat_id |-> 0],
    [cname |-> "room", user_id |-> 7, kick_type |-> 1],
    [user_id |-> 7, kick_type |-> 2],
    [cname |-> "room", game_type |-> 2],
    [cname |-> "room", lucky_bag_id |-> "b"],
    [cname |-> "room", type |-> 1, users |-> <<7>>],
    [cname |-> "room", type |-> 1, users |-> <<0, 7>>],
    [cname |-> "room", type |-> 1, users |-> <<-1, 7>>],
    [cname |-> "room", type |-> 1, users |-> << >>],
    [cname |-> "room", received_gift_count |-> 1, config_gift_count |-> 2],
    [cname |-> "room", camp_result |-> "c"],
    [cname |-> "room", user_id |-> 7, nulls |-> {"lucky_bag_id"}],
    [cname |-> "room", nulls |-> {"user_id", "nick_name"}]}

MCFrames ==
    {[msg_id |-> "m", event |-> [notify_type |-> type, notify_info |-> info]] :
        type \in {1, 2, 3, 4, 5, 6, 7, 8, 9, 12, 18, 23, 25, 29, 47, 53, 99}, info \in Payloads}
    \cup {Malformed,
          [heartbeat_time |-> 1],
          [status |-> 0],
          [event |-> [notify_info |-> Room]],
          [event |-> [notify_type |-> 4]],
          [event |-> [notify_info |-> Room, nulls |-> {"notify_type"}], nulls |-> {"msg_id"}],
          [nulls |-> {"event"}],
          [notify_play_room |-> 1,
           event |-> [notify_type |-> 2, notify_info |-> [cname |-> "room", user_id |-> 7]]]}
=============================================================================
