----------------------- MODULE LiveHubConnectorProofs -----------------------
(***************************************************************************)
(* HtLiveHubUpstreamConnector implements the contract of module Upstream,  *)
(* for any number of sockets and any set of frames.                        *)
(*                                                                         *)
(* The contract says when the owner hears nothing more.  That rests on     *)
(* SingleConnection: when the one attempt or socket ends without a         *)
(* reconnect, nothing is left that could call back.  Besides it the proof  *)
(* needs what is true before connect() and after close(), and that the     *)
(* attempt of connect() is the first thing that happens at all.            *)
(*                                                                         *)
(* The last part is about the mappers: what a frame becomes, whatever      *)
(* frames the upstream sends.                                              *)
(***************************************************************************)
EXTENDS LiveHubConnector, TLAPS

\* Before connect() the connector is as the constructor left it.
Untouched ==
    owner = "new" =>
        /\ \A s \in Sockets : call[s] = "none" /\ wire[s] = "none"
        /\ heartbeat = "idle" /\ delayed = 0 /\ closers = 0
        /\ heard = "nothing" /\ announcedConnected = FALSE

\* intentionalClose is set, and the pump shut down, by close() and nothing else.
ClosedByOwner ==
    /\ intentionalClose = TRUE <=> owner = "done"
    /\ heartbeat = "shutdown" <=> owner = "done"

\* A socket that is still being built is not open and has brought nothing.
NotBuiltYet == \A s \in Sockets : Dialing(s) => wire[s] = "none" /\ s \notin answered

\* Nothing has been heard when the attempt of connect() is still going on.
FirstAttempt ==
    \A s \in Sockets : call[s] = "opening" => heard = "nothing" /\ announcedConnected = FALSE

\* After a last callback there is nothing left that could make another.
Last ==
    /\ heard \in {"failed", "error", "disconnected"} =>
           delayed = 0 /\ \A s \in Sockets : ~Active(s)
    /\ heard = "disconnected" => owner = "done"

Background == Untouched /\ ClosedByOwner /\ NotBuiltYet /\ FirstAttempt /\ Last

IInv == TypeOK /\ Background /\ SingleConnection /\ HeartbeatKept

\* The constructor establishes the invariant.
LEMMA InitIInv == Init => IInv
  <1> SUFFICES ASSUME Init PROVE IInv
    OBVIOUS
  <1>1. FlagsOK
    BY DEF Init, FlagsOK
  <1>2. TypeOK
    BY <1>1, LiveHubAssumption DEF Init, TypeOK, Calls, Wires
  <1>3. Background
    BY DEF Init, Background, Untouched, ClosedByOwner, NotBuiltYet, FirstAttempt, Last,
           Active, Alive, Dialing
  <1>4. SingleConnection
    BY DEF Init, SingleConnection, Active, Alive, Dialing
  <1>5. HeartbeatKept
    BY DEF Init, HeartbeatKept
  <1>6. QED BY <1>2, <1>3, <1>4, <1>5 DEF IInv

\* Every step keeps the flags Boolean.
LEMMA FlagsStep ==
  ASSUME FlagsOK, Next
  PROVE  FlagsOK'
  <1> USE DEF FlagsOK
  <1>1. ASSUME NEW s \in Sockets, Connect(s) PROVE FlagsOK'
    BY <1>1 DEF Connect, Dial, Unused
  <1>2. CASE Release
    BY <1>2 DEF Release
  <1>3. CASE CloseEnd
    BY <1>3 DEF CloseEnd, SendClose
  <1>4. CASE Reconnect
    BY <1>4 DEF Reconnect, Dial, Unused
  <1>5. ASSUME NEW s \in Sockets, BuildFails(s) PROVE FlagsOK'
    BY <1>5 DEF BuildFails, ReconnectInBackground
  <1>6. ASSUME NEW s \in Sockets, BuildSucceeds(s) PROVE FlagsOK'
    BY <1>6 DEF BuildSucceeds
  <1>7. ASSUME NEW s \in Sockets, CheckClosed(s) PROVE FlagsOK'
    BY <1>7 DEF CheckClosed, SendClose
  <1>8. ASSUME NEW s \in Sockets, Publish(s) PROVE FlagsOK'
    BY <1>8 DEF Publish
  <1>9. ASSUME NEW s \in Sockets, Greet(s) PROVE FlagsOK'
    BY <1>9 DEF Greet
  <1>10. ASSUME NEW s \in Sockets, HandleHeartbeatSec(s) PROVE FlagsOK'
    BY <1>10 DEF HandleHeartbeatSec
  <1>11. ASSUME NEW s \in Sockets, NEW text \in Frames, HandleFrame(s, text) PROVE FlagsOK'
    BY <1>11 DEF HandleFrame
  <1>12. ASSUME NEW s \in Sockets, OnClose(s) PROVE FlagsOK'
    BY <1>12 DEF OnClose, ReconnectInBackground
  <1>13. ASSUME NEW s \in Sockets, OnError(s) PROVE FlagsOK'
    BY <1>13 DEF OnError
  <1>14. QED
    BY <1>1, <1>2, <1>3, <1>4, <1>5, <1>6, <1>7, <1>8, <1>9, <1>10, <1>11, <1>12, <1>13 DEF Next

\* Every step keeps the other variables in their types.
LEMMA TypeStep ==
  ASSUME TypeOK, FlagsOK', Next
  PROVE  TypeOK'
  <1> USE LiveHubAssumption DEF TypeOK, Calls, Wires
  <1>1. ASSUME NEW s \in Sockets, Connect(s) PROVE TypeOK'
    BY <1>1 DEF Connect, Dial, Unused
  <1>2. CASE Release
    BY <1>2 DEF Release
  <1>3. CASE CloseEnd
    BY <1>3 DEF CloseEnd, SendClose
  <1>4. CASE Reconnect
    BY <1>4 DEF Reconnect, Dial, Unused
  <1>5. ASSUME NEW s \in Sockets, BuildFails(s) PROVE TypeOK'
    BY <1>5 DEF BuildFails, ReconnectInBackground
  <1>6. ASSUME NEW s \in Sockets, BuildSucceeds(s) PROVE TypeOK'
    BY <1>6 DEF BuildSucceeds
  <1>7. ASSUME NEW s \in Sockets, CheckClosed(s) PROVE TypeOK'
    BY <1>7 DEF CheckClosed, SendClose
  <1>8. ASSUME NEW s \in Sockets, Publish(s) PROVE TypeOK'
    BY <1>8 DEF Publish
  <1>9. ASSUME NEW s \in Sockets, Greet(s) PROVE TypeOK'
    BY <1>9 DEF Greet
  <1>10. ASSUME NEW s \in Sockets, HandleHeartbeatSec(s) PROVE TypeOK'
    BY <1>10 DEF HandleHeartbeatSec
  <1>11. ASSUME NEW s \in Sockets, NEW text \in Frames, HandleFrame(s, text) PROVE TypeOK'
    BY <1>11 DEF HandleFrame
  <1>12. ASSUME NEW s \in Sockets, OnClose(s) PROVE TypeOK'
    <2>1. delayed' \in Nat /\ attempt' \in 0..MaxAttempt
      BY <1>12 DEF OnClose, ReconnectInBackground
    <2>2. QED BY <1>12, <2>1 DEF OnClose
  <1>13. ASSUME NEW s \in Sockets, OnError(s) PROVE TypeOK'
    BY <1>13 DEF OnError
  <1>14. QED
    BY <1>1, <1>2, <1>3, <1>4, <1>5, <1>6, <1>7, <1>8, <1>9, <1>10, <1>11, <1>12, <1>13 DEF Next

\* Every step keeps the facts the properties rest on.
LEMMA BackgroundStep ==
  ASSUME IInv, Next
  PROVE  Background'
  <1> USE DEF IInv, TypeOK, Background, Untouched, ClosedByOwner, NotBuiltYet, FirstAttempt, Last,
             SingleConnection, Active, Alive, Dialing
  <1>1. ASSUME NEW s \in Sockets, Connect(s) PROVE Background'
    BY <1>1 DEF Connect, Dial, Unused
  <1>2. CASE Release
    BY <1>2 DEF Release
  <1>3. CASE CloseEnd
    BY <1>3 DEF CloseEnd, SendClose
  <1>4. CASE Reconnect
    BY <1>4 DEF Reconnect, Dial, Unused
  <1>5. ASSUME NEW s \in Sockets, BuildFails(s) PROVE Background'
    BY <1>5 DEF BuildFails, ReconnectInBackground
  <1>6. ASSUME NEW s \in Sockets, BuildSucceeds(s) PROVE Background'
    BY <1>6 DEF BuildSucceeds
  <1>7. ASSUME NEW s \in Sockets, CheckClosed(s) PROVE Background'
    BY <1>7 DEF CheckClosed, SendClose
  <1>8. ASSUME NEW s \in Sockets, Publish(s) PROVE Background'
    BY <1>8 DEF Publish
  <1>9. ASSUME NEW s \in Sockets, Greet(s) PROVE Background'
    BY <1>9 DEF Greet
  <1>10. ASSUME NEW s \in Sockets, HandleHeartbeatSec(s) PROVE Background'
    BY <1>10 DEF HandleHeartbeatSec
  <1>11. ASSUME NEW s \in Sockets, NEW text \in Frames, HandleFrame(s, text) PROVE Background'
    BY <1>11 DEF HandleFrame
  <1>12. ASSUME NEW s \in Sockets, OnClose(s) PROVE Background'
    BY <1>12 DEF OnClose, ReconnectInBackground
  <1>13. ASSUME NEW s \in Sockets, OnError(s) PROVE Background'
    BY <1>13 DEF OnError
  <1>14. QED
    BY <1>1, <1>2, <1>3, <1>4, <1>5, <1>6, <1>7, <1>8, <1>9, <1>10, <1>11, <1>12, <1>13 DEF Next

\* Every step hands the single activity on: a failed attempt or a closed
\* socket becomes a waiting reconnect, that an attempt, and that a socket.
LEMMA SingleStep ==
  ASSUME IInv, Next
  PROVE  SingleConnection'
  <1> USE DEF IInv, TypeOK, Background, Untouched, ClosedByOwner, NotBuiltYet, FirstAttempt, Last,
             SingleConnection, Active, Alive, Dialing
  <1>1. ASSUME NEW s \in Sockets, Connect(s) PROVE SingleConnection'
    BY <1>1 DEF Connect, Dial, Unused
  <1>2. CASE Release
    BY <1>2 DEF Release
  <1>3. CASE CloseEnd
    BY <1>3 DEF CloseEnd, SendClose
  <1>4. CASE Reconnect
    BY <1>4 DEF Reconnect, Dial, Unused
  <1>5. ASSUME NEW s \in Sockets, BuildFails(s) PROVE SingleConnection'
    BY <1>5 DEF BuildFails, ReconnectInBackground
  <1>6. ASSUME NEW s \in Sockets, BuildSucceeds(s) PROVE SingleConnection'
    BY <1>6 DEF BuildSucceeds
  <1>7. ASSUME NEW s \in Sockets, CheckClosed(s) PROVE SingleConnection'
    BY <1>7 DEF CheckClosed, SendClose
  <1>8. ASSUME NEW s \in Sockets, Publish(s) PROVE SingleConnection'
    BY <1>8 DEF Publish
  <1>9. ASSUME NEW s \in Sockets, Greet(s) PROVE SingleConnection'
    BY <1>9 DEF Greet
  <1>10. ASSUME NEW s \in Sockets, HandleHeartbeatSec(s) PROVE SingleConnection'
    BY <1>10 DEF HandleHeartbeatSec
  <1>11. ASSUME NEW s \in Sockets, NEW text \in Frames, HandleFrame(s, text) PROVE SingleConnection'
    BY <1>11 DEF HandleFrame
  <1>12. ASSUME NEW s \in Sockets, OnClose(s) PROVE SingleConnection'
    BY <1>12 DEF OnClose, ReconnectInBackground
  <1>13. ASSUME NEW s \in Sockets, OnError(s) PROVE SingleConnection'
    BY <1>13 DEF OnError
  <1>14. QED
    BY <1>1, <1>2, <1>3, <1>4, <1>5, <1>6, <1>7, <1>8, <1>9, <1>10, <1>11, <1>12, <1>13 DEF Next

\* Every step keeps the pump of the answered socket running: by SingleConnection
\* no other socket's close can stop it.
LEMMA HeartbeatStep ==
  ASSUME IInv, Next
  PROVE  HeartbeatKept'
  <1> USE DEF IInv, TypeOK, Background, Untouched, ClosedByOwner, NotBuiltYet, FirstAttempt, Last,
             SingleConnection, Active, Alive, Dialing,
             HeartbeatKept
  <1>1. ASSUME NEW s \in Sockets, Connect(s) PROVE HeartbeatKept'
    BY <1>1 DEF Connect, Dial, Unused
  <1>2. CASE Release
    BY <1>2 DEF Release
  <1>3. CASE CloseEnd
    BY <1>3 DEF CloseEnd, SendClose
  <1>4. CASE Reconnect
    BY <1>4 DEF Reconnect, Dial, Unused
  <1>5. ASSUME NEW s \in Sockets, BuildFails(s) PROVE HeartbeatKept'
    BY <1>5 DEF BuildFails, ReconnectInBackground
  <1>6. ASSUME NEW s \in Sockets, BuildSucceeds(s) PROVE HeartbeatKept'
    BY <1>6 DEF BuildSucceeds
  <1>7. ASSUME NEW s \in Sockets, CheckClosed(s) PROVE HeartbeatKept'
    BY <1>7 DEF CheckClosed, SendClose
  <1>8. ASSUME NEW s \in Sockets, Publish(s) PROVE HeartbeatKept'
    BY <1>8 DEF Publish
  <1>9. ASSUME NEW s \in Sockets, Greet(s) PROVE HeartbeatKept'
    BY <1>9 DEF Greet
  <1>10. ASSUME NEW s \in Sockets, HandleHeartbeatSec(s) PROVE HeartbeatKept'
    BY <1>10 DEF HandleHeartbeatSec
  <1>11. ASSUME NEW s \in Sockets, NEW text \in Frames, HandleFrame(s, text) PROVE HeartbeatKept'
    BY <1>11 DEF HandleFrame
  <1>12. ASSUME NEW s \in Sockets, OnClose(s) PROVE HeartbeatKept'
    BY <1>12 DEF OnClose, ReconnectInBackground
  <1>13. ASSUME NEW s \in Sockets, OnError(s) PROVE HeartbeatKept'
    BY <1>13 DEF OnError
  <1>14. QED
    BY <1>1, <1>2, <1>3, <1>4, <1>5, <1>6, <1>7, <1>8, <1>9, <1>10, <1>11, <1>12, <1>13 DEF Next

\* Every step is a step of the contract, or is not visible to the owner.
LEMMA ContractStep ==
  ASSUME IInv, Next
  PROVE  [Contract!Next]_(Contract!vars)
  <1> USE DEF IInv, TypeOK, Background, Untouched, ClosedByOwner, NotBuiltYet, FirstAttempt, Last,
             SingleConnection, Active, Alive, Dialing,
             Phase, Contract!Next, Contract!vars, Contract!Connect, Contract!Announce,
             Contract!Deliver, Contract!Fail, Contract!Lose, Contract!Close, Contract!Disconnect,
             Contract!Bringing
  <1>1. ASSUME NEW s \in Sockets, Connect(s) PROVE [Contract!Next]_(Contract!vars)
    BY <1>1 DEF Connect, Dial, Unused
  <1>2. CASE Release
    BY <1>2 DEF Release
  <1>3. CASE CloseEnd
    BY <1>3 DEF CloseEnd, SendClose
  <1>4. CASE Reconnect
    BY <1>4 DEF Reconnect, Dial, Unused
  <1>5. ASSUME NEW s \in Sockets, BuildFails(s) PROVE [Contract!Next]_(Contract!vars)
    BY <1>5 DEF BuildFails, ReconnectInBackground
  <1>6. ASSUME NEW s \in Sockets, BuildSucceeds(s) PROVE [Contract!Next]_(Contract!vars)
    BY <1>6 DEF BuildSucceeds
  <1>7. ASSUME NEW s \in Sockets, CheckClosed(s) PROVE [Contract!Next]_(Contract!vars)
    BY <1>7 DEF CheckClosed, SendClose
  <1>8. ASSUME NEW s \in Sockets, Publish(s) PROVE [Contract!Next]_(Contract!vars)
    BY <1>8 DEF Publish
  <1>9. ASSUME NEW s \in Sockets, Greet(s) PROVE [Contract!Next]_(Contract!vars)
    BY <1>9 DEF Greet
  <1>10. ASSUME NEW s \in Sockets, HandleHeartbeatSec(s) PROVE [Contract!Next]_(Contract!vars)
    BY <1>10 DEF HandleHeartbeatSec
  <1>11. ASSUME NEW s \in Sockets, NEW text \in Frames, HandleFrame(s, text) PROVE [Contract!Next]_(Contract!vars)
    BY <1>11 DEF HandleFrame
  <1>12. ASSUME NEW s \in Sockets, OnClose(s) PROVE [Contract!Next]_(Contract!vars)
    BY <1>12 DEF OnClose, ReconnectInBackground
  <1>13. ASSUME NEW s \in Sockets, OnError(s) PROVE [Contract!Next]_(Contract!vars)
    BY <1>13 DEF OnError
  <1>14. QED
    BY <1>1, <1>2, <1>3, <1>4, <1>5, <1>6, <1>7, <1>8, <1>9, <1>10, <1>11, <1>12, <1>13 DEF Next

\* The invariant is inductive.
LEMMA IInvStep == IInv /\ [Next]_vars => IInv'
  <1> SUFFICES ASSUME IInv, [Next]_vars PROVE IInv'
    OBVIOUS
  <1>1. CASE Next
    <2>1. TypeOK'
      BY <1>1, FlagsStep, TypeStep DEF IInv, TypeOK
    <2>2. QED BY <1>1, <2>1, BackgroundStep, SingleStep, HeartbeatStep DEF IInv
  <1>2. CASE UNCHANGED vars
    <2> USE <1>2 DEF vars, IInv
    <2>1. TypeOK'
      BY DEF TypeOK, FlagsOK
    <2>2. Background'
      BY DEF Background, Untouched, ClosedByOwner, NotBuiltYet, FirstAttempt, Last,
             Active, Alive, Dialing
    <2>3. SingleConnection' /\ HeartbeatKept'
      BY DEF SingleConnection, HeartbeatKept, Active, Alive, Dialing
    <2>4. QED BY <2>1, <2>2, <2>3
  <1>3. QED BY <1>1, <1>2

\* The specification keeps its type invariant.
THEOREM TypeCorrect == Spec => []TypeOK
  <1>1. IInv => TypeOK
    BY DEF IInv
  <1>2. QED BY <1>1, InitIInv, IInvStep, PTL DEF Spec

\* "One LiveHub upstream WebSocket connection per room": never more than one
\* attempt, one socket or one waiting reconnect.
THEOREM SingleConnectionHolds == Spec => []SingleConnection
  <1>1. IInv => SingleConnection
    BY DEF IInv
  <1>2. QED BY <1>1, InitIInv, IInvStep, PTL DEF Spec

\* An answered, open socket has the heartbeat pump running until close().
THEOREM HeartbeatKeptHolds == Spec => []HeartbeatKept
  <1>1. IInv => HeartbeatKept
    BY DEF IInv
  <1>2. QED BY <1>1, InitIInv, IInvStep, PTL DEF Spec

\* The connector implements the contract its owner RoomEventSource relies on.
THEOREM Implements == Spec => ImplementsUpstream
  <1>1. Init => Contract!Init
    BY DEF Init, Contract!Init, Phase
  <1>2. IInv /\ [Next]_vars => [Contract!Next]_(Contract!vars)
    <2> SUFFICES ASSUME IInv, [Next]_vars PROVE [Contract!Next]_(Contract!vars)
      OBVIOUS
    <2>1. CASE Next
      BY <2>1, ContractStep
    <2>2. CASE UNCHANGED vars
      BY <2>2 DEF vars, Contract!vars, Phase
    <2>3. QED BY <2>1, <2>2
  <1>3. QED BY <1>1, <1>2, InitIInv, IInvStep, PTL DEF Spec, ImplementsUpstream, Contract!Spec
----------------------------------------------------------------------------
(* The mappers, whatever the frames.                                       *)

\* HtCcNotifyMapper.map() makes an event of all that gets past its discriminator.
LEMMA CcEventIsSomething == \A type, info : MapCcEvent(type, info) # Nothing
  <1>1. \A type, info : MapCcEvent(type, info).type # "none"
    BY DEF MapCcEvent, Event, Anonymous
  <1>2. QED BY <1>1 DEF Nothing

\* The two copies of the CC discriminator agree on every frame that is no
\* heartbeat, whatever its notify_type and the keys of its notify_info.
THEOREM DiscriminatorsAgreeHolds == Spec => []DiscriminatorsAgree
  <1>1. ASSUME NEW text, Parses(text), NonNull(text, "event"),
               ~HeartbeatSec(text), ~IsHeartbeatResponse(text)
        PROVE  OwnsType(text) <=> MapCc(text) # Nothing
    <2> DEFINE type == NotifyType(text)
               keys == Keys(Info(text))
               owns == /\ type \in CcTypes
                       /\ "cname" \in keys
                       /\ RoomMarkers \cap keys = {}
                       /\ CcMarkers \cap keys # {} \/ type \in BareTypes
    <2>1. OwnsType(text) <=> owns
      BY <1>1 DEF OwnsType
    <2>2. MapCc(text) = IF ~owns THEN Nothing ELSE MapCcEvent(type, Info(text))
      <3> HIDE DEF type, keys
      <3>1. ~owns <=> \/ type \notin CcTypes
                      \/ "cname" \notin keys
                      \/ RoomMarkers \cap keys # {}
                      \/ CcMarkers \cap keys = {} /\ type \notin BareTypes
        OBVIOUS
      <3>2. QED BY <1>1, <3>1 DEF MapCc, type, keys
    <2> HIDE DEF owns, type
    <2>3. QED BY <2>1, <2>2, CcEventIsSomething
  <1>2. DiscriminatorsAgree
    BY <1>1 DEF DiscriminatorsAgree, Disputed
  <1>3. QED BY <1>2, PTL

\* Only a type-1 frame becomes a user_join.
LEMMA JoinIsTypeOne ==
    ASSUME NEW type, NEW info, NEW root, MapEvent(type, info, root).type = "user_join"
    PROVE  type = GiftType
  <1> DEFINE event == MapEvent(type, info, root)
  <1> USE DEF Event, Anonymous, Nothing
  <1>1. LuckyBagOrNull(info).type # "user_join"
    BY DEF LuckyBagOrNull
  <1>2. MapTypeThree(info).type # "user_join"
    BY DEF MapTypeThree
  <1>3. MapByEntityShape(info).type # "user_join"
    BY DEF MapByEntityShape
  <1>4. \A t \in UserTypes : UserEvent(t) # "user_join"
    BY DEF UserTypes, UserEvent
  <1>5. SUFFICES ASSUME type # GiftType PROVE event.type # "user_join"
    OBVIOUS
  <1>6. QED BY <1>1, <1>2, <1>3, <1>4, <1>5 DEF MapEvent, Else

\* A user_join that gets past requiresUserId names a user: a gift batch whose
\* first user is sound becomes a gift, and any other type-1 frame has a user_id.
THEOREM JoinNamesUserHolds == Spec => []JoinNamesUser
  <1>1. ASSUME NEW text \in Frames, MapRoom(text).type = "user_join"
        PROVE  MapRoom(text).user # 0
    <2> DEFINE type == NotifyType(text)
               info == Info(text)
    <2>1. /\ NonNull(text, "event") /\ ~RequiresUserId(type, info)
          /\ MapRoom(text) = MapEvent(type, info, text)
      BY <1>1 DEF MapRoom, Anonymous, Nothing, Throws
    <2>2. type = GiftType
      BY <1>1, <2>1, JoinIsTypeOne
    <2>3. Users(info) \in Seq(Int)
      BY <2>1, LiveHubAssumption
    <2> HIDE DEF type, info
    <2>4. MapRoom(text) = MapTypeOne(info)
      BY <2>1, <2>2 DEF MapEvent, GiftType, UserTypes, ShapedTypes
    <2>5. CASE Path(info, "type", -1) = 1 /\ Users(info) # <<>>
      <3>1. Head(Users(info)) > 0 /\ 1 \in DOMAIN Users(info) /\ Head(Users(info)) = Users(info)[1]
        BY <2>1, <2>2, <2>3, <2>5 DEF RequiresUserId
      <3>2. \E i \in DOMAIN Users(info) : Users(info)[i] >= 0
        BY <2>3, <3>1
      <3>3. MapGiftBatch(info) = Anonymous("gift")
        BY <2>5, <3>2 DEF MapGiftBatch
      <3>4. MapTypeOne(info).type = "gift"
        BY <3>3 DEF MapTypeOne, Else, Anonymous, Nothing
      <3>5. QED BY <1>1, <2>4, <3>4
    <2>6. CASE ~(Path(info, "type", -1) = 1 /\ Users(info) # <<>>)
      <3>1. Path(info, "user_id", 0) # 0
        BY <2>1, <2>2, <2>6 DEF RequiresUserId
      <3>2. MapGiftBatch(info) = Nothing
        BY <2>3, <2>6 DEF MapGiftBatch
      <3>3. MapTypeOne(info) = Event("user_join", info)
        BY <3>2 DEF MapTypeOne, Else
      <3>4. QED BY <2>4, <3>1, <3>3 DEF Event
    <2>7. QED BY <2>5, <2>6
  <1>2. JoinNamesUser
    BY <1>1 DEF JoinNamesUser, NamelessJoins
  <1>3. QED BY <1>2, PTL

=============================================================================
