------------------------- MODULE ImConnectorProofs -------------------------
(***************************************************************************)
(* Until the first relogin the connector runs a single chain of activity:  *)
(* one attempt, or one socket, or one reconnect waiting for its delay.     *)
(* This holds for any number of sockets over the connector's life.         *)
(*                                                                         *)
(* SingleConnection needs two facts about who may start an attempt besides *)
(* the chain itself: before connect() nothing at all is going on, and a    *)
(* relogin task that is about to dial has already swapped the token.       *)
(* LiveSession needs two more: a socket still being built is not open and  *)
(* has no login on it, and only close() and a relogin shut the pump down.  *)
(***************************************************************************)
EXTENDS ImConnector, TLAPS

\* Before connect() the connector is as the constructor left it.
Untouched ==
    owner = "new" =>
        /\ \A s \in Sockets : call[s] = "none" /\ wire[s] = "none"
        /\ heartbeat = "idle"
        /\ delayed = 0 /\ relogins = 0 /\ switches = 0 /\ closers = 0

\* A relogin task that is about to dial has swapped the token.
SwitchMeansRelogin == jwt = 0 => switches = 0

\* A socket that is still being built is not open and has no login on it.
NotBuiltYet == \A s \in Sockets : Dialing(s) => wire[s] = "none" /\ login[s] = "none"

\* Only close() and a relogin shut the heartbeat pump down.
PumpUsable == jwt = 0 /\ ~intentionalClose => heartbeat # "shutdown"

Background == Untouched /\ SwitchMeansRelogin /\ NotBuiltYet /\ PumpUsable

IInv == TypeOK /\ Background /\ SingleConnection /\ LiveSession

\* The constructor establishes the invariant.
LEMMA InitIInv == Init => IInv
  <1> SUFFICES ASSUME Init PROVE IInv
    OBVIOUS
  <1>1. FlagsOK
    BY DEF Init, FlagsOK
  <1>2. TypeOK
    BY <1>1, ConnectorAssumption DEF Init, TypeOK, Calls, Wires, Logins
  <1>3. Background
    BY DEF Init, Background, Untouched, SwitchMeansRelogin, NotBuiltYet, PumpUsable
  <1>4. SingleConnection
    BY DEF Init, SingleConnection, Active, Alive, Dialing
  <1>5. LiveSession
    BY DEF Init, LiveSession
  <1>6. QED BY <1>2, <1>3, <1>4, <1>5 DEF IInv

\* Every step keeps the flags Boolean.
LEMMA FlagsStep ==
  ASSUME FlagsOK, Next
  PROVE  FlagsOK'
  <1> USE DEF FlagsOK
  <1>1. ASSUME NEW s \in Sockets, Connect(s) PROVE FlagsOK'
    BY <1>1 DEF Connect, Dial, Unused
  <1>2. CASE Release
    BY <1>2 DEF Release, CloseBegin, HeartbeatClose
  <1>3. CASE CloseEnd
    BY <1>3 DEF CloseEnd, SendClose
  <1>4. ASSUME NEW s \in Sockets, BuildFails(s) PROVE FlagsOK'
    BY <1>4 DEF BuildFails, ReconnectInBackground
  <1>5. ASSUME NEW s \in Sockets, BuildSucceeds(s) PROVE FlagsOK'
    BY <1>5 DEF BuildSucceeds
  <1>6. ASSUME NEW s \in Sockets, CheckClosed(s) PROVE FlagsOK'
    BY <1>6 DEF CheckClosed, SendClose, HeartbeatClose
  <1>7. ASSUME NEW s \in Sockets, Publish(s) PROVE FlagsOK'
    BY <1>7 DEF Publish
  <1>8. ASSUME NEW s \in Sockets, SendLogin(s) PROVE FlagsOK'
    BY <1>8 DEF SendLogin
  <1>9. ASSUME NEW s \in Sockets, OnClose(s) PROVE FlagsOK'
    BY <1>9 DEF OnClose, HeartbeatStop, ReconnectInBackground
  <1>10. ASSUME NEW s \in Sockets, OnError(s) PROVE FlagsOK'
    BY <1>10 DEF OnError
  <1>11. ASSUME NEW s \in Sockets, LoginAccepted(s) PROVE FlagsOK'
    BY <1>11 DEF LoginAccepted
  <1>12. ASSUME NEW s \in Sockets, LoginBanned(s) PROVE FlagsOK'
    BY <1>12 DEF LoginBanned, Refused, CloseBegin, HeartbeatClose
  <1>13. ASSUME NEW s \in Sockets, SessionMismatch(s) PROVE FlagsOK'
    BY <1>13 DEF SessionMismatch, Refused, CloseBegin, HeartbeatClose
  <1>14. CASE Reconnect
    BY <1>14 DEF Reconnect, Dial, Unused
  <1>15. CASE ReloginFails
    BY <1>15 DEF ReloginFails, CloseBegin, HeartbeatClose
  <1>16. CASE ReloginSucceeds
    BY <1>16 DEF ReloginSucceeds, SendClose, HeartbeatClose
  <1>17. CASE ReloginDials
    BY <1>17 DEF ReloginDials, Dial, Unused
  <1>18. QED
    BY <1>1, <1>2, <1>3, <1>4, <1>5, <1>6, <1>7, <1>8, <1>9,
       <1>10, <1>11, <1>12, <1>13, <1>14, <1>15, <1>16, <1>17 DEF Next

\* Every step keeps the other variables in their types.
LEMMA FieldsStep ==
  ASSUME TypeOK, FlagsOK', Next
  PROVE  TypeOK'
  <1> USE ConnectorAssumption DEF TypeOK, Calls, Wires, Logins
  <1>1. ASSUME NEW s \in Sockets, Connect(s) PROVE TypeOK'
    BY <1>1 DEF Connect, Dial, Unused
  <1>2. CASE Release
    BY <1>2 DEF Release, CloseBegin, HeartbeatClose
  <1>3. CASE CloseEnd
    BY <1>3 DEF CloseEnd, SendClose
  <1>4. ASSUME NEW s \in Sockets, BuildFails(s) PROVE TypeOK'
    BY <1>4 DEF BuildFails, ReconnectInBackground
  <1>5. ASSUME NEW s \in Sockets, BuildSucceeds(s) PROVE TypeOK'
    BY <1>5 DEF BuildSucceeds
  <1>6. ASSUME NEW s \in Sockets, CheckClosed(s) PROVE TypeOK'
    BY <1>6 DEF CheckClosed, SendClose, HeartbeatClose
  <1>7. ASSUME NEW s \in Sockets, Publish(s) PROVE TypeOK'
    BY <1>7 DEF Publish
  <1>8. ASSUME NEW s \in Sockets, SendLogin(s) PROVE TypeOK'
    BY <1>8 DEF SendLogin
  <1>9. ASSUME NEW s \in Sockets, OnClose(s) PROVE TypeOK'
    <2>1. delayed' \in Nat /\ attempt' \in 0..MaxAttempt
      BY <1>9 DEF OnClose, ReconnectInBackground
    <2>2. QED BY <1>9, <2>1 DEF OnClose, HeartbeatStop
  <1>10. ASSUME NEW s \in Sockets, OnError(s) PROVE TypeOK'
    BY <1>10 DEF OnError
  <1>11. ASSUME NEW s \in Sockets, LoginAccepted(s) PROVE TypeOK'
    BY <1>11 DEF LoginAccepted
  <1>12. ASSUME NEW s \in Sockets, LoginBanned(s) PROVE TypeOK'
    BY <1>12 DEF LoginBanned, Refused, CloseBegin, HeartbeatClose
  <1>13. ASSUME NEW s \in Sockets, SessionMismatch(s) PROVE TypeOK'
    BY <1>13 DEF SessionMismatch, Refused, CloseBegin, HeartbeatClose
  <1>14. CASE Reconnect
    BY <1>14 DEF Reconnect, Dial, Unused
  <1>15. CASE ReloginFails
    BY <1>15 DEF ReloginFails, CloseBegin, HeartbeatClose
  <1>16. CASE ReloginSucceeds
    BY <1>16 DEF ReloginSucceeds, SendClose, HeartbeatClose
  <1>17. CASE ReloginDials
    BY <1>17 DEF ReloginDials, Dial, Unused
  <1>18. QED
    BY <1>1, <1>2, <1>3, <1>4, <1>5, <1>6, <1>7, <1>8, <1>9,
       <1>10, <1>11, <1>12, <1>13, <1>14, <1>15, <1>16, <1>17 DEF Next

\* Every step keeps the facts the two properties rest on.
LEMMA BackgroundStep ==
  ASSUME IInv, Next
  PROVE  Background'
  <1> USE DEF IInv, TypeOK, Background, Untouched, SwitchMeansRelogin,
             NotBuiltYet, PumpUsable, Alive, Dialing
  <1>1. ASSUME NEW s \in Sockets, Connect(s) PROVE Background'
    BY <1>1 DEF Connect, Dial, Unused
  <1>2. CASE Release
    BY <1>2 DEF Release, CloseBegin, HeartbeatClose
  <1>3. CASE CloseEnd
    BY <1>3 DEF CloseEnd, SendClose
  <1>4. ASSUME NEW s \in Sockets, BuildFails(s) PROVE Background'
    BY <1>4 DEF BuildFails, ReconnectInBackground
  <1>5. ASSUME NEW s \in Sockets, BuildSucceeds(s) PROVE Background'
    BY <1>5 DEF BuildSucceeds
  <1>6. ASSUME NEW s \in Sockets, CheckClosed(s) PROVE Background'
    BY <1>6 DEF CheckClosed, SendClose, HeartbeatClose
  <1>7. ASSUME NEW s \in Sockets, Publish(s) PROVE Background'
    BY <1>7 DEF Publish
  <1>8. ASSUME NEW s \in Sockets, SendLogin(s) PROVE Background'
    BY <1>8 DEF SendLogin
  <1>9. ASSUME NEW s \in Sockets, OnClose(s) PROVE Background'
    BY <1>9 DEF OnClose, HeartbeatStop, ReconnectInBackground
  <1>10. ASSUME NEW s \in Sockets, OnError(s) PROVE Background'
    BY <1>10 DEF OnError
  <1>11. ASSUME NEW s \in Sockets, LoginAccepted(s) PROVE Background'
    BY <1>11 DEF LoginAccepted
  <1>12. ASSUME NEW s \in Sockets, LoginBanned(s) PROVE Background'
    BY <1>12 DEF LoginBanned, Refused, CloseBegin, HeartbeatClose
  <1>13. ASSUME NEW s \in Sockets, SessionMismatch(s) PROVE Background'
    BY <1>13 DEF SessionMismatch, Refused, CloseBegin, HeartbeatClose
  <1>14. CASE Reconnect
    BY <1>14 DEF Reconnect, Dial, Unused
  <1>15. CASE ReloginFails
    BY <1>15 DEF ReloginFails, CloseBegin, HeartbeatClose
  <1>16. CASE ReloginSucceeds
    BY <1>16 DEF ReloginSucceeds, SendClose, HeartbeatClose
  <1>17. CASE ReloginDials
    BY <1>17 DEF ReloginDials, Dial, Unused
  <1>18. QED
    BY <1>1, <1>2, <1>3, <1>4, <1>5, <1>6, <1>7, <1>8, <1>9,
       <1>10, <1>11, <1>12, <1>13, <1>14, <1>15, <1>16, <1>17 DEF Next

\* Every step hands the single activity on: a failed attempt or a closed
\* socket becomes a waiting reconnect, that becomes an attempt, and that a
\* socket.
LEMMA SingleStep ==
  ASSUME IInv, Next
  PROVE  SingleConnection'
  <1> USE DEF IInv, TypeOK, Background, Untouched, SwitchMeansRelogin,
             NotBuiltYet, SingleConnection, Active, Alive, Dialing
  <1>1. ASSUME NEW s \in Sockets, Connect(s) PROVE SingleConnection'
    BY <1>1 DEF Connect, Dial, Unused
  <1>2. CASE Release
    BY <1>2 DEF Release, CloseBegin, HeartbeatClose
  <1>3. CASE CloseEnd
    BY <1>3 DEF CloseEnd, SendClose
  <1>4. ASSUME NEW s \in Sockets, BuildFails(s) PROVE SingleConnection'
    <2>1. jwt' = 0 => delayed = 0 /\ \A t \in Sockets : Active(t) => t = s
      BY <1>4 DEF BuildFails
    <2>2. \A t \in Sockets : Active(t)' => Active(t) /\ t # s
      BY <1>4 DEF BuildFails
    <2>3. delayed' \in {delayed, delayed + 1}
      BY <1>4 DEF BuildFails, ReconnectInBackground
    <2>4. QED BY <2>1, <2>2, <2>3
  <1>5. ASSUME NEW s \in Sockets, BuildSucceeds(s) PROVE SingleConnection'
    BY <1>5 DEF BuildSucceeds
  <1>6. ASSUME NEW s \in Sockets, CheckClosed(s) PROVE SingleConnection'
    BY <1>6 DEF CheckClosed, SendClose, HeartbeatClose
  <1>7. ASSUME NEW s \in Sockets, Publish(s) PROVE SingleConnection'
    BY <1>7 DEF Publish
  <1>8. ASSUME NEW s \in Sockets, SendLogin(s) PROVE SingleConnection'
    BY <1>8 DEF SendLogin
  <1>9. ASSUME NEW s \in Sockets, OnClose(s) PROVE SingleConnection'
    <2>1. jwt' = 0 => delayed = 0 /\ \A t \in Sockets : Active(t) => t = s
      BY <1>9 DEF OnClose
    <2>2. \A t \in Sockets : Active(t)' => Active(t) /\ t # s
      BY <1>9 DEF OnClose
    <2>3. delayed' \in {delayed, delayed + 1}
      BY <1>9 DEF OnClose, ReconnectInBackground
    <2>4. QED BY <2>1, <2>2, <2>3
  <1>10. ASSUME NEW s \in Sockets, OnError(s) PROVE SingleConnection'
    BY <1>10 DEF OnError
  <1>11. ASSUME NEW s \in Sockets, LoginAccepted(s) PROVE SingleConnection'
    BY <1>11 DEF LoginAccepted
  <1>12. ASSUME NEW s \in Sockets, LoginBanned(s) PROVE SingleConnection'
    BY <1>12 DEF LoginBanned, Refused, CloseBegin, HeartbeatClose
  <1>13. ASSUME NEW s \in Sockets, SessionMismatch(s) PROVE SingleConnection'
    BY <1>13 DEF SessionMismatch, Refused, CloseBegin, HeartbeatClose
  <1>14. CASE Reconnect
    BY <1>14 DEF Reconnect, Dial, Unused
  <1>15. CASE ReloginFails
    BY <1>15 DEF ReloginFails, CloseBegin, HeartbeatClose
  <1>16. CASE ReloginSucceeds
    BY <1>16 DEF ReloginSucceeds, SendClose, HeartbeatClose
  <1>17. CASE ReloginDials
    BY <1>17 DEF ReloginDials, Dial, Unused
  <1>18. QED
    BY <1>1, <1>2, <1>3, <1>4, <1>5, <1>6, <1>7, <1>8, <1>9,
       <1>10, <1>11, <1>12, <1>13, <1>14, <1>15, <1>16, <1>17 DEF Next

\* Every step keeps the key and the heartbeat of the accepted session: by
\* SingleConnection no other socket can replace the one or stop the other.
LEMMA LiveStep ==
  ASSUME IInv, Next
  PROVE  LiveSession'
  <1> USE DEF IInv, TypeOK, Background, Untouched, NotBuiltYet, PumpUsable,
             SingleConnection, LiveSession, Active, Alive, Dialing
  <1>1. ASSUME NEW s \in Sockets, Connect(s) PROVE LiveSession'
    BY <1>1 DEF Connect, Dial, Unused
  <1>2. CASE Release
    BY <1>2 DEF Release, CloseBegin, HeartbeatClose
  <1>3. CASE CloseEnd
    BY <1>3 DEF CloseEnd, SendClose
  <1>4. ASSUME NEW s \in Sockets, BuildFails(s) PROVE LiveSession'
    BY <1>4 DEF BuildFails, ReconnectInBackground
  <1>5. ASSUME NEW s \in Sockets, BuildSucceeds(s) PROVE LiveSession'
    BY <1>5 DEF BuildSucceeds
  <1>6. ASSUME NEW s \in Sockets, CheckClosed(s) PROVE LiveSession'
    BY <1>6 DEF CheckClosed, SendClose, HeartbeatClose
  <1>7. ASSUME NEW s \in Sockets, Publish(s) PROVE LiveSession'
    BY <1>7 DEF Publish
  <1>8. ASSUME NEW s \in Sockets, SendLogin(s) PROVE LiveSession'
    BY <1>8 DEF SendLogin
  <1>9. ASSUME NEW s \in Sockets, OnClose(s) PROVE LiveSession'
    BY <1>9 DEF OnClose, HeartbeatStop, ReconnectInBackground
  <1>10. ASSUME NEW s \in Sockets, OnError(s) PROVE LiveSession'
    BY <1>10 DEF OnError
  <1>11. ASSUME NEW s \in Sockets, LoginAccepted(s) PROVE LiveSession'
    BY <1>11 DEF LoginAccepted
  <1>12. ASSUME NEW s \in Sockets, LoginBanned(s) PROVE LiveSession'
    BY <1>12 DEF LoginBanned, Refused, CloseBegin, HeartbeatClose
  <1>13. ASSUME NEW s \in Sockets, SessionMismatch(s) PROVE LiveSession'
    BY <1>13 DEF SessionMismatch, Refused, CloseBegin, HeartbeatClose
  <1>14. CASE Reconnect
    BY <1>14 DEF Reconnect, Dial, Unused
  <1>15. CASE ReloginFails
    BY <1>15 DEF ReloginFails, CloseBegin, HeartbeatClose
  <1>16. CASE ReloginSucceeds
    BY <1>16 DEF ReloginSucceeds, SendClose, HeartbeatClose
  <1>17. CASE ReloginDials
    BY <1>17 DEF ReloginDials, Dial, Unused
  <1>18. QED
    BY <1>1, <1>2, <1>3, <1>4, <1>5, <1>6, <1>7, <1>8, <1>9,
       <1>10, <1>11, <1>12, <1>13, <1>14, <1>15, <1>16, <1>17 DEF Next

\* The invariant is inductive.
LEMMA IInvStep == IInv /\ [Next]_vars => IInv'
  <1> SUFFICES ASSUME IInv, [Next]_vars PROVE IInv'
    OBVIOUS
  <1>1. CASE Next
    <2>1. TypeOK'
      BY <1>1, FlagsStep, FieldsStep DEF IInv, TypeOK
    <2>2. QED BY <1>1, <2>1, BackgroundStep, SingleStep, LiveStep DEF IInv
  <1>2. CASE UNCHANGED vars
    <2> USE <1>2 DEF vars, IInv
    <2>1. TypeOK'
      BY DEF TypeOK, FlagsOK
    <2>2. Background'
      BY DEF Background, Untouched, SwitchMeansRelogin, NotBuiltYet, PumpUsable, Dialing
    <2>3. SingleConnection' /\ LiveSession'
      BY DEF SingleConnection, LiveSession, Active, Alive, Dialing
    <2>4. QED BY <2>1, <2>2, <2>3
  <1>3. QED BY <1>1, <1>2

\* The specification keeps its type invariant.
THEOREM TypeCorrect == Spec => []TypeOK
  <1>1. IInv => TypeOK
    BY DEF IInv
  <1>2. QED BY <1>1, InitIInv, IInvStep, PTL DEF Spec

\* Until a relogin there is at most one attempt, one socket or one waiting
\* reconnect of HtImUpstreamConnector.
THEOREM SingleConnectionHolds == Spec => []SingleConnection
  <1>1. IInv => SingleConnection
    BY DEF IInv
  <1>2. QED BY <1>1, InitIInv, IInvStep, PTL DEF Spec

\* Until a relogin an accepted session that is open has its own key in place
\* and its heartbeat running.
THEOREM LiveSessionHolds == Spec => []LiveSession
  <1>1. IInv => LiveSession
    BY DEF IInv
  <1>2. QED BY <1>1, InitIInv, IInvStep, PTL DEF Spec
=============================================================================
