--------------------------- MODULE RoomHubProofs ---------------------------
(***************************************************************************)
(* Proofs about RoomHub and RoomGhosts, for any number of sessions,        *)
(* requests, connectors and sinks and with no assumption on the event      *)
(* loops: what the map of counters keeps whatever interleaves, what a room *)
(* promises until a release has run beside another session's callback      *)
(* (afterwards it breaks its documented promises, README section 6), and   *)
(* what a client sees of ghost publishers.                                 *)
(***************************************************************************)
EXTENDS RoomGhosts, FiniteSetTheorems, TLAPS

\* The local variables of a callback are set where the callback uses them.
LocalsSet ==
    \A s \in Sessions :
        /\ stage[s] \in {"counting", "decrement", "remove"} => ref[s] \in Counters
        /\ stage[s] \in {"away", "listed", "drop", "close", "sink", "forget", "cc"} => ref[s] = None
        /\ stage[s] \in {"put", "sunk", "announced"} => mine[s] \in Connectors

\* Sessions that may still decrement the room's counter n.
Counted == {"first", "put", "sunk", "announced", "joining", "wired", "captions",
            "attached", "broken", "uncount", "decrement"} \cup LeavingCc
Owners(n) == {s \in Sessions : ref[s] = n /\ stage[s] \in Counted}

\* Refused sessions, and sessions counted by a counter that is gone, make the
\* room's counter too small, never too large.
Undercount ==
    counts # None => IsFiniteSet(Owners(counts)) /\ value[counts] <= Cardinality(Owners(counts))

\* A counter in the map has a session that will decrement or remove it.
Attended ==
    counts # None =>
        \E s \in Sessions : ref[s] = counts /\ stage[s] \in Counted \cup {"counting", "remove"}

AnyInterleaving == TypeOK /\ LocalsSet /\ Undercount /\ Attended

----------------------------------------------------------------------------
(* Whatever the interleaving.                                              *)

\* computeIfAbsent on sinks gives a sink, and keeps the type of both variables.
LEMMA SinkForType ==
    ASSUME TypeOK, NEW k \in Sinks, SinkFor(k)
    PROVE  sink' \in Sinks \cup {None} /\ ended' \in SUBSET (Sinks \cup CcSinks)
  BY DEF TypeOK, SinkFor

LEMMA TypeStep == TypeOK /\ [Next]_vars => TypeOK'
  <1> SUFFICES ASSUME TypeOK, [Next]_vars PROVE TypeOK'
    OBVIOUS
  <1> USE RoomAssumption DEF TypeOK
  <1> DEFINE Stages == Resting \cup Subscribing \cup LeavingCc \cup Unsubscribing
  <1>0. ASSUME NEW s \in Sessions, NEW to \in Stages, Goto(s, to) PROVE stage' \in [Sessions -> Stages]
    BY <1>0 DEF Goto
  <1>1. ASSUME NEW s \in Sessions, Refuse(s) \/ ListGhosts(s) \/ Attach(s) \/ TestCounter(s) PROVE TypeOK'
    <2>1. stage' \in [Sessions -> Stages]
      BY <1>1, <1>0 DEF Refuse, ListGhosts, Attach, TestCounter, Resting, Subscribing, LeavingCc
    <2>2. QED BY <1>1, <2>1 DEF Refuse, ListGhosts, Attach, TestCounter, counter, wiring, cc
  <1>2. ASSUME NEW s \in Sessions, FindCounter(s) PROVE TypeOK'
    <2>1. stage' \in [Sessions -> Stages]
      BY <1>2, <1>0 DEF FindCounter, Subscribing
    <2>2. collided' \in BOOLEAN
      BY <1>2, Zenon DEF FindCounter
    <2>3. counts' \in Counters \cup {None} /\ value' \in [Counters -> Int] /\ ref' \in [Sessions -> Counters \cup {None}]
      BY <1>2 DEF FindCounter, FreeCounters
    <2>4. QED BY <1>2, <2>1, <2>2, <2>3 DEF FindCounter, wiring, cc
  <1>3. ASSUME NEW s \in Sessions, Count(s) PROVE TypeOK'
    <2>1. stage' \in [Sessions -> Stages]
      BY <1>3, <1>0 DEF Count, Subscribing
    <2>2. value' \in [Counters -> Int]
      <3>1. value' = [value EXCEPT ![ref[s]] = value[ref[s]] + 1]
        BY <1>3 DEF Count
      <3>2. CASE ref[s] \in Counters
        BY <3>1, <3>2
      <3>3. CASE ref[s] = None
        BY <3>1, <3>3
      <3>4. QED BY <3>2, <3>3
    <2>3. QED BY <1>3, <2>1, <2>2 DEF Count, wiring, cc
  <1>4. ASSUME NEW s \in Sessions, PutConnector(s) PROVE TypeOK'
    <2>1. stage' \in [Sessions -> Stages]
      BY <1>4, <1>0 DEF PutConnector, Subscribing
    <2>2. PICK g \in Connectors : /\ connector' = g
                                   /\ mine' = [mine EXCEPT ![s] = g]
                                   /\ upstream' = [upstream EXCEPT ![g] = "new"]
      BY <1>4 DEF PutConnector, FreeConnectors
    <2>3. /\ connector' \in Connectors \cup {None}
          /\ mine' \in [Sessions -> Connectors \cup {None}]
          /\ upstream' \in [Connectors -> {"none", "closing"} \cup Held]
      BY <2>2 DEF Held
    <2>4. QED BY <1>4, <2>1, <2>3 DEF PutConnector, counter, cc
  <1>5. ASSUME NEW s \in Sessions, AttachListeners(s) PROVE TypeOK'
    <2>1. stage' \in [Sessions -> Stages]
      BY <1>5, <1>0 DEF AttachListeners, Subscribing
    <2>2. PICK k \in Sinks : /\ SinkFor(k)
                              /\ feeds' = [feeds EXCEPT ![mine[s]] = k]
                              /\ flux' = [flux EXCEPT ![s] = k]
      BY <1>5 DEF AttachListeners
    <2>3. feeds' \in [Connectors -> Sinks \cup {None}] /\ flux' \in [Sessions -> Sinks \cup {None}]
      BY <2>2
    <2>4. sink' \in Sinks \cup {None} /\ ended' \in SUBSET (Sinks \cup CcSinks)
      BY <2>2, SinkForType
    <2>5. QED BY <1>5, <2>1, <2>3, <2>4 DEF AttachListeners, counter, cc
  <1>6. ASSUME NEW s \in Sessions, Announce(s) PROVE TypeOK'
    <2>1. stage' \in [Sessions -> Stages]
      BY <1>6, <1>0 DEF Announce, Subscribing
    <2>2. QED BY <1>6, <2>1, SinkForType DEF Announce, counter, wiring, cc
  <1>7. ASSUME NEW s \in Sessions, ConnectUpstream(s) PROVE TypeOK'
    <2>1. stage' \in [Sessions -> Stages]
      BY <1>7, <1>0 DEF ConnectUpstream, Subscribing, Resting
    <2>2. upstream' \in [Connectors -> {"none", "closing"} \cup Held] /\ flux' \in [Sessions -> Sinks \cup {None}]
      BY <1>7 DEF ConnectUpstream, Held
    <2>3. QED BY <1>7, <2>1, <2>2 DEF ConnectUpstream, counter, cc
  <1>8. ASSUME NEW s \in Sessions, Join(s) PROVE TypeOK'
    <2>1. stage' \in [Sessions -> Stages]
      BY <1>8, <1>0 DEF Join, Subscribing
    <2>2. PICK k \in Sinks : SinkFor(k) /\ flux' = [flux EXCEPT ![s] = k]
      BY <1>8 DEF Join
    <2>3. flux' \in [Sessions -> Sinks \cup {None}]
      BY <2>2
    <2>4. sink' \in Sinks \cup {None} /\ ended' \in SUBSET (Sinks \cup CcSinks)
      BY <2>2, SinkForType
    <2>5. QED BY <1>8, <2>1, <2>3, <2>4 DEF Join, counter, wiring, cc
  <1>9. ASSUME NEW s \in Sessions, SubscribeCc(s) PROVE TypeOK'
    <2>1. stage' \in [Sessions -> Stages]
      BY <1>9, <1>0 DEF SubscribeCc, Resting
    <2>2. ccCounts' \in Nat \cup {None}
      BY <1>9 DEF SubscribeCc
    <2>3. ccSink' \in CcSinks \cup {None} /\ ended' \in SUBSET (Sinks \cup CcSinks) /\ ccFlux' \in [Sessions -> CcSinks \cup {None}]
      BY <1>9 DEF SubscribeCc, FreeCcSinks
    <2>4. QED BY <1>9, <2>1, <2>2, <2>3 DEF SubscribeCc, counter, wiring
  <1>10. ASSUME NEW s \in Sessions, UnsubscribeCc(s) PROVE TypeOK'
    <2>1. stage' \in [Sessions -> Stages]
      BY <1>10, <1>0 DEF UnsubscribeCc, LeavingCc, Unsubscribing
    <2>2. ccCounts' \in Nat \cup {None}
      BY <1>10 DEF UnsubscribeCc
    <2>3. collided' \in BOOLEAN
      BY <1>10, Zenon DEF UnsubscribeCc
    <2>4. QED BY <1>10, <2>1, <2>2, <2>3 DEF UnsubscribeCc, counter, wiring
  <1>11. ASSUME NEW s \in Sessions, TestCount(s) \/ ReadCounter(s) PROVE TypeOK'
    <2>1. stage' \in [Sessions -> Stages]
      BY <1>11, <1>0 DEF TestCount, ReadCounter, Resting, LeavingCc, Unsubscribing
    <2>2. ref' \in [Sessions -> Counters \cup {None}]
      BY <1>11 DEF TestCount, ReadCounter
    <2>3. QED BY <1>11, <2>1, <2>2 DEF TestCount, ReadCounter, wiring, cc
  <1>12. ASSUME NEW s \in Sessions, Uncount(s) PROVE TypeOK'
    <2>1. stage' \in [Sessions -> Stages]
      BY <1>12, <1>0 DEF Uncount, Resting, Unsubscribing, Releasing
    <2>2. collided' \in BOOLEAN
      BY <1>12, Zenon DEF Uncount
    <2>3. ref' \in [Sessions -> Counters \cup {None}]
      BY <1>12 DEF Uncount
    <2>4. value' \in [Counters -> Int]
      <3>1. value' = [value EXCEPT ![ref[s]] = value[ref[s]] - 1]
        BY <1>12 DEF Uncount
      <3>2. CASE ref[s] \in Counters
        BY <3>1, <3>2
      <3>3. CASE ref[s] = None
        BY <3>1, <3>3
      <3>4. QED BY <3>2, <3>3
    <2>5. QED BY <1>12, <2>1, <2>2, <2>3, <2>4 DEF Uncount, wiring, cc
  <1>13. ASSUME NEW s \in Sessions, DropCcSink(s) \/ DropSink(s) \/ Forget(s) \/ DropCc(s) PROVE TypeOK'
    <2>1. stage' \in [Sessions -> Stages]
      BY <1>13, <1>0 DEF DropCcSink, DropSink, Forget, DropCc, Resting, Unsubscribing, Releasing
    <2>2. ended' \in SUBSET (Sinks \cup CcSinks)
      BY <1>13 DEF DropCcSink, DropSink, Forget, DropCc, Complete
    <2>3. QED BY <1>13, <2>1, <2>2 DEF DropCcSink, DropSink, Forget, DropCc, counter, wiring, cc
  <1>14. ASSUME NEW s \in Sessions, RemoveCounter(s) \/ RemoveConnector(s) PROVE TypeOK'
    <2>1. stage' \in [Sessions -> Stages]
      BY <1>14, <1>0 DEF RemoveCounter, RemoveConnector, Unsubscribing, Releasing
    <2>2. QED BY <1>14, <2>1 DEF RemoveCounter, RemoveConnector, counter, wiring, cc
  <1>15. ASSUME NEW s \in Sessions, CloseUpstream(s) PROVE TypeOK'
    <2>1. stage' \in [Sessions -> Stages]
      BY <1>15, <1>0 DEF CloseUpstream, Unsubscribing, Releasing
    <2>2. /\ upstream' \in [Connectors -> {"none", "closing"} \cup Held]
          /\ feeds' \in [Connectors -> Sinks \cup {None}]
      BY <1>15 DEF CloseUpstream
    <2>3. QED BY <1>15, <2>1, <2>2 DEF CloseUpstream, counter, cc
  <1>16. ASSUME NEW g \in Connectors, Connected(g) \/ Deliver(g) PROVE TypeOK'
    BY <1>16, SinkForType DEF Connected, Deliver, counter, wiring, cc, Held
  <1>17. ASSUME NEW g \in Connectors, ConnectFails(g) \/ Disconnected(g) PROVE TypeOK'
    <2>1. ended' \in SUBSET (Sinks \cup CcSinks)
      BY <1>17 DEF ConnectFails, Disconnected, Complete
    <2>2. QED BY <1>17, <2>1 DEF ConnectFails, Disconnected, counter, cc, Held
  <1>18. ASSUME NEW r \in Requests, TestSubscribers(r) \/ SyntheticThrows(r) \/ EmitSynthetic(r) PROVE TypeOK'
    BY <1>18, SinkForType DEF TestSubscribers, SyntheticThrows, EmitSynthetic, counter, wiring, cc
  <1>19. CASE UNCHANGED vars
    BY <1>19 DEF vars, counter, wiring, cc
  <1>20. QED
    BY <1>1, <1>2, <1>3, <1>4, <1>5, <1>6, <1>7, <1>8, <1>9, <1>10, <1>11, <1>12, <1>13, <1>14,
       <1>15, <1>16, <1>17, <1>18, <1>19 DEF Next, Subscribe, Unsubscribe

\* The steps that look at no counter.
Elsewhere(s) ==
    \/ Refuse(s) \/ ListGhosts(s) \/ PutConnector(s) \/ AttachListeners(s) \/ Announce(s) \/ ConnectUpstream(s)
    \/ Join(s) \/ Attach(s) \/ SubscribeCc(s) \/ UnsubscribeCc(s) \/ TestCounter(s) \/ DropCcSink(s)
    \/ RemoveConnector(s) \/ CloseUpstream(s) \/ DropSink(s) \/ Forget(s) \/ DropCc(s)

\* They move a session from a stage that may be counted to another one.
LEMMA ElsewhereStep ==
    ASSUME TypeOK, NEW s \in Sessions, Elsewhere(s)
    PROVE  /\ UNCHANGED <<counts, value, ref>>
           /\ \A t \in Sessions : t # s => stage'[t] = stage[t]
           /\ \/ stage[s] = "away" /\ stage'[s] \in {"broken", "listed"}
              \/ stage[s] \in Counted /\ stage'[s] \in Counted /\ stage'[s] # "decrement"
              \/ /\ stage[s] \in {"drop", "close", "sink", "forget", "cc"}
                 /\ stage'[s] \in {"away", "close", "sink", "forget", "cc"}
  <1>1. UNCHANGED <<counts, value, ref>>
    BY DEF Elsewhere, Refuse, ListGhosts, PutConnector, AttachListeners, Announce, ConnectUpstream, Join, Attach,
           SubscribeCc, UnsubscribeCc, TestCounter, DropCcSink, RemoveConnector, CloseUpstream, DropSink, Forget, DropCc,
           counter
  <1>2. \A t \in Sessions : t # s => stage'[t] = stage[t]
    BY DEF Elsewhere, Refuse, ListGhosts, PutConnector, AttachListeners, Announce, ConnectUpstream, Join, Attach,
           SubscribeCc, UnsubscribeCc, TestCounter, DropCcSink, RemoveConnector, CloseUpstream, DropSink, Forget, DropCc,
           Goto, TypeOK
  <1>3. CASE Refuse(s) \/ ListGhosts(s)
    BY <1>1, <1>2, <1>3 DEF Refuse, ListGhosts, Goto, TypeOK
  <1>4. CASE \/ PutConnector(s) \/ AttachListeners(s) \/ Announce(s) \/ ConnectUpstream(s) \/ Join(s) \/ Attach(s)
             \/ SubscribeCc(s) \/ UnsubscribeCc(s) \/ TestCounter(s) \/ DropCcSink(s)
    <2>1. stage[s] \in Counted /\ stage'[s] \in Counted /\ stage'[s] # "decrement"
      BY <1>4 DEF PutConnector, AttachListeners, Announce, ConnectUpstream, Join, Attach,
                  SubscribeCc, UnsubscribeCc, TestCounter, DropCcSink, Goto, TypeOK, Counted, LeavingCc
    <2>2. QED BY <1>1, <1>2, <2>1
  <1>5. CASE RemoveConnector(s) \/ CloseUpstream(s) \/ DropSink(s) \/ Forget(s) \/ DropCc(s)
    BY <1>1, <1>2, <1>5 DEF RemoveConnector, CloseUpstream, DropSink, Forget, DropCc, Goto, TypeOK
  <1>6. QED BY <1>3, <1>4, <1>5 DEF Elsewhere

\* The steps of connectors and requests.
LEMMA CallbackStep ==
    ASSUME \/ \E g \in Connectors : Connected(g) \/ Deliver(g) \/ ConnectFails(g) \/ Disconnected(g)
           \/ \E r \in Requests : TestSubscribers(r) \/ SyntheticThrows(r) \/ EmitSynthetic(r)
           \/ UNCHANGED vars
    PROVE  UNCHANGED <<counts, value, ref, mine, stage, flux, connector>>
  <1>1. ASSUME NEW g \in Connectors, Connected(g) \/ Deliver(g) \/ ConnectFails(g) \/ Disconnected(g)
        PROVE  UNCHANGED <<counts, value, ref, mine, stage, flux, connector>>
    BY <1>1 DEF Connected, Deliver, ConnectFails, Disconnected, counter, wiring
  <1>2. ASSUME NEW r \in Requests, TestSubscribers(r) \/ SyntheticThrows(r) \/ EmitSynthetic(r)
        PROVE  UNCHANGED <<counts, value, ref, mine, stage, flux, connector>>
    BY <1>2 DEF TestSubscribers, SyntheticThrows, EmitSynthetic, counter, wiring
  <1>3. CASE UNCHANGED vars
    BY <1>3 DEF vars, counter, wiring
  <1>4. QED BY <1>1, <1>2, <1>3

LEMMA NextCases ==
    ASSUME [Next]_vars
    PROVE  \/ \E s \in Sessions : \/ Elsewhere(s) \/ FindCounter(s) \/ Count(s) \/ TestCount(s)
                                  \/ ReadCounter(s) \/ Uncount(s) \/ RemoveCounter(s)
           \/ \E g \in Connectors : Connected(g) \/ Deliver(g) \/ ConnectFails(g) \/ Disconnected(g)
           \/ \E r \in Requests : TestSubscribers(r) \/ SyntheticThrows(r) \/ EmitSynthetic(r)
           \/ UNCHANGED vars
  BY DEF Next, Subscribe, Unsubscribe, Elsewhere

LEMMA LocalsStep ==
    ASSUME TypeOK, TypeOK', LocalsSet, [Next]_vars
    PROVE  LocalsSet'
  <1> USE RoomAssumption
  <1>0. ASSUME NEW s \in Sessions,
               \A t \in Sessions : t # s => stage'[t] = stage[t] /\ ref'[t] = ref[t] /\ mine'[t] = mine[t],
               stage'[s] \in {"counting", "decrement", "remove"} => ref'[s] \in Counters,
               stage'[s] \in {"away", "listed", "drop", "close", "sink", "forget", "cc"} => ref'[s] = None,
               stage'[s] \in {"put", "sunk", "announced"} => mine'[s] \in Connectors
        PROVE  LocalsSet'
    BY <1>0 DEF LocalsSet
  <1>1. ASSUME NEW s \in Sessions, Elsewhere(s) PROVE LocalsSet'
    <2>1. \A t \in Sessions : t # s => mine'[t] = mine[t]
      BY <1>1 DEF Elsewhere, Refuse, ListGhosts, PutConnector, AttachListeners, Announce, ConnectUpstream, Join, Attach,
                  SubscribeCc, UnsubscribeCc, TestCounter, DropCcSink, RemoveConnector, CloseUpstream, DropSink, Forget,
                  DropCc, TypeOK, wiring
    <2>2. stage'[s] \in {"put", "sunk", "announced"} => mine'[s] \in Connectors
      <3>1. CASE PutConnector(s)
        BY <3>1 DEF PutConnector, FreeConnectors, TypeOK
      <3>2. CASE AttachListeners(s) \/ Announce(s)
        BY <3>2 DEF AttachListeners, Announce, LocalsSet, wiring
      <3>3. CASE ~ PutConnector(s) /\ ~ AttachListeners(s) /\ ~ Announce(s)
        BY <1>1, <3>3 DEF Elsewhere, Refuse, ListGhosts, ConnectUpstream, Join, Attach, SubscribeCc, UnsubscribeCc,
                          TestCounter, DropCcSink, RemoveConnector, CloseUpstream, DropSink, Forget, DropCc, Goto, TypeOK
      <3>4. QED BY <3>1, <3>2, <3>3
    <2>3. /\ stage'[s] \in {"counting", "decrement", "remove"} => ref'[s] \in Counters
          /\ stage'[s] \in {"away", "listed", "drop", "close", "sink", "forget", "cc"} => ref'[s] = None
      BY <1>1, ElsewhereStep DEF LocalsSet, Counted, LeavingCc
    <2>4. QED BY <1>0, <1>1, <2>1, <2>2, <2>3, ElsewhereStep
  <1>2. ASSUME NEW s \in Sessions, FindCounter(s) PROVE LocalsSet'
    BY <1>0, <1>2 DEF FindCounter, Goto, TypeOK, wiring
  <1>3. ASSUME NEW s \in Sessions, Count(s) PROVE LocalsSet'
    BY <1>0, <1>3 DEF Count, Goto, TypeOK, wiring
  <1>4. ASSUME NEW s \in Sessions, TestCount(s) \/ ReadCounter(s) \/ RemoveCounter(s) PROVE LocalsSet'
    BY <1>0, <1>4 DEF TestCount, ReadCounter, RemoveCounter, Goto, TypeOK, wiring
  <1>5. ASSUME NEW s \in Sessions, Uncount(s) PROVE LocalsSet'
    <2>1. stage[s] = "decrement" /\ stage'[s] \in {"remove", "away"}
      BY <1>5 DEF Uncount, Goto, TypeOK
    <2>2. (stage'[s] = "remove" => ref'[s] = ref[s]) /\ (stage'[s] = "away" => ref'[s] = None)
      BY <1>5 DEF Uncount, Goto, TypeOK
    <2>3. \A t \in Sessions : t # s => stage'[t] = stage[t] /\ ref'[t] = ref[t] /\ mine'[t] = mine[t]
      BY <1>5 DEF Uncount, Goto, TypeOK, wiring
    <2>4. QED BY <1>0, <2>1, <2>2, <2>3 DEF LocalsSet
  <1>6. ASSUME UNCHANGED <<counts, value, ref, mine, stage, flux, connector>> PROVE LocalsSet'
    BY <1>6 DEF LocalsSet
  <1>7. QED BY <1>1, <1>2, <1>3, <1>4, <1>5, <1>6, NextCases, CallbackStep

\* The counter in the map and the sessions it undercounts move together.
LEMMA UndercountStep ==
    ASSUME TypeOK, TypeOK', LocalsSet, Undercount, [Next]_vars
    PROVE  Undercount'
  <1> USE RoomAssumption
  <1>0. ASSUME counts' = counts, counts # None => value'[counts] = value[counts] /\ Owners(counts)' = Owners(counts)
        PROVE  Undercount'
    BY <1>0 DEF Undercount
  <1>c. counts # None => counts \in Counters /\ Cardinality(Owners(counts)) \in Nat /\ value[counts] \in Int
    BY FS_CardinalityType DEF Undercount, TypeOK
  <1>1. ASSUME NEW s \in Sessions, Elsewhere(s) PROVE Undercount'
    <2>1. counts # None => Owners(counts)' = Owners(counts)
      BY <1>1, ElsewhereStep DEF Owners, Counted, LeavingCc, LocalsSet
    <2>2. QED BY <1>0, <1>1, <2>1, ElsewhereStep
  <1>2. ASSUME NEW s \in Sessions, FindCounter(s) PROVE Undercount'
    <2>1. /\ stage[s] = "listed" /\ stage'[s] = "counting"
          /\ \A t \in Sessions : t # s => stage'[t] = stage[t] /\ ref'[t] = ref[t]
      BY <1>2 DEF FindCounter, Goto, TypeOK
    <2>2. CASE counts = None
      <3>1. counts' \in FreeCounters /\ value'[counts'] = 0
        BY <1>2, <2>2 DEF FindCounter, TypeOK, FreeCounters
      <3>2. Owners(counts)' = {}
        BY <2>1, <3>1 DEF Owners, FreeCounters, Counted, LeavingCc
      <3>3. QED BY <3>1, <3>2, FS_EmptySet DEF Undercount
    <2>3. CASE counts # None
      <3>1. counts' = counts /\ value' = value
        BY <1>2, <2>3 DEF FindCounter
      <3>2. Owners(counts)' = Owners(counts)
        BY <2>1, <3>1 DEF Owners, Counted, LeavingCc
      <3>3. QED BY <1>0, <3>1, <3>2
    <2>4. QED BY <2>2, <2>3
  <1>3. ASSUME NEW s \in Sessions, Count(s) PROVE Undercount'
    <2>1. /\ stage[s] = "counting" /\ stage'[s] \in {"first", "joining"}
          /\ \A t \in Sessions : t # s => stage'[t] = stage[t]
          /\ UNCHANGED <<counts, ref>>
      BY <1>3 DEF Count, Goto, TypeOK
    <2>2. ref[s] \in Counters
      BY <2>1 DEF LocalsSet
    <2>3. value' = [value EXCEPT ![ref[s]] = value[ref[s]] + 1]
      BY <1>3 DEF Count
    <2>4. CASE counts # ref[s]
      <3>1. counts # None => value'[counts] = value[counts]
        BY <2>3, <2>4 DEF TypeOK
      <3>2. Owners(counts)' = Owners(counts)
        BY <2>1, <2>4 DEF Owners
      <3>3. QED BY <1>0, <2>1, <3>1, <3>2
    <2>5. CASE counts = ref[s]
      <3>1. value'[counts] = value[counts] + 1 /\ counts # None
        BY <2>2, <2>3, <2>5 DEF TypeOK
      <3>2. Owners(counts)' = Owners(counts) \cup {s} /\ s \notin Owners(counts)
        BY <2>1, <2>5 DEF Owners, Counted, LeavingCc
      <3>3. /\ IsFiniteSet(Owners(counts) \cup {s})
            /\ Cardinality(Owners(counts) \cup {s}) = Cardinality(Owners(counts)) + 1
        BY <3>1, <3>2, FS_AddElement DEF Undercount
      <3>4. QED BY <1>c, <2>1, <3>1, <3>2, <3>3 DEF Undercount
    <2>6. QED BY <2>4, <2>5
  <1>4. ASSUME NEW s \in Sessions, TestCount(s) PROVE Undercount'
    <2>1. CASE counts = None
      BY <1>4, <2>1 DEF TestCount, Undercount
    <2>2. CASE counts # None
      <3>1. UNCHANGED <<counts, value, ref>> /\ stage[s] \in Counted /\ stage'[s] \in Counted
            /\ \A t \in Sessions : t # s => stage'[t] = stage[t]
        BY <1>4, <2>2 DEF TestCount, Goto, TypeOK, Counted, LeavingCc
      <3>2. QED BY <1>0, <3>1 DEF Owners
    <2>3. QED BY <2>1, <2>2
  <1>5. ASSUME NEW s \in Sessions, ReadCounter(s) PROVE Undercount'
    <2>1. /\ UNCHANGED <<counts, value>>
          /\ stage[s] = "uncount" /\ (counts # None => stage'[s] = "decrement") /\ ref'[s] = counts
          /\ \A t \in Sessions : t # s => stage'[t] = stage[t] /\ ref'[t] = ref[t]
      BY <1>5 DEF ReadCounter, Goto, TypeOK
    <2>2. CASE counts = None
      BY <2>1, <2>2 DEF Undercount
    <2>3. CASE counts # None
      <3>1. Owners(counts)' = Owners(counts) \cup {s}
        BY <2>1, <2>3 DEF Owners, Counted
      <3>2. /\ IsFiniteSet(Owners(counts) \cup {s})
            /\ Cardinality(Owners(counts) \cup {s}) \in {Cardinality(Owners(counts)), Cardinality(Owners(counts)) + 1}
        BY <2>3, FS_AddElement DEF Undercount
      <3>3. QED BY <1>c, <2>1, <2>3, <3>1, <3>2 DEF Undercount
    <2>4. QED BY <2>2, <2>3
  <1>6. ASSUME NEW s \in Sessions, Uncount(s) PROVE Undercount'
    <2>1. /\ stage[s] = "decrement" /\ stage'[s] \in {"remove", "away"} /\ counts' = counts
          /\ \A t \in Sessions : t # s => stage'[t] = stage[t] /\ ref'[t] = ref[t]
      BY <1>6 DEF Uncount, Goto, TypeOK
    <2>2. ref[s] \in Counters
      BY <2>1 DEF LocalsSet
    <2>3. value' = [value EXCEPT ![ref[s]] = value[ref[s]] - 1]
      BY <1>6 DEF Uncount
    <2>4. CASE counts # ref[s]
      <3>1. counts # None => value'[counts] = value[counts]
        BY <2>3, <2>4 DEF TypeOK
      <3>2. Owners(counts)' = Owners(counts)
        BY <2>1, <2>4 DEF Owners, Counted, LeavingCc
      <3>3. QED BY <1>0, <2>1, <3>1, <3>2
    <2>5. CASE counts = ref[s]
      <3>1. value'[counts] = value[counts] - 1 /\ counts # None
        BY <2>2, <2>3, <2>5 DEF TypeOK
      <3>2. Owners(counts)' = Owners(counts) \ {s}
        BY <2>1, <2>5 DEF Owners, Counted, LeavingCc
      <3>3. /\ IsFiniteSet(Owners(counts) \ {s})
            /\ Cardinality(Owners(counts) \ {s}) \in {Cardinality(Owners(counts)), Cardinality(Owners(counts)) - 1}
        BY <3>1, FS_RemoveElement DEF Undercount
      <3>4. QED BY <1>c, <2>1, <3>1, <3>2, <3>3 DEF Undercount
    <2>6. QED BY <2>4, <2>5
  <1>7. ASSUME NEW s \in Sessions, RemoveCounter(s) PROVE Undercount'
    <2>1. /\ value' = value /\ counts' \in {None, counts} /\ stage[s] = "remove" /\ stage'[s] = "drop"
          /\ \A t \in Sessions : t # s => stage'[t] = stage[t] /\ ref'[t] = ref[t]
      BY <1>7 DEF RemoveCounter, Goto, TypeOK
    <2>2. CASE counts' = None
      BY <2>2 DEF Undercount
    <2>3. CASE counts' = counts
      <3>1. Owners(counts)' = Owners(counts)
        BY <2>1, <2>3 DEF Owners, Counted, LeavingCc
      <3>2. QED BY <1>0, <2>1, <2>3, <3>1
    <2>4. QED BY <2>1, <2>2, <2>3
  <1>8. ASSUME UNCHANGED <<counts, value, ref, mine, stage, flux, connector>> PROVE Undercount'
    BY <1>0, <1>8 DEF Owners
  <1>9. QED BY <1>1, <1>2, <1>3, <1>4, <1>5, <1>6, <1>7, <1>8, NextCases, CallbackStep

\* Whoever leaves the counter in the map leaves it to somebody it counts.
LEMMA AttendedStep ==
    ASSUME TypeOK, TypeOK', LocalsSet, Undercount', Attended, [Next]_vars
    PROVE  Attended'
  <1> USE RoomAssumption
  <1> DEFINE Attending == Counted \cup {"counting", "remove"}
  <1>0. ASSUME NEW s \in Sessions, counts' = counts,
               \A t \in Sessions : t # s => stage'[t] = stage[t] /\ ref'[t] = ref[t],
               counts # None /\ ref[s] = counts /\ stage[s] \in Attending =>
                   ref'[s] = counts /\ stage'[s] \in Attending
        PROVE  Attended'
    BY <1>0 DEF Attended
  <1>1. ASSUME NEW s \in Sessions, Elsewhere(s) PROVE Attended'
    BY <1>0, <1>1, ElsewhereStep DEF Counted, LeavingCc
  <1>2. ASSUME NEW s \in Sessions, FindCounter(s) PROVE Attended'
    <2>1. stage'[s] = "counting" /\ ref'[s] = counts'
      BY <1>2 DEF FindCounter, Goto, TypeOK
    <2>2. QED BY <2>1 DEF Attended
  <1>3. ASSUME NEW s \in Sessions, Count(s) PROVE Attended'
    BY <1>0, <1>3 DEF Count, Goto, TypeOK, Counted
  <1>4. ASSUME NEW s \in Sessions, TestCount(s) PROVE Attended'
    BY <1>0, <1>4 DEF TestCount, Goto, TypeOK, Counted, LeavingCc
  <1>5. ASSUME NEW s \in Sessions, ReadCounter(s) PROVE Attended'
    <2>1. counts' = counts /\ ref'[s] = counts /\ (counts # None => stage'[s] = "decrement")
      BY <1>5 DEF ReadCounter, Goto, TypeOK
    <2>2. QED BY <2>1 DEF Attended, Counted
  <1>6. ASSUME NEW s \in Sessions, Uncount(s) PROVE Attended'
    <2>1. /\ stage[s] = "decrement" /\ counts' = counts
          /\ \A t \in Sessions : t # s => stage'[t] = stage[t] /\ ref'[t] = ref[t]
      BY <1>6 DEF Uncount, Goto, TypeOK
    <2>2. value' = [value EXCEPT ![ref[s]] = value[ref[s]] - 1]
      BY <1>6 DEF Uncount
    <2>3. CASE counts = ref[s] /\ stage'[s] # "remove"
      <3>1. ref[s] \in Counters /\ counts' # None
        BY <2>1, <2>3 DEF LocalsSet
      <3>2. ~ (value[ref[s]] - 1 <= 0) /\ value[ref[s]] \in Int
        BY <1>6, <2>3, <3>1 DEF Uncount, Goto, TypeOK
      <3>3. value'[counts'] > 0 /\ value'[counts'] \in Int
        BY <2>1, <2>2, <2>3, <3>1, <3>2 DEF TypeOK
      <3>4. Owners(counts)' # {}
        <4>1. SUFFICES ASSUME Owners(counts)' = {} PROVE FALSE
          OBVIOUS
        <4>2. Cardinality(Owners(counts)') = 0
          BY <4>1, FS_EmptySet
        <4>3. QED BY <3>1, <3>3, <4>2 DEF Undercount
      <3>5. QED BY <3>4 DEF Attended, Owners
    <2>4. CASE stage'[s] = "remove"
      <3>1. ref' = ref
        BY <1>6, <2>4 DEF Uncount, Goto, TypeOK
      <3>2. QED BY <1>0, <2>1, <2>4, <3>1
    <2>5. CASE counts # ref[s]
      BY <1>0, <2>1, <2>5
    <2>6. QED BY <2>3, <2>4, <2>5
  <1>7. ASSUME NEW s \in Sessions, RemoveCounter(s) PROVE Attended'
    <2>1. /\ counts' = (IF counts = ref[s] THEN None ELSE counts)
          /\ \A t \in Sessions : t # s => stage'[t] = stage[t] /\ ref'[t] = ref[t]
      BY <1>7 DEF RemoveCounter, Goto, TypeOK
    <2>2. CASE counts = ref[s]
      BY <2>1, <2>2 DEF Attended
    <2>3. CASE counts # ref[s]
      BY <1>0, <2>1, <2>3
    <2>4. QED BY <2>2, <2>3
  <1>8. ASSUME UNCHANGED <<counts, value, ref, mine, stage, flux, connector>> PROVE Attended'
    BY <1>8 DEF Attended
  <1>9. QED BY <1>1, <1>2, <1>3, <1>4, <1>5, <1>6, <1>7, <1>8, NextCases, CallbackStep

LEMMA AnyStep == AnyInterleaving /\ [Next]_vars => AnyInterleaving'
  BY TypeStep, LocalsStep, UndercountStep, AttendedStep DEF AnyInterleaving

LEMMA InitAny == Init => AnyInterleaving
  <1> SUFFICES ASSUME Init PROVE AnyInterleaving
    OBVIOUS
  <1> USE RoomAssumption
  <1>1. collided \in BOOLEAN
    BY Zenon DEF Init
  <1>2. TypeOK
    BY <1>1 DEF Init, TypeOK, Resting
  <1>3. QED BY <1>2 DEF Init, LocalsSet, Undercount, Attended, AnyInterleaving

\* The maps of RoomEventSource, its sessions, connectors and sinks keep their
\* types however the callbacks interleave.
THEOREM TypeCorrect == Spec => []TypeOK
  <1>1. AnyInterleaving => TypeOK
    BY DEF AnyInterleaving
  <1>2. QED BY <1>1, InitAny, AnyStep, PTL DEF Spec

\* When every session has left, counts has no entry for the room, for any
\* interleaving of any number of sessions, although a session may subtract
\* itself from another counter than the one it added itself to: the value of
\* the counter in the map never exceeds the sessions that may still subtract
\* themselves from it, so the last of them removes it.
THEOREM CounterReleasedHolds == Spec => []CounterReleased
  <1>1. AnyInterleaving => CounterReleased
    <2> SUFFICES ASSUME Attended, AllAway, counts # None PROVE FALSE
      BY DEF CounterReleased, AnyInterleaving
    <2>1. QED BY DEF Attended, AllAway, Counted, LeavingCc
  <1>2. QED BY <1>1, InitAny, AnyStep, PTL DEF Spec

----------------------------------------------------------------------------
(* Until a release has run beside another session's callback.              *)

\* A session that uses none of the room's maps, one that opens the room, one
\* that joins it, one that listens to a sink.
Idle == Resting \cup {"listed"}
Opening == {"first", "put", "sunk", "announced"}
Joining == {"joining", "wired", "captions"}
Listening == {"wired", "captions", "attached"}

\* The room has no connector; it has one, and the connector feeds its sink.
OnlyHeld(g) == \A h \in Connectors : upstream[h] \in Held => h = g
Released == connector = None /\ \A h \in Connectors : upstream[h] \notin Held
Serving ==
    /\ connector # None /\ sink # None
    /\ feeds[connector] = sink
    /\ upstream[connector] \in Held
    /\ OnlyHeld(connector)
Settled == Serving \/ Released

\* Nobody listens to a sink that may emit; nobody can have captions.
Deaf == \A s \in Sessions : stage[s] \in Listening => flux[s] \in ended
NoCc == ccSink = None /\ ccCounts = None

\* A release runs alone, and at most one session opens the room.
ReleaseAlone == \A s, t \in Sessions : stage[s] \in Releasing /\ stage[t] \notin Idle => s = t
OneOpener == \A s, t \in Sessions : stage[s] \in Opening /\ stage[t] \in Opening => s = t

\* What holds outside the release and the opening: the counter says whether
\* the room is served.
NobodyReleasing == \A s \in Sessions : stage[s] \notin Releasing
NonNegative == NobodyReleasing /\ counts # None => value[counts] >= 0
CcQuiet == NobodyReleasing /\ ~HasSubscribers => NoCc
Quiet ==
    NobodyReleasing /\ (\A s \in Sessions : stage[s] \notin Opening) =>
        \/ HasSubscribers /\ Serving
        \/ ~HasSubscribers /\ Released /\ Deaf

\* What a session may rely on inside subscribe(), ...
InSubscribe(s) ==
    /\ stage[s] = "counting" => ref[s] = counts /\ counts # None
    /\ stage[s] \in Opening \cup Joining => HasSubscribers
    /\ stage[s] = "first" => Released
    /\ stage[s] = "put" =>
          connector # None /\ connector = mine[s] /\ upstream[mine[s]] = "new" /\ OnlyHeld(connector)
    /\ stage[s] \in {"sunk", "announced"} =>
          Serving /\ connector = mine[s] /\ upstream[mine[s]] = "new" /\ flux[s] = sink

\* ... and inside unsubscribe().
InUnsubscribe(s) ==
    /\ stage[s] = "decrement" => ref[s] = counts /\ counts # None
    /\ stage[s] = "remove" => ref[s] = counts /\ counts # None /\ ~HasSubscribers /\ Settled
    /\ stage[s] = "drop" => counts = None /\ Settled
    /\ stage[s] = "close" => counts = None /\ connector = None /\ OnlyHeld(mine[s])
    /\ stage[s] = "sink" => counts = None /\ Released
    /\ stage[s] \in {"forget", "cc"} => counts = None /\ Released /\ Deaf

Listens(s) == stage[s] \in Listening => flux[s] \in ended \/ (flux[s] = sink /\ sink # None)

\* What holds until a collision.
Calm ==
    /\ ReleaseAlone /\ OneOpener
    /\ NonNegative /\ CcQuiet /\ Quiet
    /\ OnlineIsKnown
    /\ \A s \in Sessions : InSubscribe(s) /\ InUnsubscribe(s) /\ Listens(s)

IInv == AnyInterleaving /\ (~collided => Calm)

\* A session that neither opens nor releases the room relies on the counter only.
LEMMA Bystander ==
    ASSUME NEW t \in Sessions, stage'[t] = stage[t], ref'[t] = ref[t], counts' = counts,
           HasSubscribers => HasSubscribers', stage[t] \notin Opening \cup Releasing,
           InSubscribe(t), InUnsubscribe(t)
    PROVE  InSubscribe(t)' /\ InUnsubscribe(t)'
  BY DEF InSubscribe, InUnsubscribe, Opening, Joining, Releasing

\* A step of session s that neither opens nor releases the room, and leaves its
\* connector and sink alone.
LEMMA BesideStep ==
    ASSUME TypeOK, Calm, NEW s \in Sessions,
           UNCHANGED <<connector, sink, upstream, feeds, lastConnectionState>>,
           \A k \in Sinks : k \in ended' <=> k \in ended,
           HasSubscribers' <=> HasSubscribers,
           counts # None => counts' = counts,
           counts' = counts \/ NobodyReleasing,
           \A t \in Sessions : t # s => /\ stage'[t] = stage[t] /\ ref'[t] = ref[t]
                                      /\ mine'[t] = mine[t] /\ flux'[t] = flux[t],
           stage[s] \notin Opening \cup Releasing,
           stage'[s] \notin Opening \cup Releasing,
           stage'[s] \notin Idle => NobodyReleasing,
           stage'[s] \in {"counting", "decrement"} => ref'[s] = counts' /\ counts' # None,
           stage'[s] \in Joining => HasSubscribers,
           stage'[s] \in Listening =>
               flux'[s] \in Sinks /\ (flux'[s] \in ended \/ flux'[s] = sink) /\ (~HasSubscribers => flux'[s] \in ended),
           NonNegative', CcQuiet'
    PROVE  Calm'
  <1> USE RoomAssumption
  <1>1. /\ Serving' <=> Serving
        /\ Released' <=> Released
        /\ Settled' <=> Settled
    BY DEF Serving, Released, Settled, OnlyHeld
  <1>2. \A g \in Connectors \cup {None} : OnlyHeld(g)' <=> OnlyHeld(g)
    BY DEF OnlyHeld
  <1>3. NobodyReleasing' <=> NobodyReleasing
    BY DEF NobodyReleasing
  <1>4. ReleaseAlone' /\ OneOpener'
    BY DEF Calm, ReleaseAlone, OneOpener, NobodyReleasing
  <1>5. \A t \in Sessions : t # s /\ stage[t] \in Listening =>
           /\ flux[t] \in ended => flux'[t] \in ended'
           /\ flux'[t] = flux[t]
    BY DEF Calm, Listens, TypeOK
  <1>6. Deaf /\ ~HasSubscribers => Deaf'
    BY <1>5 DEF Deaf
  <1>7. Quiet'
    BY <1>1, <1>3, <1>6 DEF Calm, Quiet
  <1>8. \A t \in Sessions : Listens(t)'
    <2>1. ASSUME NEW t \in Sessions, t # s PROVE Listens(t)'
      BY <1>5, <2>1 DEF Calm, Listens
    <2>2. Listens(s)'
      BY DEF Listens
    <2>3. QED BY <2>1, <2>2
  <1>9. InSubscribe(s)' /\ InUnsubscribe(s)'
    BY DEF InSubscribe, InUnsubscribe, Opening, Releasing
  <1>10. ASSUME NEW t \in Sessions, t # s PROVE InSubscribe(t)' /\ InUnsubscribe(t)'
    <2>1. InSubscribe(t) /\ InUnsubscribe(t)
      BY DEF Calm
    <2>2. InSubscribe(t)'
      BY <1>1, <1>2, <1>10, <2>1 DEF InSubscribe, Opening, TypeOK
    <2>3. CASE NobodyReleasing
      BY <1>10, <2>1, <2>2, <2>3 DEF InUnsubscribe, NobodyReleasing, Releasing
    <2>4. CASE ~NobodyReleasing
      <3>1. counts' = counts /\ stage'[s] \in Idle
        BY <2>4
      <3>2. stage[t] \in {"forget", "cc"} => ~HasSubscribers
        BY <2>1 DEF InUnsubscribe, HasSubscribers
      <3>3. QED BY <1>1, <1>2, <1>6, <1>10, <2>1, <2>2, <3>1, <3>2 DEF InUnsubscribe, TypeOK
    <2>5. QED BY <2>2, <2>3, <2>4
  <1>11. OnlineIsKnown'
    BY DEF Calm, OnlineIsKnown
  <1>12. QED BY <1>4, <1>7, <1>8, <1>9, <1>10, <1>11 DEF Calm

\* A step of a connector or a request: it may create the room's sink, complete
\* sinks and move a connector, but never opens one that close() has reached.
LEMMA OutsideStep ==
    ASSUME TypeOK, Calm,
           UNCHANGED <<counts, value, ref, mine, stage, flux, connector, ccCounts>>,
           ccSink' \in {ccSink, None},
           sink # None => sink' = sink,
           \A t \in Sessions : flux[t] \in ended => flux[t] \in ended',
           \A h \in Connectors : /\ upstream'[h] \in Held <=> upstream[h] \in Held
                                 /\ upstream[h] = "new" => upstream'[h] = "new"
                                 /\ upstream[h] \in Held => feeds'[h] = feeds[h],
           OnlineIsKnown'
    PROVE  Calm'
  <1> USE RoomAssumption
  <1>1. /\ HasSubscribers' <=> HasSubscribers
        /\ NobodyReleasing' <=> NobodyReleasing
    BY DEF HasSubscribers, NobodyReleasing
  <1>2. \A g \in Connectors \cup {None} : OnlyHeld(g)' <=> OnlyHeld(g)
    BY DEF OnlyHeld
  <1>3. /\ Serving => Serving'
        /\ Released => Released'
        /\ Settled => Settled'
    BY <1>2 DEF Serving, Released, Settled, TypeOK
  <1>4. Deaf => Deaf'
    BY DEF Deaf
  <1>5. ReleaseAlone' /\ OneOpener' /\ NonNegative'
    BY <1>1 DEF Calm, ReleaseAlone, OneOpener, NonNegative
  <1>6. CcQuiet' /\ Quiet'
    BY <1>1, <1>3, <1>4 DEF Calm, CcQuiet, NoCc, Quiet
  <1>7. ASSUME NEW t \in Sessions PROVE InSubscribe(t)' /\ InUnsubscribe(t)' /\ Listens(t)'
    <2>1. InSubscribe(t) /\ InUnsubscribe(t) /\ Listens(t) /\ mine[t] \in Connectors \cup {None}
      BY DEF Calm, TypeOK
    <2>2. mine[t] \in Connectors /\ upstream[mine[t]] = "new" => upstream'[mine[t]] = "new"
      OBVIOUS
    <2>3. stage[t] \in {"put", "sunk", "announced"} => mine[t] \in Connectors
      BY <2>1 DEF InSubscribe, Serving, TypeOK
    <2>4. InSubscribe(t)'
      BY <1>1, <1>2, <1>3, <2>1, <2>2, <2>3 DEF InSubscribe, Serving, TypeOK
    <2>5. InUnsubscribe(t)'
      BY <1>1, <1>2, <1>3, <1>4, <2>1 DEF InUnsubscribe
    <2>6. QED BY <2>1, <2>4, <2>5 DEF Listens
  <1>8. QED BY <1>5, <1>6, <1>7 DEF Calm

\* computeIfAbsent on sinks revives no sink that somebody listens to.
LEMMA SinkForEffect ==
    ASSUME TypeOK, NEW k \in Sinks, SinkFor(k)
    PROVE  /\ sink' = k
           /\ sink # None => sink' = sink
           /\ \A t \in Sessions : flux[t] \in ended => flux[t] \in ended'
  BY RoomAssumption DEF SinkFor, FreeSinks, TypeOK

\* What a session that is joining, or has joined, listens to.
LEMMA Joined ==
    ASSUME TypeOK, Calm, NEW s \in Sessions, stage[s] \in {"wired", "captions"}
    PROVE  HasSubscribers /\ flux[s] \in Sinks /\ (flux[s] \in ended \/ flux[s] = sink)
  BY RoomAssumption DEF Calm, InSubscribe, Listens, Joining, Listening, TypeOK

\* A session in a callback meets no release.
LEMMA NoRelease ==
    ASSUME Calm, NEW s \in Sessions, stage[s] \notin Idle \cup Releasing
    PROVE  NobodyReleasing
  BY DEF Calm, ReleaseAlone, NobodyReleasing

\* The steps before the counter is looked up, and the subscription to the flux.
LEMMA OpenStep ==
    ASSUME TypeOK, TypeOK', Calm, NEW s \in Sessions, Refuse(s) \/ ListGhosts(s) \/ Attach(s)
    PROVE  Calm'
  <1> USE DEF Opening, Releasing, Idle, Resting, Joining, Listening
  <1>1. \/ stage[s] = "away" /\ stage'[s] \in {"broken", "listed"}
        \/ stage[s] = "wired" /\ stage'[s] \in {"captions", "attached"}
    BY DEF Refuse, ListGhosts, Attach, Goto, TypeOK
  <1>2. UNCHANGED <<counts, value, ref, connector, mine, upstream, feeds, ccSink, ccCounts, sink,
                    lastConnectionState, flux, ended>>
    BY DEF Refuse, ListGhosts, Attach, counter, wiring, cc
  <1>3. \A t \in Sessions : t # s => stage'[t] = stage[t]
    BY DEF Refuse, ListGhosts, Attach, Goto, TypeOK
  <1>4. /\ HasSubscribers' <=> HasSubscribers
        /\ NobodyReleasing' <=> NobodyReleasing
    BY <1>1, <1>2, <1>3 DEF HasSubscribers, NobodyReleasing
  <1>5. NonNegative' /\ CcQuiet'
    BY <1>2, <1>4 DEF Calm, NonNegative, CcQuiet, NoCc
  <1>6. stage[s] = "wired" => NobodyReleasing
    BY NoRelease
  <1>7. stage[s] = "wired" => HasSubscribers /\ flux[s] \in Sinks /\ (flux[s] \in ended \/ flux[s] = sink)
    BY Joined
  <1>8. QED BY <1>1, <1>2, <1>3, <1>4, <1>5, <1>6, <1>7, BesideStep

LEMMA SubscribeCcStep ==
    ASSUME TypeOK, TypeOK', Calm, NEW s \in Sessions, SubscribeCc(s)
    PROVE  Calm'
  <1> USE DEF Opening, Releasing, Idle, Resting, Joining, Listening
  <1>1. stage[s] = "captions" /\ stage'[s] = "attached"
    BY DEF SubscribeCc, Goto, TypeOK
  <1>2. UNCHANGED <<counts, value, ref, connector, mine, upstream, feeds, sink, lastConnectionState, flux>>
    BY DEF SubscribeCc, counter, wiring
  <1>3. \A t \in Sessions : t # s => stage'[t] = stage[t]
    BY DEF SubscribeCc, Goto, TypeOK
  <1>4. \A k \in Sinks : k \in ended' <=> k \in ended
    BY RoomAssumption DEF SubscribeCc
  <1>5. HasSubscribers /\ flux[s] \in Sinks /\ (flux[s] \in ended \/ flux[s] = sink)
    BY <1>1, Joined
  <1>6. HasSubscribers' /\ NobodyReleasing
    BY <1>1, <1>2, <1>5, NoRelease DEF HasSubscribers
  <1>7. NonNegative' /\ CcQuiet'
    BY <1>2, <1>6 DEF Calm, NonNegative, CcQuiet
  <1>8. QED BY <1>1, <1>2, <1>3, <1>4, <1>5, <1>6, <1>7, BesideStep

\* unsubscribeCc() and the lookup of the counter in unsubscribe().
LEMMA LeaveStep ==
    ASSUME TypeOK, TypeOK', Calm, NEW s \in Sessions, ~collided',
           UnsubscribeCc(s) \/ TestCounter(s) \/ TestCount(s) \/ DropCcSink(s) \/ ReadCounter(s)
    PROVE  Calm'
  <1> USE DEF Opening, Releasing, Idle, Resting, Joining, Listening
  <1>1. /\ stage[s] \in {"attached", "broken", "cctest", "ccagain", "ccdrop", "uncount"}
        /\ stage'[s] \in {"cctest", "ccagain", "ccdrop", "uncount", "away", "decrement"}
        /\ stage'[s] = "decrement" => ref'[s] = counts /\ counts # None
    BY DEF UnsubscribeCc, TestCounter, TestCount, DropCcSink, ReadCounter, Goto, TypeOK
  <1>2. UNCHANGED <<counts, value, connector, mine, upstream, feeds, sink, lastConnectionState>>
    BY DEF UnsubscribeCc, TestCounter, TestCount, DropCcSink, ReadCounter, counter, wiring
  <1>3. \A t \in Sessions : t # s => stage'[t] = stage[t] /\ ref'[t] = ref[t] /\ flux'[t] = flux[t]
    BY DEF UnsubscribeCc, TestCounter, TestCount, DropCcSink, ReadCounter, Goto, TypeOK, counter
  <1>4. \A k \in Sinks : k \in ended' <=> k \in ended
    BY RoomAssumption DEF UnsubscribeCc, TestCounter, TestCount, DropCcSink, ReadCounter, Complete, TypeOK
  <1>5. NobodyReleasing
    <2>1. CASE UnsubscribeCc(s)
      <3>1. ~ OtherReleasing(s)
        BY <2>1, Zenon DEF UnsubscribeCc
      <3>2. QED BY <1>1, <3>1 DEF OtherReleasing, NobodyReleasing
    <2>2. CASE TestCounter(s) \/ TestCount(s) \/ DropCcSink(s) \/ ReadCounter(s)
      <3>1. stage[s] \notin Idle \cup Releasing
        BY <2>2 DEF TestCounter, TestCount, DropCcSink, ReadCounter
      <3>2. QED BY <3>1, NoRelease
    <2>3. QED BY <2>1, <2>2
  <1>6. HasSubscribers' <=> HasSubscribers
    BY <1>2 DEF HasSubscribers
  <1>7. NoCc => NoCc'
    BY DEF UnsubscribeCc, TestCounter, TestCount, DropCcSink, ReadCounter, NoCc, cc
  <1>8. NonNegative' /\ CcQuiet'
    BY <1>2, <1>5, <1>6, <1>7 DEF Calm, NonNegative, CcQuiet
  <1>9. QED BY <1>1, <1>2, <1>3, <1>4, <1>5, <1>6, <1>8, BesideStep

LEMMA FindCounterStep ==
    ASSUME TypeOK, TypeOK', Calm, NEW s \in Sessions, ~collided', FindCounter(s)
    PROVE  Calm'
  <1> USE DEF Opening, Releasing, Idle, Resting, Joining, Listening
  <1>1. stage[s] = "listed" /\ stage'[s] = "counting" /\ ref'[s] = counts' /\ counts' \in Counters
    BY DEF FindCounter, Goto, TypeOK
  <1>2. UNCHANGED <<connector, mine, upstream, feeds, sink, lastConnectionState, flux, ended, ccSink, ccCounts>>
    BY DEF FindCounter, wiring, cc
  <1>3. \A t \in Sessions : t # s => stage'[t] = stage[t] /\ ref'[t] = ref[t]
    BY DEF FindCounter, Goto, TypeOK
  <1>4. ~ OtherReleasing(s)
    BY Zenon DEF FindCounter
  <1>5. NobodyReleasing
    BY <1>1, <1>4 DEF OtherReleasing, NobodyReleasing
  <1>6. /\ counts = None => value'[counts'] = 0
        /\ counts # None => counts' = counts /\ value' = value
    BY DEF FindCounter, TypeOK
  <1>7. counts' # None
    BY <1>1, RoomAssumption
  <1>8. HasSubscribers' <=> HasSubscribers
    BY <1>6, <1>7 DEF HasSubscribers
  <1>9. NonNegative' /\ CcQuiet'
    BY <1>2, <1>5, <1>6, <1>8 DEF Calm, NonNegative, CcQuiet, NoCc
  <1>10. QED BY <1>1, <1>2, <1>3, <1>5, <1>6, <1>7, <1>8, <1>9, BesideStep

\* A subscriber that finds the counter at zero finds the room released, a later
\* one is one of several.
LEMMA CountStep ==
    ASSUME TypeOK, TypeOK', Calm, NEW s \in Sessions, Count(s)
    PROVE  Calm'
  <1> USE DEF Opening, Releasing, Idle, Resting, Joining, Listening
  <1>1. /\ stage[s] = "counting"
        /\ UNCHANGED <<counts, ref, connector, mine, upstream, feeds, sink, lastConnectionState, flux, ended,
                       ccSink, ccCounts>>
        /\ \A t \in Sessions : t # s => stage'[t] = stage[t]
    BY DEF Count, Goto, TypeOK, wiring, cc
  <1>2. ref[s] = counts /\ counts # None /\ counts \in Counters /\ value[counts] \in Int
    BY <1>1 DEF Calm, InSubscribe, TypeOK
  <1>3. NobodyReleasing
    BY <1>1, NoRelease
  <1>4. value[counts] >= 0
    BY <1>2, <1>3 DEF Calm, NonNegative
  <1>5. value' = [value EXCEPT ![counts] = value[counts] + 1]
    BY <1>2 DEF Count
  <1>6. value'[counts'] = value[counts] + 1
    BY <1>1, <1>2, <1>5 DEF TypeOK
  <1>7. HasSubscribers' /\ NonNegative' /\ CcQuiet'
    BY <1>1, <1>2, <1>4, <1>6 DEF HasSubscribers, NonNegative, CcQuiet
  <1>8. stage'[s] = IF value[counts] = 0 THEN "first" ELSE "joining"
    BY <1>2, <1>4 DEF Count, Goto, TypeOK
  <1>9. CASE value[counts] # 0
    <2>1. HasSubscribers
      BY <1>2, <1>4, <1>9 DEF HasSubscribers
    <2>2. QED BY <1>1, <1>3, <1>7, <1>8, <1>9, <2>1, BesideStep
  <1>10. CASE value[counts] = 0
    <2>1. ~HasSubscribers /\ stage'[s] = "first"
      BY <1>8, <1>10 DEF HasSubscribers
    <2>2. \A t \in Sessions : stage[t] \notin Opening \cup Joining
      BY <2>1 DEF Calm, InSubscribe
    <2>3. Released /\ Deaf
      BY <1>3, <2>1, <2>2 DEF Calm, Quiet
    <2>4. Released'
      BY <1>1, <2>3 DEF Released
    <2>5. \A t \in Sessions : t # s => InSubscribe(t)' /\ InUnsubscribe(t)'
      BY <1>1, <1>3, <1>7, <2>2, Bystander DEF Calm, NobodyReleasing
    <2>6. InSubscribe(s)' /\ InUnsubscribe(s)'
      BY <1>7, <2>1, <2>4 DEF InSubscribe, InUnsubscribe
    <2>7. \A t \in Sessions : Listens(t)'
      BY <1>1, <2>1 DEF Calm, Listens
    <2>8. ReleaseAlone' /\ OneOpener'
      BY <1>1, <1>3, <2>1, <2>2 DEF ReleaseAlone, OneOpener, NobodyReleasing
    <2>9. Quiet'
      BY <2>1 DEF Quiet
    <2>10. OnlineIsKnown'
      BY <1>1 DEF Calm, OnlineIsKnown
    <2>11. QED BY <1>7, <2>5, <2>6, <2>7, <2>8, <2>9, <2>10 DEF Calm
  <1>11. QED BY <1>9, <1>10

\* Whoever leaves the counter at zero or below is alone.
LEMMA UncountStep ==
    ASSUME TypeOK, TypeOK', Calm, NEW s \in Sessions, ~collided', Uncount(s)
    PROVE  Calm'
  <1> USE DEF Opening, Releasing, Idle, Resting, Joining, Listening
  <1>1. /\ stage[s] = "decrement"
        /\ UNCHANGED <<counts, connector, mine, upstream, feeds, sink, lastConnectionState, flux, ended,
                       ccSink, ccCounts>>
        /\ \A t \in Sessions : t # s => stage'[t] = stage[t] /\ ref'[t] = ref[t]
    BY DEF Uncount, Goto, TypeOK, wiring, cc
  <1>2. ref[s] = counts /\ counts # None /\ counts \in Counters /\ value[counts] \in Int
    BY <1>1 DEF Calm, InUnsubscribe, TypeOK
  <1>3. NobodyReleasing
    BY <1>1, NoRelease
  <1>4. value' = [value EXCEPT ![counts] = value[counts] - 1]
    BY <1>2 DEF Uncount
  <1>5. value'[counts'] = value[counts] - 1
    BY <1>1, <1>2, <1>4 DEF TypeOK
  <1>6. CASE value[counts] - 1 <= 0
    <2>1. stage'[s] = "remove" /\ ref' = ref
      BY <1>2, <1>6 DEF Uncount, Goto, TypeOK
    <2>2. collided' = (collided \/ OtherActive(s))
      BY <1>2, <1>6, Zenon DEF Uncount
    <2>3. \A t \in Sessions : t # s => stage[t] \in Idle
      BY <2>2, Zenon DEF OtherActive
    <2>4. Settled
      BY <1>1, <1>3, <2>3 DEF Calm, Quiet, Settled
    <2>5. Settled'
      BY <1>1, <2>4 DEF Settled, Serving, Released, OnlyHeld
    <2>6. ~HasSubscribers'
      BY <1>2, <1>5, <1>6 DEF HasSubscribers
    <2>7. InSubscribe(s)' /\ InUnsubscribe(s)'
      BY <1>1, <1>2, <2>1, <2>5, <2>6 DEF InSubscribe, InUnsubscribe
    <2>8. \A t \in Sessions : t # s => InSubscribe(t)' /\ InUnsubscribe(t)'
      BY <1>1, <2>3 DEF InSubscribe, InUnsubscribe
    <2>9. \A t \in Sessions : Listens(t)'
      BY <1>1, <2>1 DEF Calm, Listens
    <2>10. ReleaseAlone' /\ OneOpener'
      BY <1>1, <2>1, <2>3 DEF ReleaseAlone, OneOpener
    <2>11. NonNegative' /\ CcQuiet' /\ Quiet'
      BY <2>1 DEF NonNegative, CcQuiet, Quiet, NobodyReleasing
    <2>12. OnlineIsKnown'
      BY <1>1 DEF Calm, OnlineIsKnown
    <2>13. QED BY <2>7, <2>8, <2>9, <2>10, <2>11, <2>12 DEF Calm
  <1>7. CASE ~ (value[counts] - 1 <= 0)
    <2>1. stage'[s] = "away"
      BY <1>2, <1>7 DEF Uncount, Goto, TypeOK
    <2>2. HasSubscribers /\ HasSubscribers' /\ NonNegative' /\ CcQuiet'
      BY <1>1, <1>2, <1>5, <1>7 DEF HasSubscribers, NonNegative, CcQuiet
    <2>3. QED BY <1>1, <1>3, <2>1, <2>2, BesideStep
  <1>8. QED BY <1>6, <1>7

\* The steps of the session that opens the room.
LEMMA OpeningStep ==
    ASSUME TypeOK, TypeOK', Calm, NEW s \in Sessions,
           PutConnector(s) \/ AttachListeners(s) \/ Announce(s) \/ ConnectUpstream(s)
    PROVE  Calm'
  <1> USE RoomAssumption DEF Opening, Releasing, Idle, Resting, Joining, Listening
  <1>1. /\ stage[s] \in Opening
        /\ UNCHANGED <<counts, value, ref, ccSink, ccCounts>>
        /\ \A t \in Sessions : t # s => /\ stage'[t] = stage[t] /\ ref'[t] = ref[t]
                                       /\ mine'[t] = mine[t] /\ flux'[t] = flux[t]
    BY DEF PutConnector, AttachListeners, Announce, ConnectUpstream, Goto, TypeOK, counter, wiring, cc
  <1>2. NobodyReleasing
    BY <1>1, NoRelease
  <1>3. \A t \in Sessions : t # s => stage[t] \notin Opening \cup Releasing
    BY <1>1, <1>2 DEF Calm, OneOpener, NobodyReleasing
  <1>4. HasSubscribers /\ HasSubscribers'
    BY <1>1 DEF Calm, InSubscribe, HasSubscribers
  <1>5. \A t \in Sessions : t # s => InSubscribe(t)' /\ InUnsubscribe(t)'
    BY <1>1, <1>3, <1>4, Bystander DEF Calm
  <1>6. stage'[s] \in Opening \cup {"wired", "broken"}
    BY DEF PutConnector, AttachListeners, Announce, ConnectUpstream, Goto, TypeOK
  <1>7. ReleaseAlone' /\ OneOpener' /\ NonNegative' /\ CcQuiet'
    <2>1. ReleaseAlone' /\ OneOpener'
      BY <1>1, <1>3, <1>6 DEF ReleaseAlone, OneOpener
    <2>2. NonNegative' /\ CcQuiet'
      BY <1>1, <1>2, <1>4 DEF Calm, NonNegative, CcQuiet
    <2>3. QED BY <2>1, <2>2
  <1>8. ASSUME Quiet', OnlineIsKnown', InSubscribe(s)', \A t \in Sessions : Listens(t)' PROVE Calm'
    <2>1. InUnsubscribe(s)'
      BY <1>6 DEF InUnsubscribe
    <2>2. QED BY <1>5, <1>7, <1>8, <2>1 DEF Calm
  <1>9. InSubscribe(s) /\ \A t \in Sessions : Listens(t)
    BY DEF Calm
  <1>10. CASE PutConnector(s)
    <2>1. stage[s] = "first" /\ stage'[s] = "put" /\ UNCHANGED <<sink, flux, ended, lastConnectionState>>
      BY <1>10 DEF PutConnector, Goto, TypeOK
    <2>2. PICK g \in Connectors : /\ connector' = g
                                   /\ mine' = [mine EXCEPT ![s] = g]
                                   /\ upstream' = [upstream EXCEPT ![g] = "new"]
      BY <1>10 DEF PutConnector, FreeConnectors
    <2>3. Released
      BY <1>9, <2>1 DEF InSubscribe
    <2>4. connector' = g /\ mine'[s] = g /\ upstream'[g] = "new" /\ g # None
      BY <2>2 DEF TypeOK
    <2>5. OnlyHeld(g)'
      BY <2>2, <2>3 DEF OnlyHeld, Released, TypeOK, Held
    <2>6. InSubscribe(s)'
      BY <1>4, <2>1, <2>4, <2>5 DEF InSubscribe, OnlyHeld
    <2>7. \A t \in Sessions : Listens(t)'
      BY <1>1, <1>9, <2>1 DEF Listens
    <2>8. Quiet' /\ OnlineIsKnown'
      BY <2>1, <2>4 DEF Quiet, OnlineIsKnown
    <2>9. QED BY <1>8, <2>6, <2>7, <2>8
  <1>11. CASE AttachListeners(s)
    <2>1. /\ stage[s] = "put" /\ stage'[s] = "sunk"
          /\ UNCHANGED <<connector, mine, upstream, lastConnectionState>>
      BY <1>11 DEF AttachListeners, Goto, TypeOK
    <2>2. PICK k \in Sinks : /\ SinkFor(k)
                              /\ feeds' = [feeds EXCEPT ![mine[s]] = k]
                              /\ flux' = [flux EXCEPT ![s] = k]
      BY <1>11 DEF AttachListeners
    <2>3. connector # None /\ connector = mine[s] /\ upstream[mine[s]] = "new" /\ OnlyHeld(connector)
      BY <1>9, <2>1 DEF InSubscribe
    <2>4. /\ sink' = k
          /\ sink # None => sink' = sink
          /\ \A t \in Sessions : flux[t] \in ended => flux[t] \in ended'
      BY <2>2, SinkForEffect
    <2>5. mine[s] \in Connectors
      BY <2>3 DEF TypeOK
    <2>6. feeds'[connector'] = k /\ flux'[s] = k /\ k # None
      BY <2>1, <2>2, <2>3, <2>5 DEF TypeOK
    <2>7. OnlyHeld(connector)'
      BY <2>1, <2>3 DEF OnlyHeld
    <2>8. Serving'
      BY <2>1, <2>3, <2>4, <2>6, <2>7 DEF Serving, Held
    <2>9. InSubscribe(s)'
      BY <1>4, <2>1, <2>3, <2>4, <2>6, <2>8 DEF InSubscribe
    <2>10. \A t \in Sessions : Listens(t)'
      BY <1>1, <1>9, <2>1, <2>4, <2>6 DEF Listens
    <2>11. Quiet' /\ OnlineIsKnown'
      BY <2>1, <2>3 DEF Quiet, OnlineIsKnown
    <2>12. QED BY <1>8, <2>9, <2>10, <2>11
  <1>12. CASE Announce(s)
    <2>1. /\ stage[s] = "sunk" /\ stage'[s] = "announced"
          /\ UNCHANGED <<connector, mine, upstream, feeds, flux>>
      BY <1>12 DEF Announce, Goto, TypeOK, wiring
    <2>2. Serving /\ connector = mine[s] /\ upstream[mine[s]] = "new" /\ flux[s] = sink
      BY <1>9, <2>1 DEF InSubscribe
    <2>3. UNCHANGED <<sink, ended>>
      BY <1>12, <2>2 DEF Announce, SinkFor, Serving
    <2>4. Serving'
      BY <2>1, <2>2, <2>3 DEF Serving, OnlyHeld
    <2>5. InSubscribe(s)'
      BY <1>4, <2>1, <2>2, <2>3, <2>4 DEF InSubscribe
    <2>6. \A t \in Sessions : Listens(t)'
      BY <1>1, <1>9, <2>1, <2>3 DEF Listens
    <2>7. Quiet' /\ OnlineIsKnown'
      BY <2>1, <2>2 DEF Quiet, OnlineIsKnown
    <2>8. QED BY <1>8, <2>5, <2>6, <2>7
  <1>13. CASE ConnectUpstream(s)
    <2>1. /\ stage[s] = "announced" /\ stage'[s] \in {"wired", "broken"}
          /\ stage'[s] = "wired" => flux' = flux
          /\ UNCHANGED <<connector, feeds, sink, ended, lastConnectionState>>
      BY <1>13 DEF ConnectUpstream, Goto, TypeOK
    <2>2. Serving /\ connector = mine[s] /\ upstream[mine[s]] = "new" /\ flux[s] = sink
      BY <1>9, <2>1 DEF InSubscribe
    <2>3. mine[s] \in Connectors
      BY <2>2 DEF Serving, TypeOK
    <2>4. /\ upstream'[mine[s]] \in {"new", "dialing"}
          /\ \A h \in Connectors : h # mine[s] => upstream'[h] = upstream[h]
      BY <1>13, <2>2, <2>3 DEF ConnectUpstream, TypeOK
    <2>5. Serving'
      BY <2>1, <2>2, <2>3, <2>4 DEF Serving, OnlyHeld, Held
    <2>6. InSubscribe(s)'
      BY <1>4, <2>1 DEF InSubscribe
    <2>7. Listens(s)'
      BY <2>1, <2>2 DEF Listens, Serving
    <2>8. \A t \in Sessions : t # s => Listens(t)'
      BY <1>1, <1>9, <2>1 DEF Listens
    <2>9. Quiet' /\ OnlineIsKnown'
      BY <1>4, <2>1, <2>2, <2>4, <2>5 DEF Quiet, OnlineIsKnown
    <2>10. QED BY <1>8, <2>6, <2>7, <2>8, <2>9
  <1>14. QED BY <1>10, <1>11, <1>12, <1>13

\* A later subscriber may create the sink before the first one does.
LEMMA JoinStep ==
    ASSUME TypeOK, TypeOK', Calm, NEW s \in Sessions, Join(s)
    PROVE  Calm'
  <1> USE RoomAssumption DEF Opening, Releasing, Idle, Resting, Joining, Listening
  <1>1. /\ stage[s] = "joining" /\ stage'[s] = "wired"
        /\ UNCHANGED <<counts, value, ref, ccSink, ccCounts, connector, mine, upstream, feeds, lastConnectionState>>
        /\ \A t \in Sessions : t # s => stage'[t] = stage[t]
    BY DEF Join, Goto, TypeOK, counter, wiring, cc
  <1>2. PICK k \in Sinks : SinkFor(k) /\ flux' = [flux EXCEPT ![s] = k]
    BY DEF Join
  <1>3. /\ sink' = k
        /\ sink # None => sink' = sink
        /\ \A t \in Sessions : flux[t] \in ended => flux[t] \in ended'
    BY <1>2, SinkForEffect
  <1>4. flux'[s] = k /\ k # None /\ \A t \in Sessions : t # s => flux'[t] = flux[t]
    BY <1>2 DEF TypeOK
  <1>5. NobodyReleasing /\ NobodyReleasing'
    <2>1. NobodyReleasing
      BY <1>1, NoRelease
    <2>2. QED BY <1>1, <2>1 DEF NobodyReleasing
  <1>6. HasSubscribers /\ HasSubscribers'
    BY <1>1 DEF Calm, InSubscribe, HasSubscribers
  <1>7. Serving => Serving'
    BY <1>1, <1>3 DEF Serving, OnlyHeld
  <1>8. \A g \in Connectors \cup {None} : OnlyHeld(g)' <=> OnlyHeld(g)
    BY <1>1 DEF OnlyHeld
  <1>9. Released' <=> Released
    BY <1>1 DEF Released
  <1>10. \A t \in Sessions : Listens(t)'
    BY <1>1, <1>3, <1>4 DEF Calm, Listens
  <1>11. ASSUME NEW t \in Sessions, t # s PROVE InSubscribe(t)' /\ InUnsubscribe(t)'
    <2>1. InSubscribe(t) /\ InUnsubscribe(t) /\ stage[t] \notin Releasing
      BY <1>5 DEF Calm, NobodyReleasing
    <2>2. InSubscribe(t)'
      BY <1>1, <1>3, <1>4, <1>6, <1>7, <1>8, <1>9, <1>11, <2>1 DEF InSubscribe, Serving, TypeOK
    <2>3. InUnsubscribe(t)'
      BY <1>1, <1>11, <2>1 DEF InUnsubscribe
    <2>4. QED BY <2>2, <2>3
  <1>12. InSubscribe(s)' /\ InUnsubscribe(s)'
    BY <1>1, <1>6 DEF InSubscribe, InUnsubscribe
  <1>13. ReleaseAlone' /\ OneOpener'
    BY <1>1, <1>5 DEF Calm, ReleaseAlone, OneOpener, NobodyReleasing
  <1>14. NonNegative' /\ CcQuiet' /\ OnlineIsKnown'
    BY <1>1, <1>5, <1>6 DEF Calm, NonNegative, CcQuiet, OnlineIsKnown
  <1>15. Quiet'
    BY <1>1, <1>5, <1>6, <1>7 DEF Calm, Quiet
  <1>16. QED BY <1>10, <1>11, <1>12, <1>13, <1>14, <1>15 DEF Calm

\* The steps of the release: every other session is idle.
LEMMA ReleaseStep ==
    ASSUME TypeOK, TypeOK', Calm, NEW s \in Sessions,
           \/ RemoveCounter(s) \/ RemoveConnector(s) \/ CloseUpstream(s)
           \/ DropSink(s) \/ Forget(s) \/ DropCc(s)
    PROVE  Calm'
  <1> USE RoomAssumption DEF Opening, Releasing, Idle, Resting, Joining, Listening
  <1>1. /\ stage[s] \in Releasing /\ stage'[s] \in Releasing \cup {"away"}
        /\ UNCHANGED flux
        /\ \A t \in Sessions : t # s => stage'[t] = stage[t]
    BY DEF RemoveCounter, RemoveConnector, CloseUpstream, DropSink, Forget, DropCc, Goto, TypeOK
  <1>2. \A t \in Sessions : t # s => stage'[t] \in Idle
    BY <1>1 DEF Calm, ReleaseAlone
  <1>3. ReleaseAlone' /\ OneOpener'
    BY <1>1, <1>2 DEF ReleaseAlone, OneOpener
  <1>4. \A t \in Sessions : t # s => InSubscribe(t)' /\ InUnsubscribe(t)'
    BY <1>2 DEF InSubscribe, InUnsubscribe
  <1>5. InSubscribe(s)' /\ (stage'[s] \in Releasing => NonNegative' /\ CcQuiet' /\ Quiet')
    BY <1>1 DEF InSubscribe, NonNegative, CcQuiet, Quiet, NobodyReleasing
  <1>6. InUnsubscribe(s) /\ \A t \in Sessions : Listens(t)
    BY DEF Calm
  <1>7. ASSUME InUnsubscribe(s)', NonNegative', CcQuiet', Quiet', OnlineIsKnown', \A t \in Sessions : Listens(t)'
        PROVE  Calm'
    BY <1>3, <1>4, <1>5, <1>7 DEF Calm
  <1>8. CASE RemoveCounter(s)
    <2>1. /\ stage[s] = "remove" /\ stage'[s] = "drop"
          /\ counts' = IF counts = ref[s] THEN None ELSE counts
          /\ UNCHANGED <<connector, upstream, feeds, sink, ended, lastConnectionState>>
      BY <1>8 DEF RemoveCounter, Goto, TypeOK, wiring
    <2>2. counts' = None /\ Settled'
      BY <1>6, <2>1 DEF InUnsubscribe, Settled, Serving, Released, OnlyHeld
    <2>3. QED BY <1>1, <1>5, <1>6, <1>7, <2>1, <2>2 DEF Calm, InUnsubscribe, Listens, OnlineIsKnown
  <1>9. CASE RemoveConnector(s)
    <2>1. /\ stage[s] = "drop" /\ stage'[s] = "close" /\ mine'[s] = connector /\ connector' = None
          /\ UNCHANGED <<counts, upstream, sink, ended>>
      BY <1>9 DEF RemoveConnector, Goto, TypeOK, counter
    <2>2. OnlyHeld(connector) /\ counts = None
      BY <1>6, <2>1 DEF InUnsubscribe, Settled, Serving, Released, OnlyHeld
    <2>3. OnlyHeld(mine[s])'
      BY <2>1, <2>2 DEF OnlyHeld
    <2>4. QED BY <1>1, <1>5, <1>6, <1>7, <2>1, <2>2, <2>3 DEF InUnsubscribe, Listens, OnlineIsKnown
  <1>10. CASE CloseUpstream(s)
    <2>1. /\ stage[s] = "close" /\ stage'[s] = "sink" /\ UNCHANGED <<counts, connector, sink, ended>>
      BY <1>10 DEF CloseUpstream, Goto, TypeOK, counter
    <2>2. counts = None /\ connector = None /\ OnlyHeld(mine[s])
      BY <1>6, <2>1 DEF InUnsubscribe
    <2>3. \A h \in Connectors : /\ h # mine[s] => upstream'[h] = upstream[h]
                                /\ h = mine[s] => upstream'[h] \in {"closing", "none"}
      BY <1>10 DEF CloseUpstream, TypeOK
    <2>4. Released'
      BY <2>1, <2>2, <2>3 DEF Released, OnlyHeld, Held
    <2>5. QED BY <1>1, <1>5, <1>6, <1>7, <2>1, <2>2, <2>4 DEF InUnsubscribe, Listens, OnlineIsKnown
  <1>11. CASE DropSink(s)
    <2>1. /\ stage[s] = "sink" /\ stage'[s] = "forget" /\ sink' = None /\ ended' = ended \cup ({sink} \ {None})
          /\ UNCHANGED <<counts, connector, upstream, lastConnectionState>>
      BY <1>11 DEF DropSink, Complete, Goto, TypeOK, counter, wiring
    <2>2. counts' = None /\ Released'
      BY <1>6, <2>1 DEF InUnsubscribe, Released
    <2>3. Deaf' /\ \A t \in Sessions : Listens(t)'
      BY <1>1, <1>6, <2>1 DEF Deaf, Listens
    <2>4. QED BY <1>5, <1>7, <2>1, <2>2, <2>3 DEF InUnsubscribe, OnlineIsKnown, Released
  <1>12. CASE Forget(s)
    <2>1. /\ stage[s] = "forget" /\ stage'[s] = "cc"
          /\ UNCHANGED <<counts, connector, upstream, sink, ended>>
      BY <1>12 DEF Forget, Goto, TypeOK, counter, wiring
    <2>2. counts' = None /\ Released'
      BY <1>6, <2>1 DEF InUnsubscribe, Released
    <2>3. Deaf' /\ \A t \in Sessions : Listens(t)'
      BY <1>1, <1>6, <2>1 DEF Deaf, Listens, InUnsubscribe
    <2>4. QED BY <1>5, <1>7, <2>1, <2>2, <2>3 DEF InUnsubscribe, OnlineIsKnown, Released
  <1>13. CASE DropCc(s)
    <2>1. /\ stage[s] = "cc" /\ stage'[s] = "away" /\ NoCc' /\ ended \subseteq ended'
          /\ UNCHANGED <<counts, connector, upstream, sink>>
      BY <1>13 DEF DropCc, Goto, TypeOK, Complete, NoCc, counter, wiring
    <2>2. counts' = None /\ Released' /\ ~HasSubscribers'
      BY <1>6, <2>1 DEF InUnsubscribe, Released, HasSubscribers
    <2>3. Deaf' /\ \A t \in Sessions : Listens(t)'
      BY <1>1, <1>6, <2>1 DEF Deaf, Listens, InUnsubscribe
    <2>4. NonNegative' /\ CcQuiet' /\ Quiet' /\ OnlineIsKnown'
      BY <2>1, <2>2, <2>3 DEF NonNegative, CcQuiet, Quiet, OnlineIsKnown, Released
    <2>5. InUnsubscribe(s)'
      BY <2>1 DEF InUnsubscribe
    <2>6. QED BY <1>7, <2>3, <2>4, <2>5
  <1>14. QED BY <1>8, <1>9, <1>10, <1>11, <1>12, <1>13

\* Connectors and requests.
LEMMA EventStep ==
    ASSUME TypeOK, TypeOK', Calm,
           \/ \E g \in Connectors : Connected(g) \/ Deliver(g) \/ ConnectFails(g) \/ Disconnected(g)
           \/ \E r \in Requests : TestSubscribers(r) \/ SyntheticThrows(r) \/ EmitSynthetic(r)
           \/ UNCHANGED vars
    PROVE  Calm'
  <1> USE RoomAssumption
  <1>1. UNCHANGED <<counts, value, ref, mine, stage, flux, connector>>
    BY CallbackStep
  <1>2. ASSUME NEW g \in Connectors, Connected(g) PROVE Calm'
    <2>1. PICK k \in Sinks : SinkFor(k)
      BY <1>2 DEF Connected
    <2>2. /\ sink # None => sink' = sink
          /\ \A t \in Sessions : flux[t] \in ended => flux[t] \in ended'
      BY <2>1, SinkForEffect
    <2>3. UNCHANGED <<ccSink, ccCounts, feeds>> /\ lastConnectionState' = "connected"
      BY <1>2 DEF Connected, cc
    <2>4. \A h \in Connectors : /\ upstream'[h] \in Held <=> upstream[h] \in Held
                                /\ upstream[h] = "new" => upstream'[h] = "new"
      BY <1>2 DEF Connected, Held, TypeOK
    <2>5. QED BY <1>1, <2>2, <2>3, <2>4, OutsideStep DEF OnlineIsKnown
  <1>3. ASSUME NEW g \in Connectors, Deliver(g) PROVE Calm'
    <2>1. PICK k \in Sinks : SinkFor(k)
      BY <1>3 DEF Deliver
    <2>2. /\ sink # None => sink' = sink
          /\ \A t \in Sessions : flux[t] \in ended => flux[t] \in ended'
      BY <2>1, SinkForEffect
    <2>3. UNCHANGED <<ccSink, ccCounts, upstream, feeds, lastConnectionState>>
      BY <1>3 DEF Deliver, cc, wiring
    <2>4. QED BY <1>1, <2>2, <2>3, OutsideStep DEF Calm, OnlineIsKnown
  <1>4. ASSUME NEW g \in Connectors, ConnectFails(g) \/ Disconnected(g) PROVE Calm'
    <2>1. ended \subseteq ended' /\ UNCHANGED <<sink, ccCounts, lastConnectionState>> /\ ccSink' \in {ccSink, None}
      BY <1>4 DEF ConnectFails, Disconnected, Complete, cc
    <2>2. \A h \in Connectors : /\ upstream'[h] \in Held <=> upstream[h] \in Held
                                /\ upstream[h] = "new" => upstream'[h] = "new"
                                /\ upstream[h] \in Held => feeds'[h] = feeds[h]
                                /\ upstream'[h] = "online" => upstream[h] = "online"
      BY <1>4 DEF ConnectFails, Disconnected, Held, TypeOK
    <2>3. OnlineIsKnown'
      BY <1>1, <2>1, <2>2 DEF Calm, OnlineIsKnown, TypeOK
    <2>4. QED BY <1>1, <2>1, <2>2, <2>3, OutsideStep
  <1>5. ASSUME NEW r \in Requests, TestSubscribers(r) \/ SyntheticThrows(r) \/ EmitSynthetic(r) PROVE Calm'
    <2>1. UNCHANGED <<ccSink, ccCounts, upstream, feeds, lastConnectionState>>
      BY <1>5 DEF TestSubscribers, SyntheticThrows, EmitSynthetic, cc, wiring
    <2>2. UNCHANGED <<sink, ended>> \/ \E k \in Sinks : SinkFor(k)
      BY <1>5 DEF TestSubscribers, SyntheticThrows, EmitSynthetic
    <2>3. /\ sink # None => sink' = sink
          /\ \A t \in Sessions : flux[t] \in ended => flux[t] \in ended'
      BY <2>2, SinkForEffect
    <2>4. QED BY <1>1, <2>1, <2>3, OutsideStep DEF Calm, OnlineIsKnown
  <1>6. CASE UNCHANGED vars
    <2>1. UNCHANGED <<ccSink, ccCounts, upstream, feeds, lastConnectionState, sink, ended>>
      BY <1>6 DEF vars, wiring, cc
    <2>2. QED BY <1>1, <2>1, OutsideStep DEF Calm, OnlineIsKnown
  <1>7. QED BY <1>2, <1>3, <1>4, <1>5, <1>6

\* A collision is never forgotten.
LEMMA StillNotCollided ==
    ASSUME [Next]_vars, ~collided'
    PROVE  ~collided
  <1>1. ASSUME NEW s \in Sessions, Refuse(s) \/ ListGhosts(s) \/ UnsubscribeCc(s) PROVE ~collided
    BY <1>1, Zenon DEF Refuse, ListGhosts, UnsubscribeCc
  <1>2. ASSUME NEW s \in Sessions, Subscribe(s) PROVE ~collided
    BY <1>2, Zenon DEF Subscribe, FindCounter, Count, PutConnector, AttachListeners, Announce, ConnectUpstream,
                       Join, Attach, SubscribeCc
  <1>3. ASSUME NEW s \in Sessions, Uncount(s) PROVE ~collided
    BY <1>3, Zenon DEF Uncount
  <1>4. ASSUME NEW s \in Sessions, Unsubscribe(s), ~Uncount(s) PROVE ~collided
    BY <1>4, Zenon DEF Unsubscribe, TestCounter, TestCount, DropCcSink, ReadCounter, RemoveCounter, RemoveConnector,
                       CloseUpstream, DropSink, Forget, DropCc
  <1>5. ASSUME NEW g \in Connectors, Connected(g) \/ Deliver(g) \/ ConnectFails(g) \/ Disconnected(g)
        PROVE  ~collided
    BY <1>5, Zenon DEF Connected, Deliver, ConnectFails, Disconnected
  <1>6. ASSUME NEW r \in Requests, TestSubscribers(r) \/ SyntheticThrows(r) \/ EmitSynthetic(r) PROVE ~collided
    BY <1>6, Zenon DEF TestSubscribers, SyntheticThrows, EmitSynthetic
  <1>7. CASE UNCHANGED vars
    BY <1>7, Zenon DEF vars
  <1>8. QED BY <1>1, <1>2, <1>3, <1>4, <1>5, <1>6, <1>7 DEF Next

LEMMA CalmStep ==
    ASSUME TypeOK, TypeOK', Calm, [Next]_vars, ~collided'
    PROVE  Calm'
  <1>1. ASSUME NEW s \in Sessions, Refuse(s) \/ ListGhosts(s) \/ UnsubscribeCc(s) PROVE Calm'
    BY <1>1, OpenStep, LeaveStep
  <1>2. ASSUME NEW s \in Sessions, Subscribe(s) PROVE Calm'
    BY <1>2, FindCounterStep, CountStep, OpeningStep, JoinStep, OpenStep, SubscribeCcStep DEF Subscribe
  <1>3. ASSUME NEW s \in Sessions, Unsubscribe(s) PROVE Calm'
    BY <1>3, LeaveStep, UncountStep, ReleaseStep DEF Unsubscribe
  <1>4. QED BY <1>1, <1>2, <1>3, EventStep DEF Next

LEMMA IInvStep == IInv /\ [Next]_vars => IInv'
  <1> SUFFICES ASSUME IInv, [Next]_vars PROVE IInv'
    OBVIOUS
  <1>1. AnyInterleaving' /\ TypeOK /\ TypeOK'
    BY AnyStep DEF IInv, AnyInterleaving
  <1>2. ASSUME ~collided' PROVE Calm'
    <2>1. ~collided
      BY <1>2, StillNotCollided
    <2>2. Calm
      BY <2>1 DEF IInv
    <2>3. QED BY <1>1, <1>2, <2>2, CalmStep
  <1>3. QED BY <1>1, <1>2 DEF IInv

LEMMA InitIInv == Init => IInv
  <1> SUFFICES ASSUME Init PROVE IInv
    OBVIOUS
  <1>1. ReleaseAlone /\ OneOpener
    BY DEF Init, ReleaseAlone, OneOpener, Opening, Releasing
  <1>2. NonNegative /\ CcQuiet /\ Quiet /\ OnlineIsKnown
    BY DEF Init, NonNegative, CcQuiet, NoCc, Quiet, Released, Deaf, Listening, Held, HasSubscribers, OnlineIsKnown
  <1>3. \A s \in Sessions : InSubscribe(s) /\ InUnsubscribe(s) /\ Listens(s)
    BY DEF Init, InSubscribe, InUnsubscribe, Listens, Opening, Joining, Listening
  <1>4. QED BY <1>1, <1>2, <1>3, InitAny DEF Calm, IInv

\* "last leaves closes it", and nothing of the room is left in the maps: holds,
\* however many sessions subscribe and leave concurrently, until the release of
\* the last unsubscribe() has run beside another session's callback.
THEOREM RoomReleasedHolds == Spec => []ReleasedUnlessCollided
  <1>1. IInv => ReleasedUnlessCollided
    <2> SUFFICES ASSUME AnyInterleaving, Calm, AllAway
                 PROVE  /\ connector = None /\ ccSink = None /\ ccCounts = None
                        /\ \A g \in Connectors : upstream[g] \notin Held
      BY DEF ReleasedUnlessCollided, RoomReleased, IInv
    <2>1. counts = None
      BY DEF AnyInterleaving, Attended, AllAway, Counted, LeavingCc
    <2>2. NobodyReleasing /\ ~HasSubscribers /\ \A s \in Sessions : stage[s] \notin Opening
      BY <2>1 DEF NobodyReleasing, HasSubscribers, AllAway, Opening, Releasing
    <2>3. QED BY <2>2 DEF Calm, CcQuiet, NoCc, Quiet, Released
  <1>2. QED BY <1>1, IInvStep, InitIInv, PTL DEF Spec

\* "a subscriber joining after the upstream is already connected gets the current
\* state immediately": until such a collision the state kept for it is current.
THEOREM OnlineIsKnownHolds == Spec => []KnownUnlessCollided
  <1>1. IInv => KnownUnlessCollided
    BY DEF IInv, Calm, KnownUnlessCollided
  <1>2. QED BY <1>1, IInvStep, InitIInv, PTL DEF Spec

\* Until such a collision a subscriber between callbacks listens to the sink that
\* the room's only connector feeds, or to a completed one, also when a refused
\* session has released the room under it or an earlier connector emits late.
THEOREM RoomServedHolds == Spec => []ServedUnlessCollided
  <1>1. IInv => ServedUnlessCollided
    <2> SUFFICES ASSUME TypeOK, Calm, AtRest, NEW s \in Sessions, stage[s] = "attached", flux[s] \notin ended
                 PROVE  /\ flux[s] = sink
                        /\ connector # None
                        /\ feeds[connector] = sink
                        /\ \A g \in Connectors : upstream[g] \in Held <=> g = connector
      BY DEF ServedUnlessCollided, RoomServed, IInv, AnyInterleaving
    <2>1. flux[s] = sink /\ ~Deaf
      BY DEF Calm, Listens, Deaf, Listening
    <2>2. NobodyReleasing /\ \A t \in Sessions : stage[t] \notin Opening
      BY DEF NobodyReleasing, AtRest, Resting, Opening, Releasing
    <2>3. Serving
      BY <2>1, <2>2 DEF Calm, Quiet
    <2>4. QED BY <2>1, <2>3 DEF Serving, OnlyHeld
  <1>2. QED BY <1>1, IInvStep, InitIInv, PTL DEF Spec

----------------------------------------------------------------------------
(* Ghost publishers (module RoomGhosts).                                   *)

\* The Watcher's session has listed the publishers and not yet replayed them.
Listed == {"listed", "counting", "first", "put", "sunk", "announced", "joining", "wired"}
Replayed == {"captions", "attached"}

\* A ghost that the client is entitled to see is in the list, then on stage, and
\* has no stop request that could still take it off.
GhostInv ==
    /\ GhostTypeOK
    /\ stage[Watcher] \in Listed => entitled \subseteq replay
    /\ stage[Watcher] \in Replayed => entitled \subseteq seen
    /\ \A r \in Requests : call[r].kind = "stop" => call[r].user \notin entitled
    /\ \A r \in tested : call[r] # NoCall

\* Every step of RoomGhosts is a step of RoomHub, or leaves the hub alone.
LEMMA GhostsRefineHub == GhostNext => [Next]_vars
  <1> USE GhostAssumption
  <1>1. ASSUME HubStep PROVE Next
    BY <1>1 DEF HubStep, Next, Subscribe
  <1>2. ASSUME ListPublishers \/ Replay \/ Leave PROVE Next
    BY <1>2 DEF ListPublishers, Replay, Leave, Next, Subscribe
  <1>3. ASSUME NEW r \in Requests, NEW u \in Ghosts, StartGhost(r, u) \/ StopGhost(r, u) PROVE UNCHANGED vars
    BY <1>3 DEF StartGhost, StopGhost, Begin
  <1>4. ASSUME NEW r \in Requests, Test(r) \/ Drop(r) \/ Emit(r) PROVE Next \/ UNCHANGED vars
    BY <1>4 DEF Test, Drop, Emit, Next
  <1>5. QED BY <1>1, <1>2, <1>3, <1>4 DEF GhostNext

\* The hub's own steps do not replay anything to the Watcher.
LEMMA HubStepStages ==
    ASSUME TypeOK, HubStep
    PROVE  /\ stage'[Watcher] \in Listed => stage[Watcher] \in Listed
           /\ stage'[Watcher] \in Replayed => stage[Watcher] \in Replayed
           /\ tested' = tested
  <1> USE GhostAssumption DEF Listed, Replayed
  <1>1. ASSUME NEW s \in Sessions,
               \/ Refuse(s) \/ FindCounter(s) \/ Count(s) \/ PutConnector(s) \/ AttachListeners(s) \/ Announce(s)
               \/ ConnectUpstream(s) \/ Join(s) \/ SubscribeCc(s)
        PROVE  /\ stage'[Watcher] \in Listed => stage[Watcher] \in Listed
               /\ stage'[Watcher] \in Replayed => stage[Watcher] \in Replayed
               /\ tested' = tested
    BY <1>1 DEF Refuse, FindCounter, Count, PutConnector, AttachListeners, Announce, ConnectUpstream, Join,
                SubscribeCc, Goto, TypeOK
  <1>2. ASSUME NEW s \in Sessions, Unsubscribe(s)
        PROVE  /\ stage'[Watcher] \in Listed => stage[Watcher] \in Listed
               /\ stage'[Watcher] \in Replayed => stage[Watcher] \in Replayed
               /\ tested' = tested
    BY <1>2 DEF Unsubscribe, TestCounter, TestCount, DropCcSink, ReadCounter, Uncount, RemoveCounter, RemoveConnector,
                CloseUpstream, DropSink, Forget, DropCc, Goto, TypeOK
  <1>3. ASSUME NEW s \in Sessions \ {Watcher}, ListGhosts(s) \/ Attach(s) \/ UnsubscribeCc(s)
        PROVE  stage'[Watcher] = stage[Watcher] /\ tested' = tested
    BY <1>3 DEF ListGhosts, Attach, UnsubscribeCc, Goto, TypeOK
  <1>4. ASSUME NEW g \in Connectors, Connected(g) \/ Deliver(g) \/ ConnectFails(g) \/ Disconnected(g)
        PROVE  UNCHANGED <<stage, tested>>
    BY <1>4 DEF Connected, Deliver, ConnectFails, Disconnected
  <1>5. QED BY <1>1, <1>2, <1>3, <1>4 DEF HubStep

LEMMA GhostStep == GhostInv /\ [GhostNext]_ghostVars => GhostInv'
  <1> SUFFICES ASSUME GhostInv, [GhostNext]_ghostVars PROVE GhostInv'
    OBVIOUS
  <1> USE GhostAssumption DEF GhostInv, GhostTypeOK, Listed, Replayed
  <1>0. TypeOK'
    BY GhostsRefineHub, TypeStep DEF ghostVars
  <1>c. \A r \in Requests : \/ call[r] = NoCall /\ call[r].kind = "none"
                            \/ call[r] # NoCall /\ call[r].kind \in {"start", "stop"} /\ call[r].user \in Ghosts
    BY DEF Calls, NoCall
  <1>1. ASSUME HubStep, UNCHANGED ghosts PROVE GhostInv'
    BY <1>0, <1>1, HubStepStages DEF ghosts, client
  <1>2. ASSUME ListPublishers PROVE GhostInv'
    <2>1. /\ stage'[Watcher] \in {"listed", "broken"} /\ tested' = tested /\ call' = call
          /\ replay' = publishing /\ seen' = seen /\ publishing' = publishing
          /\ entitled' = {u \in publishing : ~ Stopping(u)}
      BY <1>2 DEF ListPublishers, ListGhosts, Goto, TypeOK
    <2>2. ASSUME NEW r \in Requests, call[r].kind = "stop" PROVE call[r].user \notin entitled'
      <3>1. call[r] = [kind |-> "stop", user |-> call[r].user]
        BY <2>2 DEF Calls, NoCall
      <3>2. QED BY <2>1, <3>1 DEF Stopping
    <2>3. QED BY <1>0, <2>1, <2>2
  <1>3. ASSUME Replay PROVE GhostInv'
    <2>1. /\ stage[Watcher] = "wired" /\ stage'[Watcher] \in {"captions", "attached"} /\ tested' = tested
          /\ UNCHANGED <<publishing, call, replay, entitled>> /\ seen' = replay
      BY <1>3 DEF Replay, Attach, Goto, TypeOK
    <2>2. QED BY <1>0, <2>1
  <1>4. ASSUME Leave PROVE GhostInv'
    BY <1>0, <1>4 DEF Leave, UnsubscribeCc
  <1>5. ASSUME NEW r \in Requests, NEW u \in Ghosts, StartGhost(r, u) \/ StopGhost(r, u) PROVE GhostInv'
    <2>1. UNCHANGED <<stage, tested, replay, seen>> /\ call[r] = NoCall
      BY <1>5 DEF StartGhost, StopGhost, Begin, vars, client
    <2>2. /\ publishing' \in SUBSET Ghosts
          /\ entitled' \subseteq entitled
      BY <1>5 DEF StartGhost, StopGhost, client
    <2>3. \E kind \in {"start", "stop"} :
             /\ call' = [call EXCEPT ![r] = [kind |-> kind, user |-> u]]
             /\ kind = "stop" => u \notin entitled'
      BY <1>5 DEF StartGhost, StopGhost, Begin
    <2>4. PICK kind \in {"start", "stop"} :
             /\ call' = [call EXCEPT ![r] = [kind |-> kind, user |-> u]]
             /\ kind = "stop" => u \notin entitled'
      BY <2>3
    <2>5. call' \in [Requests -> Calls]
      BY <2>4 DEF Calls
    <2>6. call'[r] = [kind |-> kind, user |-> u] /\ \A q \in Requests : q # r => call'[q] = call[q]
      BY <2>4
    <2>7. call'[r].kind = kind /\ call'[r].user = u /\ call'[r] # NoCall
      BY <2>6 DEF NoCall
    <2>8. \A q \in Requests : call'[q].kind = "stop" => call'[q].user \notin entitled'
      BY <2>2, <2>4, <2>6, <2>7
    <2>9. \A q \in tested' : call'[q] # NoCall
      BY <2>1, <2>6, <2>7 DEF TypeOK
    <2>10. QED BY <1>0, <2>1, <2>2, <2>5, <2>8, <2>9
  <1>6. ASSUME NEW r \in Requests, Test(r) PROVE GhostInv'
    <2>1. UNCHANGED <<stage, publishing, call, replay, seen, entitled>> /\ tested' = tested \cup {r} /\ call[r] # NoCall
      BY <1>6 DEF Test, TestSubscribers, ghosts, client
    <2>2. QED BY <1>0, <2>1
  <1>7. ASSUME NEW r \in Requests, Drop(r) \/ Emit(r) PROVE GhostInv'
    <2>1. /\ UNCHANGED <<stage, publishing, replay, entitled>> /\ tested' = tested \ {r}
          /\ call' = [call EXCEPT ![r] = NoCall]
      BY <1>7 DEF Drop, Emit, SyntheticThrows, EmitSynthetic, client, vars
    <2>2. call'[r] = NoCall /\ call'[r].kind = "none" /\ \A q \in Requests : q # r => call'[q] = call[q]
      BY <2>1 DEF NoCall
    <2>3. call' \in [Requests -> Calls]
      BY <2>1 DEF Calls
    <2>4. \/ seen' = seen
          \/ call[r].kind = "start" /\ seen' = seen \cup {call[r].user}
          \/ r \in tested /\ call[r].kind # "start" /\ seen' = seen \ {call[r].user}
      BY <1>7 DEF Drop, Emit, EmitSynthetic, client
    <2>5. seen' \in SUBSET Ghosts
      BY <1>c, <2>4
    <2>6. r \in tested /\ call[r].kind # "start" => call[r].user \notin entitled
      BY <1>c
    <2>7. entitled \subseteq seen => entitled \subseteq seen'
      BY <2>4, <2>6
    <2>8. \A q \in Requests : call'[q].kind = "stop" => call'[q].user \notin entitled'
      BY <2>1, <2>2
    <2>9. \A q \in tested' : call'[q] # NoCall
      BY <2>1, <2>2 DEF TypeOK
    <2>10. QED BY <1>0, <2>1, <2>3, <2>5, <2>7, <2>8, <2>9
  <1>8. CASE UNCHANGED ghostVars
    BY <1>0, <1>8 DEF ghostVars, vars, ghosts, client
  <1>9. QED BY <1>1, <1>2, <1>3, <1>4, <1>5, <1>6, <1>7, <1>8 DEF GhostNext

LEMMA GhostInitInv == GhostInit => GhostInv
  <1> SUFFICES ASSUME GhostInit PROVE GhostInv
    OBVIOUS
  <1>1. TypeOK
    BY InitAny DEF GhostInit, AnyInterleaving
  <1>2. QED BY <1>1, GhostAssumption DEF GhostInit, Init, GhostInv, GhostTypeOK, Calls, NoCall, Listed, Replayed

\* The table of ghost publishers, the requests and the client keep their types.
THEOREM GhostTypeCorrect == GhostSpec => []GhostTypeOK
  <1>1. GhostInv => GhostTypeOK
    BY DEF GhostInv
  <1>2. QED BY <1>1, GhostInitInv, GhostStep, PTL DEF GhostSpec

\* A client shows every ghost that was publishing when its subscribe() listed
\* them and that had no stop request under way then, until that ghost stops: for
\* any number of overlapping requests, also of one user, although synthetic
\* events may be dropped, fail to be emitted, or throw.
THEOREM GhostsReplayedHolds == GhostSpec => []GhostsReplayed
  <1>1. GhostInv => GhostsReplayed
    BY DEF GhostInv, GhostsReplayed, Watching, Replayed
  <1>2. QED BY <1>1, GhostInitInv, GhostStep, PTL DEF GhostSpec

=============================================================================
