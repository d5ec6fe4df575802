---------------------------- MODULE ImHubProofs ----------------------------
(***************************************************************************)
(* Proofs about ImHub, for any number of sessions and generations and with *)
(* no assumption on the event loops: what the counter and the fields keep  *)
(* whatever interleaves, and what the hub promises until a release has     *)
(* run beside another session's callback (afterwards it breaks both of its *)
(* documented promises, README section 6).                                 *)
(***************************************************************************)
EXTENDS ImHub, FiniteSetTheorems, TLAPS

\* Sessions that were counted and not yet uncounted.  Refused sessions make the
\* counter too small, never too large.
Counted == {s \in Sessions : stage[s] \in Subscribing \cup {"attached", "broken"}}
Undercount == IsFiniteSet(Counted) /\ subscriberCount <= Cardinality(Counted)

\* Below zero, someone is about to set the counter to zero.
NotNegative == subscriberCount < 0 => \E s \in Sessions : stage[s] = "zero"

\* A field that is not null has someone who will null it.
WillDrop(s) == stage[s] \in {"zero", "drop"} \/ (stage[s] = "dropping" /\ flux[s] # None)
WillComplete(s) ==
    \/ stage[s] \in {"zero", "drop", "dropping", "complete"}
    \/ stage[s] = "completing" /\ flux[s] # None
FieldsOwned ==
    /\ connector # None => Counted # {} \/ \E s \in Sessions : WillDrop(s)
    /\ sink # None => Counted # {} \/ \E s \in Sessions : WillComplete(s)

AnyInterleaving == TypeOK /\ Undercount /\ NotNegative /\ FieldsOwned

\* Until a collision a release runs alone, and one subscriber at a time opens.
Opening == {"first", "sunk", "wired"}
ReleaseAlone ==
    \A s, t \in Sessions : stage[s] \in Unsubscribing /\ stage[t] \notin Resting => s = t
OneOpener == \A s, t \in Sessions : stage[s] \in Opening /\ stage[t] \in Opening => s = t

\* The two states of the fields when nobody opens or releases, ...
Released == connector = None /\ \A g \in Generations : upstream[g] \notin Held
Only(k) ==
    /\ k # None
    /\ \A g \in Generations : upstream[g] \in Held => g = k
    /\ upstream[k] \in Held \cup {"ending"} \/ k \in completed
Serving == connector = sink /\ Only(sink)
Settled == Serving \/ (sink = None /\ Released)
Quiet ==
    (\A s \in Sessions : stage[s] \notin Opening \cup Unsubscribing) =>
        \/ subscriberCount > 0 /\ Serving
        \/ subscriberCount = 0 /\ sink = None /\ Released

\* ... and how the callbacks lead from one to the other.
InSubscribe(s) ==
    /\ stage[s] = "first"   => subscriberCount > 0 /\ sink = None /\ Released
    /\ stage[s] = "sunk"    => subscriberCount > 0 /\ connector = None /\ sink = flux[s] /\ Only(sink)
    /\ stage[s] = "wired"   => subscriberCount > 0 /\ sink = flux[s] /\ Serving
    /\ stage[s] = "joining" => subscriberCount > 0

InUnsubscribe(s) ==
    /\ stage[s] = "zero"       => subscriberCount <= 0 /\ Settled
    /\ stage[s] = "drop"       => subscriberCount = 0 /\ Settled
    /\ stage[s] = "dropping"   => subscriberCount = 0 /\ Settled /\ flux[s] = connector
    /\ stage[s] = "complete"   => subscriberCount = 0 /\ Released
    /\ stage[s] = "completing" => subscriberCount = 0 /\ Released /\ flux[s] = sink
    /\ stage[s] = "forget"     => subscriberCount = 0 /\ Released /\ sink = None

\* A session listens to the current sink or to one that has completed.
Listens(s) == stage[s] = "attached" => flux[s] \in completed \/ (flux[s] = sink /\ sink # None)

Calm ==
    /\ ReleaseAlone
    /\ OneOpener
    /\ Quiet
    /\ \A s \in Sessions : InSubscribe(s) /\ InUnsubscribe(s) /\ Listens(s)

IInv == AnyInterleaving /\ (~collided => Calm)

----------------------------------------------------------------------------
(* Whatever the interleaving.                                              *)

LEMMA TypeStep == TypeOK /\ [Next]_vars => TypeOK'
  <1> SUFFICES ASSUME TypeOK, [Next]_vars PROVE TypeOK'
    OBVIOUS
  <1> USE HubAssumption DEF TypeOK
  <1>1. ASSUME NEW s \in Sessions, Refuse(s) \/ Count(s) \/ Uncount(s) PROVE TypeOK'
    <2>1. collided' \in BOOLEAN
      BY <1>1, Zenon DEF Refuse, Count, Uncount
    <2>2. QED
      BY <1>1, <2>1 DEF Refuse, Count, Uncount, Goto, fields, Resting, Subscribing, Unsubscribing
  <1>2. ASSUME NEW s \in Sessions, NewSink(s) PROVE TypeOK'
    BY <1>2 DEF NewSink, Goto, Subscribing, Upstreams, Held
  <1>3. ASSUME NEW s \in Sessions, NewConnector(s) \/ ConnectUpstream(s) \/ Join(s) PROVE TypeOK'
    BY <1>3 DEF NewConnector, ConnectUpstream, Join, Goto, fields, Resting, Subscribing, Upstreams, Held
  <1>4. ASSUME NEW s \in Sessions,
               Zero(s) \/ ReadConnector(s) \/ ReadSink(s) \/ CompleteSink(s) \/ Forget(s)
        PROVE  TypeOK'
    BY <1>4 DEF Zero, ReadConnector, ReadSink, CompleteSink, Forget, Goto, fields, Resting, Unsubscribing
  <1>5. ASSUME NEW s \in Sessions, DropConnector(s) PROVE TypeOK'
    BY <1>5 DEF DropConnector, Goto, Unsubscribing, Upstreams
  <1>6. ASSUME NEW g \in Generations, Connected(g) \/ ConnectFails(g) \/ EndsItself(g) \/ Disconnected(g)
        PROVE  TypeOK'
    BY <1>6 DEF Connected, ConnectFails, EndsItself, Disconnected, fields, Upstreams, Held
  <1>7. CASE UNCHANGED vars
    BY <1>7 DEF vars, fields
  <1>8. QED
    BY <1>1, <1>2, <1>3, <1>4, <1>5, <1>6, <1>7 DEF Next, Handler

\* The counter and the set it undercounts move together.
LEMMA UndercountStep ==
    ASSUME TypeOK, Undercount, [Next]_vars
    PROVE  Undercount'
  <1> USE DEF Undercount
  <1> Cardinality(Counted) \in Nat
    BY FS_CardinalityType
  <1>1. ASSUME Counted' = Counted, subscriberCount' <= subscriberCount, subscriberCount' \in Int
        PROVE  Undercount'
    BY <1>1 DEF TypeOK
  <1>2. ASSUME NEW s \in Sessions, Count(s) PROVE Undercount'
    <2>1. Counted' = Counted \cup {s} /\ s \notin Counted
      BY <1>2 DEF Count, Goto, TypeOK, Counted, Subscribing, Resting
    <2>2. subscriberCount' = subscriberCount + 1
      BY <1>2 DEF Count
    <2>3. /\ IsFiniteSet(Counted \cup {s})
          /\ Cardinality(Counted \cup {s}) = Cardinality(Counted) + 1
      BY <2>1, FS_AddElement
    <2>4. QED BY <2>1, <2>2, <2>3 DEF TypeOK
  <1>3. ASSUME NEW s \in Sessions, Uncount(s) PROVE Undercount'
    <2>1. Counted' = Counted \ {s}
      BY <1>3 DEF Uncount, Goto, TypeOK, Counted, Subscribing, Resting
    <2>2. subscriberCount' = subscriberCount - 1
      BY <1>3 DEF Uncount
    <2>3. /\ IsFiniteSet(Counted \ {s})
          /\ Cardinality(Counted \ {s}) \in {Cardinality(Counted), Cardinality(Counted) - 1}
      BY FS_RemoveElement
    <2>4. QED BY <2>1, <2>2, <2>3 DEF TypeOK
  <1>4. ASSUME NEW s \in Sessions, Zero(s) PROVE Undercount'
    <2>1. Counted' = Counted
      BY <1>4 DEF Zero, Goto, TypeOK, Counted, Subscribing
    <2>2. QED BY <1>4, <2>1 DEF Zero
  <1>5. ASSUME NEW s \in Sessions,
               \/ Refuse(s) \/ NewSink(s) \/ NewConnector(s) \/ ConnectUpstream(s) \/ Join(s)
               \/ ReadConnector(s) \/ DropConnector(s) \/ ReadSink(s) \/ CompleteSink(s) \/ Forget(s)
        PROVE  Undercount'
    <2>1. Counted' = Counted
      BY <1>5 DEF Refuse, NewSink, NewConnector, ConnectUpstream, Join, ReadConnector, DropConnector, ReadSink,
                  CompleteSink, Forget, Goto, TypeOK, Counted, Subscribing
    <2>2. subscriberCount' = subscriberCount
      BY <1>5 DEF Refuse, NewSink, NewConnector, ConnectUpstream, Join, ReadConnector, DropConnector, ReadSink, CompleteSink,
                  Forget, fields
    <2>3. QED BY <1>1, <2>1, <2>2 DEF TypeOK
  <1>6. ASSUME NEW g \in Generations, Connected(g) \/ ConnectFails(g) \/ EndsItself(g) \/ Disconnected(g)
        PROVE  Undercount'
    BY <1>6 DEF Connected, ConnectFails, EndsItself, Disconnected, fields, Counted
  <1>7. CASE UNCHANGED vars
    BY <1>7 DEF vars, fields, Counted
  <1>8. QED BY <1>2, <1>3, <1>4, <1>5, <1>6, <1>7 DEF Next, Handler

\* A decrement below zero is followed by that session's own set(0).
LEMMA NotNegativeStep ==
    ASSUME TypeOK, NotNegative, [Next]_vars
    PROVE  NotNegative'
  <1> USE DEF NotNegative
  <1>1. ASSUME NEW s \in Sessions, Refuse(s) \/ Count(s) PROVE NotNegative'
    BY <1>1 DEF Refuse, Count, Goto, fields, TypeOK
  <1>2. ASSUME NEW s \in Sessions, Uncount(s) PROVE NotNegative'
    BY <1>2 DEF Uncount, Goto, TypeOK
  <1>3. ASSUME NEW s \in Sessions, Zero(s) PROVE NotNegative'
    BY <1>3 DEF Zero
  <1>4. ASSUME NEW s \in Sessions,
               \/ NewSink(s) \/ NewConnector(s) \/ ConnectUpstream(s) \/ Join(s)
               \/ ReadConnector(s) \/ DropConnector(s) \/ ReadSink(s) \/ CompleteSink(s) \/ Forget(s)
        PROVE  NotNegative'
    <2>1. subscriberCount' = subscriberCount /\ \A t \in Sessions : stage[t] = "zero" => stage'[t] = "zero"
      BY <1>4 DEF NewSink, NewConnector, ConnectUpstream, Join, ReadConnector, DropConnector, ReadSink,
                  CompleteSink, Forget, Goto, fields, TypeOK
    <2>2. QED BY <2>1
  <1>5. ASSUME NEW g \in Generations, Connected(g) \/ ConnectFails(g) \/ EndsItself(g) \/ Disconnected(g)
        PROVE  NotNegative'
    BY <1>5 DEF Connected, ConnectFails, EndsItself, Disconnected, fields
  <1>6. CASE UNCHANGED vars
    BY <1>6 DEF vars, fields
  <1>7. QED BY <1>1, <1>2, <1>3, <1>4, <1>5, <1>6 DEF Next, Handler

\* Whoever sets a field is counted, and whoever is uncounted last nulls it.
LEMMA FieldsOwnedStep ==
    ASSUME TypeOK, Undercount', TypeOK', FieldsOwned, [Next]_vars
    PROVE  FieldsOwned'
  <1>1. ASSUME NEW s \in Sessions, Refuse(s) PROVE FieldsOwned'
    <2>1. UNCHANGED <<sink, connector, flux>> /\ Counted' = Counted
      BY <1>1 DEF Refuse, Goto, fields, TypeOK, Counted, Subscribing
    <2>2. \A t \in Sessions : (WillDrop(t) => WillDrop(t)') /\ (WillComplete(t) => WillComplete(t)')
      BY <1>1, <2>1 DEF Refuse, Goto, TypeOK, WillDrop, WillComplete
    <2>3. QED BY <2>1, <2>2 DEF FieldsOwned
  <1>2. ASSUME NEW s \in Sessions,
               Count(s) \/ NewSink(s) \/ NewConnector(s) \/ ConnectUpstream(s) \/ Join(s)
        PROVE  FieldsOwned'
    <2>1. stage'[s] \in Subscribing \cup {"attached", "broken"}
      BY <1>2 DEF Count, NewSink, NewConnector, ConnectUpstream, Join, Goto, TypeOK, Subscribing
    <2>2. s \in Counted'
      BY <2>1 DEF Counted
    <2>3. QED BY <2>2 DEF FieldsOwned
  <1>3. ASSUME NEW s \in Sessions, Uncount(s) PROVE FieldsOwned'
    <2>1. CASE Counted' = {}
      <3>1. Cardinality(Counted)' = 0
        BY <2>1, FS_EmptySet
      <3>2. subscriberCount' <= 0
        BY <3>1 DEF Undercount
      <3>3. stage'[s] = "zero"
        BY <1>3, <3>2 DEF Uncount, Goto, TypeOK
      <3>4. QED BY <3>3 DEF FieldsOwned, WillDrop, WillComplete
    <2>2. QED BY <2>1 DEF FieldsOwned
  <1>4. ASSUME NEW s \in Sessions,
               Zero(s) \/ ReadConnector(s) \/ DropConnector(s) \/ ReadSink(s) \/ CompleteSink(s) \/ Forget(s)
        PROVE  FieldsOwned'
    <2>1. Counted' = Counted
      BY <1>4 DEF Zero, ReadConnector, DropConnector, ReadSink, CompleteSink, Forget, Goto, TypeOK,
                  Counted, Subscribing
    <2>2. \A t \in Sessions : t # s => stage'[t] = stage[t] /\ flux'[t] = flux[t]
      BY <1>4 DEF Zero, ReadConnector, DropConnector, ReadSink, CompleteSink, Forget, Goto, TypeOK
    <2>3. connector' # None => connector' = connector
      BY <1>4 DEF Zero, ReadConnector, DropConnector, ReadSink, CompleteSink, Forget, fields
    <2>4. sink' # None => sink' = sink
      BY <1>4 DEF Zero, ReadConnector, DropConnector, ReadSink, CompleteSink, Forget, fields
    <2>5. connector' # None /\ WillDrop(s) => WillDrop(s)'
      BY <1>4 DEF Zero, ReadConnector, DropConnector, ReadSink, CompleteSink, Forget, Goto, fields,
                  TypeOK, WillDrop
    <2>6. sink' # None /\ WillComplete(s) => WillComplete(s)'
      BY <1>4 DEF Zero, ReadConnector, DropConnector, ReadSink, CompleteSink, Forget, Goto, fields,
                  TypeOK, WillComplete
    <2>7. \A t \in Sessions : t # s => (WillDrop(t) => WillDrop(t)') /\ (WillComplete(t) => WillComplete(t)')
      BY <2>2 DEF WillDrop, WillComplete
    <2>8. QED BY <2>1, <2>3, <2>4, <2>5, <2>6, <2>7 DEF FieldsOwned
  <1>5. ASSUME UNCHANGED <<sink, connector, stage, flux>> PROVE FieldsOwned'
    BY <1>5 DEF FieldsOwned, WillDrop, WillComplete, Counted
  <1>6. ASSUME NEW g \in Generations, Connected(g) \/ ConnectFails(g) \/ EndsItself(g) \/ Disconnected(g)
        PROVE  FieldsOwned'
    BY <1>5, <1>6 DEF Connected, ConnectFails, EndsItself, Disconnected, fields
  <1>7. CASE UNCHANGED vars
    BY <1>5, <1>7 DEF vars, fields
  <1>8. QED BY <1>1, <1>2, <1>3, <1>4, <1>6, <1>7 DEF Next, Handler

LEMMA AnyStep == AnyInterleaving /\ [Next]_vars => AnyInterleaving'
  BY TypeStep, UndercountStep, NotNegativeStep, FieldsOwnedStep DEF AnyInterleaving

LEMMA InitAny == Init => AnyInterleaving
  <1> SUFFICES ASSUME Init PROVE AnyInterleaving
    OBVIOUS
  <1>1. TypeOK
    <2>1. collided \in BOOLEAN
      BY Zenon DEF Init
    <2>2. QED BY <2>1, HubAssumption DEF Init, TypeOK, Resting, Upstreams
  <1>2. Undercount
    <2>1. Counted = {}
      BY DEF Init, Counted, Subscribing
    <2>2. QED BY <2>1, FS_EmptySet DEF Init, Undercount
  <1>3. QED BY <1>1, <1>2 DEF Init, NotNegative, FieldsOwned, AnyInterleaving

\* The fields of ImEventSource, its sessions and connectors keep their types
\* however subscribe() and unsubscribe() interleave.
THEOREM TypeCorrect == Spec => []TypeOK
  <1>1. AnyInterleaving => TypeOK
    BY DEF AnyInterleaving
  <1>2. QED BY <1>1, InitAny, AnyStep, PTL DEF Spec

\* When every session has left, unsubscribe() has left the counter at zero and
\* both fields null, for any interleaving of any number of sessions, although
\* onClose also subtracts sessions that onOpen refused: the last one uncounted
\* finds the counter at or below zero, and whoever set a field was counted.
THEOREM FieldsReleasedHolds == Spec => []FieldsReleased
  <1>1. AnyInterleaving => FieldsReleased
    <2> SUFFICES ASSUME AnyInterleaving, AllAway
                 PROVE  subscriberCount = 0 /\ sink = None /\ connector = None
      BY DEF FieldsReleased
    <2>1. Counted = {}
      BY DEF AllAway, Counted, Subscribing
    <2>2. subscriberCount <= 0
      BY <2>1, FS_EmptySet DEF AnyInterleaving, Undercount
    <2>3. ~ subscriberCount < 0
      BY DEF AnyInterleaving, NotNegative, AllAway
    <2>4. sink = None /\ connector = None
      BY <2>1 DEF AnyInterleaving, FieldsOwned, WillDrop, WillComplete, AllAway
    <2>5. QED BY <2>2, <2>3, <2>4 DEF AnyInterleaving, TypeOK
  <1>2. QED BY <1>1, InitAny, AnyStep, PTL DEF Spec

----------------------------------------------------------------------------
(* Until a release runs beside another callback.                           *)

\* The parts of Calm that speak about the fields of the other sessions.
Others(s) == \A t \in Sessions : t # s => InSubscribe(t) /\ InUnsubscribe(t)

\* A callback begins: a subscriber that finds the counter at zero finds the
\* upstream released, one that leaves it at zero is alone.
LEMMA BeginStep ==
    ASSUME TypeOK, Calm, NEW s \in Sessions, Refuse(s) \/ Count(s) \/ Uncount(s), ~collided'
    PROVE  Calm'
  <1>1. \A t \in Sessions : t # s => stage'[t] = stage[t] /\ flux'[t] = flux[t]
    BY DEF Refuse, Count, Uncount, Goto, TypeOK
  <1>2. stage[s] \in Resting /\ UNCHANGED <<sink, connector, completed, upstream>>
    BY DEF Refuse, Count, Uncount, fields, Resting
  <1>3. /\ Serving' <=> Serving
        /\ Released' <=> Released
        /\ Settled' <=> Settled
        /\ Only(sink)' <=> Only(sink)
    BY <1>2 DEF Serving, Released, Settled, Only
  <1>4. \A t \in Sessions : Listens(t)'
    BY <1>1, <1>2 DEF Calm, TypeOK, Listens, Refuse, Count, Uncount, Goto
  <1>5. CASE Refuse(s)
    <2>1. stage'[s] = "refused" /\ subscriberCount' = subscriberCount
      BY <1>5 DEF Refuse, Goto, TypeOK, fields
    <2>2. ReleaseAlone' /\ OneOpener'
      BY <1>1, <2>1 DEF Calm, ReleaseAlone, OneOpener, Opening, Unsubscribing, Resting
    <2>3. Quiet'
      BY <1>1, <1>2, <1>3, <2>1 DEF Calm, Quiet, Opening, Unsubscribing, Resting
    <2>4. Others(s)'
      BY <1>1, <1>2, <1>3, <2>1 DEF Calm, Others, InSubscribe, InUnsubscribe
    <2>5. InSubscribe(s)' /\ InUnsubscribe(s)'
      BY <2>1 DEF InSubscribe, InUnsubscribe
    <2>6. QED BY <1>4, <2>2, <2>3, <2>4, <2>5 DEF Calm, Others
  <1>6. CASE Count(s)
    <2>1. /\ stage'[s] = IF subscriberCount' = 1 THEN "first" ELSE "joining"
          /\ subscriberCount' = subscriberCount + 1 /\ subscriberCount \in Int
      BY <1>6 DEF Count, Goto, TypeOK
    <2>2. \A t \in Sessions : stage[t] \notin Unsubscribing
      <3>1. ~ OtherReleasing(s)
        BY <1>6, Zenon DEF Count
      <3>2. QED BY <1>2, <3>1 DEF OtherReleasing, Resting, Unsubscribing
    <2>3. subscriberCount <= 0 => /\ subscriberCount = 0 /\ sink = None /\ Released
                                  /\ \A t \in Sessions : stage[t] \notin Opening \cup {"joining"}
      <3>1. subscriberCount <= 0 => \A t \in Sessions : stage[t] \notin Opening \cup {"joining"}
        BY <2>1 DEF Calm, InSubscribe, Opening
      <3>2. QED BY <2>1, <2>2, <3>1 DEF Calm, Quiet
    <2>4. ReleaseAlone' /\ OneOpener'
      BY <1>1, <2>1, <2>2, <2>3 DEF Calm, ReleaseAlone, OneOpener, Opening, Unsubscribing
    <2>5. Quiet'
      <3>1. CASE stage'[s] = "first"
        BY <3>1 DEF Quiet, Opening
      <3>2. CASE stage'[s] = "joining"
        <4>1. subscriberCount > 0
          BY <2>1, <2>3, <3>2
        <4>2. QED BY <1>1, <1>2, <1>3, <2>1, <3>2, <4>1 DEF Calm, Quiet, Opening, Unsubscribing, Resting
      <3>3. QED BY <2>1, <3>1, <3>2
    <2>6. Others(s)'
      <3>1. subscriberCount > 0 => subscriberCount' > 0
        BY <2>1
      <3>2. \A t \in Sessions : t # s => stage'[t] \notin Unsubscribing
        BY <1>1, <2>2
      <3>3. QED BY <1>1, <1>2, <1>3, <3>1, <3>2 DEF Calm, Others, InSubscribe, InUnsubscribe, Unsubscribing
    <2>7. InSubscribe(s)' /\ InUnsubscribe(s)'
      BY <1>2, <1>3, <2>1, <2>3 DEF InSubscribe, InUnsubscribe
    <2>8. QED BY <1>4, <2>4, <2>5, <2>6, <2>7 DEF Calm, Others
  <1>7. CASE Uncount(s)
    <2>1. /\ stage'[s] = IF subscriberCount' <= 0 THEN "zero" ELSE "gone"
          /\ subscriberCount' = subscriberCount - 1 /\ subscriberCount \in Int
      BY <1>7 DEF Uncount, Goto, TypeOK
    <2>2. \A t \in Sessions : stage[t] \notin Unsubscribing
      <3>1. ~ OtherReleasing(s)
        BY <1>7, Zenon DEF Uncount
      <3>2. QED BY <1>2, <3>1 DEF OtherReleasing, Resting, Unsubscribing
    <2>3. subscriberCount' <= 0 => \A t \in Sessions : stage[t] \in Resting
      <3>1. ~ (subscriberCount' <= 0 /\ OtherActive(s))
        BY <1>7, Zenon DEF Uncount
      <3>2. QED BY <1>2, <3>1 DEF OtherActive
    <2>4. ReleaseAlone' /\ OneOpener'
      BY <1>1, <2>1, <2>2, <2>3 DEF Calm, ReleaseAlone, OneOpener, Opening, Unsubscribing, Resting
    <2>5. CASE subscriberCount' <= 0
      <3>1. Settled
        BY <2>3, <2>5 DEF Calm, Quiet, Settled, Resting, Opening, Unsubscribing
      <3>2. stage'[s] = "zero"
        BY <2>1, <2>5
      <3>3. Quiet'
        BY <3>2 DEF Quiet, Unsubscribing
      <3>4. InSubscribe(s)' /\ InUnsubscribe(s)'
        BY <1>3, <2>5, <3>1, <3>2 DEF InSubscribe, InUnsubscribe
      <3>5. Others(s)'
        BY <1>1, <2>3, <2>5 DEF Others, InSubscribe, InUnsubscribe, Resting
      <3>6. QED BY <1>4, <2>4, <3>3, <3>4, <3>5 DEF Calm, Others
    <2>6. CASE subscriberCount' > 0
      <3>1. stage'[s] = "gone" /\ subscriberCount > 0
        BY <2>1, <2>6
      <3>2. Quiet'
        BY <1>1, <1>2, <1>3, <2>6, <3>1 DEF Calm, Quiet, Opening, Unsubscribing, Resting
      <3>3. InSubscribe(s)' /\ InUnsubscribe(s)'
        BY <3>1 DEF InSubscribe, InUnsubscribe
      <3>4. \A t \in Sessions : t # s => stage'[t] \notin Unsubscribing
        BY <1>1, <2>2
      <3>5. Others(s)'
        BY <1>1, <1>2, <1>3, <2>6, <3>4 DEF Calm, Others, InSubscribe, InUnsubscribe, Unsubscribing
      <3>6. QED BY <1>4, <2>4, <3>2, <3>3, <3>5 DEF Calm, Others
    <2>7. subscriberCount' <= 0 \/ subscriberCount' > 0
      BY <2>1
    <2>8. QED BY <2>5, <2>6, <2>7
  <1>8. QED BY <1>5, <1>6, <1>7

\* The steps of subscribe(): beside them there are only subscribers that join.
LEMMA SubscribeStep ==
    ASSUME TypeOK, TypeOK', Calm, NEW s \in Sessions,
           NewSink(s) \/ NewConnector(s) \/ ConnectUpstream(s) \/ Join(s)
    PROVE  Calm'
  <1> USE HubAssumption
  <1>1. \A t \in Sessions : t # s => stage'[t] = stage[t] /\ flux'[t] = flux[t]
    BY DEF NewSink, NewConnector, ConnectUpstream, Join, Goto, TypeOK
  <1>2. stage[s] \in Subscribing /\ subscriberCount' = subscriberCount
    BY DEF NewSink, NewConnector, ConnectUpstream, Join, Subscribing, fields
  <1>3. \A t \in Sessions : stage[t] \notin Unsubscribing
    BY <1>2 DEF Calm, ReleaseAlone, Subscribing, Unsubscribing, Resting
  <1>4. InSubscribe(s) /\ subscriberCount > 0
    BY <1>2 DEF Calm, InSubscribe, Subscribing
  <1>5. ASSUME stage[s] \in Opening PROVE \A t \in Sessions : t # s => stage'[t] \notin Opening
    BY <1>1, <1>5 DEF Calm, OneOpener
  <1>6. ASSUME stage[s] \in Opening PROVE Others(s)'
    BY <1>1, <1>2, <1>3, <1>4, <1>5, <1>6 DEF Others, InSubscribe, InUnsubscribe, Opening, Unsubscribing
  <1>7. CASE NewSink(s)
    <2>1. PICK g \in Generations :
             /\ upstream[g] = "none"
             /\ upstream' = [upstream EXCEPT ![g] = "new"]
             /\ sink' = g
             /\ flux' = [flux EXCEPT ![s] = g]
      BY <1>7 DEF NewSink
    <2>2. stage'[s] = "sunk" /\ stage[s] = "first" /\ UNCHANGED <<connector, completed>>
      BY <1>7 DEF NewSink, Goto, TypeOK
    <2>3. sink = None /\ Released
      BY <1>4, <2>2 DEF InSubscribe
    <2>4. connector' = None /\ sink' = flux'[s] /\ Only(sink)'
      BY <2>1, <2>2, <2>3 DEF TypeOK, Released, Only, Held
    <2>5. InSubscribe(s)' /\ InUnsubscribe(s)'
      BY <1>2, <1>4, <2>2, <2>4 DEF InSubscribe, InUnsubscribe
    <2>6. \A t \in Sessions : Listens(t)'
      BY <1>1, <2>2, <2>3 DEF Calm, Listens
    <2>7. ReleaseAlone' /\ OneOpener' /\ Quiet'
      BY <1>1, <1>3, <1>5, <2>2 DEF ReleaseAlone, OneOpener, Quiet, Opening, Unsubscribing
    <2>8. QED BY <1>6, <2>2, <2>5, <2>6, <2>7 DEF Calm, Others, Opening
  <1>8. CASE NewConnector(s)
    <2>1. stage'[s] = "wired" /\ stage[s] = "sunk" /\ connector' = flux[s]
          /\ UNCHANGED <<sink, flux, completed, upstream>>
      BY <1>8 DEF NewConnector, Goto, TypeOK
    <2>2. Serving' /\ sink' = flux'[s]
      BY <1>4, <2>1 DEF InSubscribe, Serving, Only
    <2>3. InSubscribe(s)' /\ InUnsubscribe(s)'
      BY <1>2, <1>4, <2>1, <2>2 DEF InSubscribe, InUnsubscribe
    <2>4. \A t \in Sessions : Listens(t)'
      BY <1>1, <2>1 DEF Calm, Listens
    <2>5. ReleaseAlone' /\ OneOpener' /\ Quiet'
      BY <1>1, <1>3, <1>5, <2>1 DEF ReleaseAlone, OneOpener, Quiet, Opening, Unsubscribing
    <2>6. QED BY <1>6, <2>1, <2>3, <2>4, <2>5 DEF Calm, Others, Opening
  <1>9. CASE ConnectUpstream(s)
    <2>1. /\ stage[s] = "wired" /\ stage'[s] = "joining" /\ UNCHANGED <<sink, connector, flux, completed>>
          /\ upstream' = [upstream EXCEPT ![flux[s]] = "dialing"]
      BY <1>9 DEF ConnectUpstream, Goto, TypeOK
    <2>2. sink = flux[s] /\ Serving
      BY <1>4, <2>1 DEF InSubscribe
    <2>3. Serving'
      BY <2>1, <2>2 DEF Serving, Only, TypeOK, Held
    <2>4. InSubscribe(s)' /\ InUnsubscribe(s)'
      BY <1>2, <1>4, <2>1 DEF InSubscribe, InUnsubscribe
    <2>5. \A t \in Sessions : Listens(t)'
      BY <1>1, <2>1 DEF Calm, Listens
    <2>6. ReleaseAlone' /\ OneOpener'
      BY <1>1, <1>3, <1>5, <2>1 DEF ReleaseAlone, OneOpener, Opening, Unsubscribing
    <2>7. Quiet'
      BY <1>2, <1>4, <2>3 DEF Quiet
    <2>8. QED BY <1>6, <2>1, <2>4, <2>5, <2>6, <2>7 DEF Calm, Others, Opening
  <1>10. CASE Join(s)
    <2>1. /\ stage[s] = "joining" /\ UNCHANGED <<sink, connector, completed, upstream>>
          /\ flux' = [flux EXCEPT ![s] = sink]
          /\ stage'[s] = IF sink = None THEN "broken" ELSE "attached"
      BY <1>10 DEF Join, Goto, TypeOK, fields
    <2>2. /\ Serving' <=> Serving
          /\ Released' <=> Released
          /\ Only(sink)' <=> Only(sink)
      BY <2>1 DEF Serving, Released, Only
    <2>3. InSubscribe(s)' /\ InUnsubscribe(s)'
      BY <2>1 DEF InSubscribe, InUnsubscribe
    <2>4. Others(s)'
      BY <1>1, <1>2, <1>3, <2>1, <2>2 DEF Calm, Others, InSubscribe, InUnsubscribe, Unsubscribing
    <2>5. \A t \in Sessions : Listens(t)'
      BY <1>1, <2>1 DEF Calm, Listens, TypeOK
    <2>6. ReleaseAlone' /\ OneOpener'
      BY <1>1, <1>3, <2>1 DEF Calm, ReleaseAlone, OneOpener, Opening, Unsubscribing
    <2>7. Quiet'
      BY <1>1, <1>2, <2>1, <2>2 DEF Calm, Quiet, Opening, Unsubscribing
    <2>8. QED BY <2>3, <2>4, <2>5, <2>6, <2>7 DEF Calm, Others
  <1>11. QED BY <1>7, <1>8, <1>9, <1>10

\* The steps of the release: every other session rests.
LEMMA ReleaseStep ==
    ASSUME TypeOK, TypeOK', Calm, NEW s \in Sessions,
           \/ Zero(s) \/ ReadConnector(s) \/ DropConnector(s)
           \/ ReadSink(s) \/ CompleteSink(s) \/ Forget(s)
    PROVE  Calm'
  <1> USE HubAssumption
  <1>1. \A t \in Sessions : t # s => stage'[t] = stage[t] /\ flux'[t] = flux[t]
    BY DEF Zero, ReadConnector, DropConnector, ReadSink, CompleteSink, Forget, Goto, TypeOK
  <1>2. stage[s] \in Unsubscribing /\ stage'[s] \in Unsubscribing \cup {"gone"}
    BY DEF Zero, ReadConnector, DropConnector, ReadSink, CompleteSink, Forget, Goto, TypeOK, Unsubscribing
  <1>3. \A t \in Sessions : t # s => stage'[t] \in Resting
    BY <1>1, <1>2 DEF Calm, ReleaseAlone
  <1>4. ReleaseAlone' /\ OneOpener'
    BY <1>2, <1>3 DEF ReleaseAlone, OneOpener, Opening, Unsubscribing, Resting
  <1>5. Others(s)'
    BY <1>3 DEF Others, InSubscribe, InUnsubscribe, Resting
  <1>6. InUnsubscribe(s) /\ InSubscribe(s)' /\ (stage'[s] # "gone" => Quiet')
    BY <1>2 DEF Calm, InSubscribe, Quiet, Unsubscribing
  <1>7. ASSUME InUnsubscribe(s)', Quiet', \A t \in Sessions : Listens(t)' PROVE Calm'
    BY <1>4, <1>5, <1>6, <1>7 DEF Calm, Others
  <1>8. CASE Zero(s)
    <2>1. /\ stage[s] = "zero" /\ stage'[s] = "drop" /\ subscriberCount' = 0
          /\ UNCHANGED <<sink, connector, flux, completed, upstream>>
      BY <1>8 DEF Zero, Goto, TypeOK
    <2>2. Settled'
      BY <1>6, <2>1 DEF InUnsubscribe, Settled, Serving, Only, Released
    <2>3. QED BY <1>1, <1>6, <1>7, <2>1, <2>2 DEF Calm, InUnsubscribe, Listens
  <1>9. CASE ReadConnector(s)
    <2>1. /\ stage[s] = "drop" /\ stage'[s] = "dropping" /\ flux'[s] = connector
          /\ UNCHANGED <<subscriberCount, sink, connector, completed, upstream>>
      BY <1>9 DEF ReadConnector, Goto, TypeOK, fields
    <2>2. Settled' /\ subscriberCount' = 0
      BY <1>6, <2>1 DEF InUnsubscribe, Settled, Serving, Only, Released
    <2>3. QED BY <1>1, <1>6, <1>7, <2>1, <2>2 DEF Calm, InUnsubscribe, Listens
  <1>10. CASE DropConnector(s)
    <2>1. /\ stage[s] = "dropping" /\ stage'[s] = "complete"
          /\ connector' = IF flux[s] = None THEN connector ELSE None
          /\ \A g \in Generations :
                upstream'[g] = IF g = flux[s] /\ upstream[g] \in Held THEN "closing" ELSE upstream[g]
          /\ UNCHANGED <<subscriberCount, sink, flux, completed>>
      BY <1>10 DEF DropConnector, Goto, TypeOK
    <2>2. Released' /\ subscriberCount' = 0
      BY <1>6, <2>1 DEF InUnsubscribe, Settled, Serving, Only, Released, Held
    <2>3. QED BY <1>1, <1>6, <1>7, <2>1, <2>2 DEF Calm, InUnsubscribe, Listens
  <1>11. CASE ReadSink(s)
    <2>1. /\ stage[s] = "complete" /\ stage'[s] = "completing" /\ flux'[s] = sink
          /\ UNCHANGED <<subscriberCount, sink, connector, completed, upstream>>
      BY <1>11 DEF ReadSink, Goto, TypeOK, fields
    <2>2. Released' /\ subscriberCount' = 0
      BY <1>6, <2>1 DEF InUnsubscribe, Released
    <2>3. QED BY <1>1, <1>6, <1>7, <2>1, <2>2 DEF Calm, InUnsubscribe, Listens
  <1>12. CASE CompleteSink(s)
    <2>1. /\ stage[s] = "completing" /\ stage'[s] = "forget"
          /\ sink' = IF flux[s] = None THEN sink ELSE None
          /\ completed' = completed \cup ({flux[s]} \ {None})
          /\ UNCHANGED <<subscriberCount, connector, upstream>>
      BY <1>12 DEF CompleteSink, Goto, TypeOK
    <2>2. Released' /\ subscriberCount' = 0 /\ sink' = None /\ flux[s] = sink
      BY <1>6, <2>1 DEF InUnsubscribe, Released
    <2>3. \A t \in Sessions : Listens(t)'
      BY <1>1, <2>1, <2>2 DEF Calm, Listens
    <2>4. QED BY <1>6, <1>7, <2>1, <2>2, <2>3 DEF InUnsubscribe
  <1>13. CASE Forget(s)
    <2>1. /\ stage[s] = "forget" /\ stage'[s] = "gone"
          /\ UNCHANGED <<subscriberCount, sink, connector, flux, completed, upstream>>
      BY <1>13 DEF Forget, Goto, TypeOK
    <2>2. subscriberCount' = 0 /\ sink' = None /\ Released'
      BY <1>6, <2>1 DEF InUnsubscribe, Released
    <2>3. QED BY <1>1, <1>7, <2>1, <2>2 DEF Calm, InUnsubscribe, Listens, Quiet
  <1>14. QED BY <1>8, <1>9, <1>10, <1>11, <1>12, <1>13

\* A connector's callback completes sinks and moves its own state, but never
\* opens a connector that close() has reached.
LEMMA UpstreamStep ==
    ASSUME TypeOK, Calm, NEW g \in Generations,
           Connected(g) \/ ConnectFails(g) \/ EndsItself(g) \/ Disconnected(g)
    PROVE  Calm'
  <1>1. /\ UNCHANGED <<subscriberCount, sink, connector, stage, flux>>
        /\ completed \subseteq completed'
    BY DEF Connected, ConnectFails, EndsItself, Disconnected, fields
  <1>2. \A h \in Generations : upstream'[h] \in Held => upstream[h] \in Held
    BY DEF Connected, ConnectFails, EndsItself, Disconnected, Held, TypeOK
  <1>3. \A h \in Generations :
           upstream[h] \in Held \cup {"ending"} =>
               upstream'[h] \in Held \cup {"ending"} \/ h \in completed'
    BY DEF Connected, ConnectFails, EndsItself, Disconnected, Held, TypeOK
  <1>4. Only(sink) => Only(sink)'
    BY <1>1, <1>2, <1>3 DEF Only, TypeOK
  <1>5. /\ Serving => Serving'
        /\ Released => Released'
        /\ Settled => Settled'
    BY <1>1, <1>2, <1>4 DEF Serving, Released, Settled
  <1>6. Quiet' /\ ReleaseAlone' /\ OneOpener'
    BY <1>1, <1>5 DEF Calm, Quiet, ReleaseAlone, OneOpener
  <1>7. \A t \in Sessions : InSubscribe(t)' /\ InUnsubscribe(t)'
    BY <1>1, <1>4, <1>5 DEF Calm, InSubscribe, InUnsubscribe
  <1>8. \A t \in Sessions : Listens(t)'
    BY <1>1 DEF Calm, Listens
  <1>9. QED BY <1>6, <1>7, <1>8 DEF Calm

\* A collision is never forgotten.
LEMMA StillNotCollided ==
    ASSUME [Next]_vars, ~collided'
    PROVE  ~collided
  <1>1. ASSUME NEW s \in Sessions, Refuse(s) \/ Count(s) \/ Uncount(s) PROVE ~collided
    BY <1>1, Zenon DEF Refuse, Count, Uncount
  <1>2. ASSUME NEW s \in Sessions, Handler(s) PROVE ~collided
    BY <1>2, Zenon DEF Handler, NewSink, NewConnector, ConnectUpstream, Join, Zero, ReadConnector,
                       DropConnector, ReadSink, CompleteSink, Forget
  <1>3. ASSUME NEW g \in Generations, Connected(g) \/ ConnectFails(g) \/ EndsItself(g) \/ Disconnected(g)
        PROVE  ~collided
    BY <1>3, Zenon DEF Connected, ConnectFails, EndsItself, Disconnected
  <1>4. CASE UNCHANGED vars
    BY <1>4, Zenon DEF vars
  <1>5. QED BY <1>1, <1>2, <1>3, <1>4 DEF Next

LEMMA CalmStep ==
    ASSUME TypeOK, TypeOK', Calm, [Next]_vars, ~collided'
    PROVE  Calm'
  <1>1. CASE UNCHANGED vars
    BY <1>1 DEF vars, fields, Calm, ReleaseAlone, OneOpener, Quiet, Serving, Released, Settled, Only,
                InSubscribe, InUnsubscribe, Listens
  <1>2. CASE Next
    <2>1. ASSUME NEW s \in Sessions, Refuse(s) \/ Count(s) \/ Uncount(s) PROVE Calm'
      BY <2>1, BeginStep
    <2>2. ASSUME NEW s \in Sessions, Handler(s) PROVE Calm'
      BY <2>2, SubscribeStep, ReleaseStep DEF Handler
    <2>3. QED BY <1>2, <2>1, <2>2, UpstreamStep DEF Next
  <1>3. QED BY <1>1, <1>2

LEMMA IInvStep == IInv /\ [Next]_vars => IInv'
  <1> SUFFICES ASSUME IInv, [Next]_vars PROVE IInv'
    OBVIOUS
  <1>1. AnyInterleaving' /\ TypeOK /\ TypeOK'
    BY AnyStep DEF IInv, AnyInterleaving
  <1>2. ASSUME ~collided' PROVE Calm'
    <2>1. ~collided
      BY <1>2, StillNotCollided
    <2>2. Calm
      BY <2>1 DEF IInv
    <2>3. QED BY <1>1, <1>2, <2>2, CalmStep
  <1>3. QED BY <1>1, <1>2 DEF IInv

LEMMA InitIInv == Init => IInv
  <1> SUFFICES ASSUME Init PROVE IInv
    OBVIOUS
  <1>1. ReleaseAlone /\ OneOpener
    BY DEF Init, ReleaseAlone, OneOpener, Opening, Unsubscribing
  <1>2. Quiet
    BY DEF Init, Quiet, Released, Held
  <1>3. \A s \in Sessions : InSubscribe(s) /\ InUnsubscribe(s) /\ Listens(s)
    BY DEF Init, InSubscribe, InUnsubscribe, Listens
  <1>4. QED BY <1>1, <1>2, <1>3, InitAny DEF Calm, IInv

\* "there is at most one upstream connection at any time" holds, however many
\* sessions subscribe and leave concurrently, until the release of the last
\* unsubscribe() has run beside another session's callback.
THEOREM OneUpstreamHolds == Spec => []OneUpstreamUnlessCollided
  <1>1. IInv => OneUpstreamUnlessCollided
    <2> SUFFICES ASSUME IInv, Calm, NEW g \in Generations, NEW h \in Generations,
                        upstream[g] \in Held, upstream[h] \in Held
                 PROVE  g = h
      BY DEF OneUpstreamUnlessCollided, AtMostOneUpstream, IInv, Held
    <2>1. CASE \A s \in Sessions : stage[s] \notin Opening \cup Unsubscribing
      BY <2>1 DEF Calm, Quiet, Serving, Only, Released
    <2>2. ASSUME NEW s \in Sessions, stage[s] \in Opening \cup Unsubscribing PROVE g = h
      <3>1. InSubscribe(s) /\ InUnsubscribe(s)
        BY DEF Calm
      <3>2. QED
        BY <2>2, <3>1 DEF Opening, Unsubscribing, InSubscribe, InUnsubscribe, Settled, Serving, Only, Released
    <2>3. QED BY <2>1, <2>2
  <1>2. QED BY <1>1, IInvStep, InitIInv, PTL DEF Spec

\* "the last to leave closes it" holds until such a collision: the counter never
\* exceeds the sessions that are there, so when none is, it is zero and the
\* connector has been closed.
THEOREM LastLeaverClosesHolds == Spec => []ClosedUnlessCollided
  <1>1. IInv => ClosedUnlessCollided
    <2> SUFFICES ASSUME IInv, Calm, AllAway
                 PROVE  \A g \in Generations : upstream[g] \notin Held
      BY DEF ClosedUnlessCollided, LastLeaverCloses, IInv
    <2>1. Counted = {}
      BY DEF AllAway, Counted, Subscribing
    <2>2. subscriberCount <= 0
      BY <2>1, FS_EmptySet DEF IInv, AnyInterleaving, Undercount
    <2>3. \A s \in Sessions : stage[s] \notin Opening \cup Unsubscribing
      BY DEF AllAway, Opening, Unsubscribing
    <2>4. subscriberCount \in Int
      BY DEF IInv, AnyInterleaving, TypeOK
    <2>5. QED BY <2>2, <2>3, <2>4 DEF Calm, Quiet, Released
  <1>2. QED BY <1>1, IInvStep, InitIInv, PTL DEF Spec

\* Until such a collision a session between callbacks listens to the sink that
\* the current connector feeds, or to a completed one, also after a refused
\* session's unsubscribe() has torn the upstream down under it.
THEOREM ServedHolds == Spec => []ServedUnlessCollided
  <1>1. IInv => ServedUnlessCollided
    <2> SUFFICES ASSUME IInv, Calm, AtRest, NEW s \in Sessions, stage[s] = "attached",
                        flux[s] \notin completed
                 PROVE  flux[s] = sink /\ connector = sink /\ upstream[sink] \in Held \cup {"ending"}
      BY DEF ServedUnlessCollided, IInv
    <2>1. flux[s] = sink /\ sink # None
      BY DEF Calm, Listens
    <2>2. Serving
      BY <2>1 DEF Calm, Quiet, AtRest, Resting, Opening, Unsubscribing
    <2>3. QED BY <2>1, <2>2 DEF Serving, Only
  <1>2. QED BY <1>1, IInvStep, InitIInv, PTL DEF Spec

=============================================================================
