--------------------------- MODULE BundlesProofs ---------------------------
(***************************************************************************)
(* Proofs about Bundles, for a search of any number of pages.              *)
(***************************************************************************)
EXTENDS Bundles, TLAPS

\* How a call fails by itself.
Whys == {"4xx", "5xx", "error"}

\* A task that waits for its next attempt has one left.
Budget == \A call \in Calls : task[call] = "sleeping" => attempts[call] < MaxAttempts

\* The scope is opened with the room's information there; before that nothing
\* of it has begun.
Opened ==
    /\ state = "first" => \A call \in Fanout(kind) : task[call] = "none"
    /\ state \in {"forked", "answered"} => \A call \in First(kind) : Returned(call)

\* What the scope keeps is the failure of a task that was not interrupted.
TrueCause ==
    /\ cause # "interrupted"
    /\ cause \in Whys =>
           \E call \in Calls \ Optional :
               /\ task[call] = "failed"
               /\ Retried(kind) /\ cause = "5xx" => attempts[call] = MaxAttempts

\* requireData()
Required == \A call \in Calls \cap NeverNull : task[call] # "null"

\* An exception after join() comes when all calls have returned.
Assembled == cause = "assembly" => /\ TakesApart(kind) /\ state = "failed"
                                   /\ \A call \in Calls : Returned(call)

\* The request ends after its tasks.
Quiet ==
    /\ state = "answered" =>
           /\ \A call \in Calls : Returned(call)
           /\ \A call \in Dereferenced(kind) : task[call] = "ok"
    /\ state = "failed" =>
           cause # "none" /\ \A call \in Calls : task[call] \notin {"calling", "sleeping"}

\* In the first call, the cause is what became of that call.
FirstOver == state = "first" /\ cause # "none" => \A call \in First(kind) : Over(call)

IInv ==
    /\ TypeOK /\ Budget /\ InfoFirst /\ Opened /\ TrueCause /\ Required /\ Assembled
    /\ Quiet /\ FirstOver

\* The steps of a call.
OfCall(call) ==
    \/ Fork(call) \/ Succeed(call) \/ Again(call) \/ Interrupt(call)
    \/ \E why \in Whys : GiveUp(call, why) \/ Backoff(call, why)

\* No call is made both first and with the others.
LEMMA Disjoint == \A k \in Kinds : First(k) \cap Fanout(k) = {}
  BY DEF Kinds, First, Fanout, JoinCalls

\* A step of a call changes that call alone, which was not over; one that was
\* never made is made only in the scope.
LEMMA OneTask ==
    ASSUME TypeOK, NEW call \in Calls, OfCall(call)
    PROVE  /\ UNCHANGED <<kind, state>>
           /\ Calls' = Calls
           /\ ~Over(call)
           /\ task[call] = "none" => state = "forked" /\ call \in Fanout(kind)
           /\ \A other \in Calls :
                 other # call => task'[other] = task[other] /\ attempts'[other] = attempts[other]
           /\ cause' # cause => cause = "none"
  <1>1. UNCHANGED <<kind, state>> /\ ~Over(call)
    BY DEF OfCall, Fork, Succeed, Again, Interrupt, GiveUp, Backoff, Over
  <1>2. Calls' = Calls
    BY <1>1 DEF Calls
  <1>3. task[call] = "none" => state = "forked" /\ call \in Fanout(kind)
    BY DEF OfCall, Fork, Succeed, Again, Interrupt, GiveUp, Backoff
  <1>4. \A other \in Calls :
           other # call => task'[other] = task[other] /\ attempts'[other] = attempts[other]
    BY DEF OfCall, Fork, Succeed, Again, Interrupt, GiveUp, Backoff, EndsBadly, TypeOK
  <1>5. cause' # cause => cause = "none"
    BY DEF OfCall, Fork, Succeed, Again, Interrupt, GiveUp, Backoff, EndsBadly
  <1>6. QED BY <1>1, <1>2, <1>3, <1>4, <1>5

LEMMA TypeStep ==
    ASSUME TypeOK, Budget, NEW call \in Calls, OfCall(call)
    PROVE  TypeOK' /\ Budget'
  <1>1. UNCHANGED <<kind, state>> /\ Calls' = Calls
    BY OneTask
  <1> USE <1>1 DEF TypeOK, Budget
  <1>2. CASE Fork(call)
    BY <1>2 DEF Fork, MaxAttempts
  <1>3. CASE Succeed(call)
    BY <1>3 DEF Succeed
  <1>4. CASE Again(call)
    BY <1>4 DEF Again, MaxAttempts
  <1>5. CASE Interrupt(call)
    BY <1>5 DEF Interrupt, EndsBadly
  <1>6. ASSUME NEW why \in Whys, GiveUp(call, why) PROVE TypeOK' /\ Budget'
    BY <1>6 DEF GiveUp, EndsBadly, Whys
  <1>7. ASSUME NEW why \in Whys, Backoff(call, why) PROVE TypeOK' /\ Budget'
    BY <1>7 DEF Backoff, Retries
  <1>8. QED BY <1>2, <1>3, <1>4, <1>5, <1>6, <1>7 DEF OfCall

\* The first failure is kept, whatever the cancellation does to the other tasks.
LEMMA CauseStep ==
    ASSUME TypeOK, TrueCause, Required, NEW call \in Calls, OfCall(call)
    PROVE  TrueCause' /\ Required'
  <1>1. /\ UNCHANGED <<kind, state>> /\ Calls' = Calls /\ ~Over(call)
        /\ \A other \in Calls :
              other # call => task'[other] = task[other] /\ attempts'[other] = attempts[other]
    BY OneTask
  <1>2. Required'
    <2>1. task'[call] = "null" => call \notin NeverNull
      BY DEF OfCall, Fork, Succeed, Again, Interrupt, GiveUp, Backoff, EndsBadly, TypeOK, Optional,
             NeverNull, Over
    <2>2. QED BY <1>1, <2>1 DEF Required
  <1>3. CASE cause' = cause /\ cause \in Whys
    <2>1. PICK other \in Calls \ Optional :
             /\ task[other] = "failed"
             /\ Retried(kind) /\ cause = "5xx" => attempts[other] = MaxAttempts
      BY <1>3 DEF TrueCause
    <2>2. other # call
      BY <1>1, <2>1 DEF Over
    <2>3. QED BY <1>1, <1>2, <1>3, <2>1, <2>2 DEF TrueCause
  <1>4. CASE cause' = cause /\ cause \notin Whys
    BY <1>2, <1>4 DEF TrueCause
  <1>5. CASE cause' # cause
    <2>1. cause = "none"
      BY <1>5, OneTask
    <2>2. PICK why \in Whys : GiveUp(call, why)
      BY <1>5, <2>1 DEF OfCall, Fork, Succeed, Again, Interrupt, Backoff
    <2>3. call \notin Optional /\ task'[call] = "failed" /\ cause' = why /\ attempts' = attempts
      BY <1>5, <2>1, <2>2 DEF GiveUp, EndsBadly, TypeOK
    <2>4. Retried(kind) /\ why = "5xx" => attempts[call] = MaxAttempts
      BY <2>2 DEF GiveUp, Retries, TypeOK, MaxAttempts
    <2>5. QED BY <1>1, <1>2, <2>3, <2>4 DEF TrueCause, Whys
  <1>6. QED BY <1>3, <1>4, <1>5

LEMMA CallStep ==
    ASSUME IInv, NEW call \in Calls, OfCall(call)
    PROVE  IInv'
  <1>1. TypeOK' /\ Budget' /\ TrueCause' /\ Required'
    BY TypeStep, CauseStep DEF IInv
  <1>2. /\ UNCHANGED <<kind, state>> /\ Calls' = Calls /\ ~Over(call)
        /\ task[call] = "none" => state = "forked" /\ call \in Fanout(kind)
        /\ \A other \in Calls : other # call => task'[other] = task[other]
        /\ cause' # cause => cause = "none"
    BY OneTask DEF IInv
  <1>3. First(kind) \subseteq Calls /\ Fanout(kind) \subseteq Calls
    BY DEF Calls
  <1>4. \A first \in First(kind) : Returned(first) => Returned(first)'
    BY <1>2, <1>3 DEF Over, Returned
  <1>5. InfoFirst'
    BY <1>2, <1>3, <1>4 DEF IInv, InfoFirst, Opened
  <1>6. Opened'
    BY <1>2, <1>3, <1>4 DEF IInv, Opened, Over
  <1>7. Quiet' /\ state # "failed"
    <2>1. state # "answered"
      BY <1>2 DEF IInv, Quiet, Over, Returned
    <2>2. state # "failed"
      <3>1. task[call] = "none" => state = "forked"
        BY <1>2
      <3>2. QED BY <1>2, <3>1 DEF IInv, Quiet, Over
    <2>3. QED BY <1>2, <2>1, <2>2 DEF Quiet
  <1>8. Assembled'
    <2>1. cause # "assembly"
      BY <1>7 DEF IInv, Assembled
    <2>2. cause' \in {cause, "interrupted"} \cup Whys
      BY DEF OfCall, Fork, Succeed, Again, Interrupt, GiveUp, Backoff, EndsBadly
    <2>3. QED BY <2>1, <2>2 DEF Assembled, Whys
  <1>9. FirstOver'
    <2> SUFFICES ASSUME state = "first", cause' # "none"
                 PROVE  \A first \in First(kind) : Over(first)'
      BY <1>2 DEF FirstOver
    <2>1. \A other \in Fanout(kind) : task[other] = "none"
      BY DEF IInv, Opened
    <2>2. call \in First(kind)
      BY <1>2, <2>1 DEF Calls
    <2>3. cause = "none"
      BY <1>2, <2>2 DEF IInv, FirstOver
    <2>4. PICK why \in Whys : GiveUp(call, why)
      BY <2>3 DEF OfCall, Fork, Succeed, Again, Interrupt, Backoff
    <2>5. task'[call] \in {"null", "failed"}
      BY <2>4 DEF GiveUp, EndsBadly, IInv, TypeOK
    <2>6. \A first \in First(kind) : first = call
      BY <2>2 DEF First
    <2>7. QED BY <2>5, <2>6 DEF Over
  <1>10. QED BY <1>1, <1>5, <1>6, <1>7, <1>8, <1>9 DEF IInv

\* The thread of the request goes on, or ends.
LEMMA RequestStep ==
    ASSUME IInv, OpenScope \/ FirstFails \/ Answer \/ Fail
    PROVE  IInv'
  <1>1. UNCHANGED <<kind, task, attempts, cause>> /\ Calls' = Calls
    BY DEF OpenScope, FirstFails, Answer, Fail, Calls
  <1>2. state' \in {"forked", "answered", "failed"} /\ state \in {"first", "forked"}
    BY DEF OpenScope, FirstFails, Answer, Fail
  <1>3. TypeOK' /\ Budget' /\ InfoFirst' /\ TrueCause' /\ Required' /\ FirstOver'
    BY <1>1, <1>2 DEF IInv, TypeOK, Budget, InfoFirst, TrueCause, Required, FirstOver, Returned
  <1>4. First(kind) \subseteq Calls /\ Fanout(kind) \subseteq Calls
    BY DEF Calls
  <1>5. Opened'
    BY <1>1, <1>2, <1>4 DEF IInv, Opened, OpenScope, FirstFails, Answer, Fail, Returned
  <1>6. Assembled'
    BY <1>1, <1>2 DEF IInv, Assembled
  <1>7. Quiet'
    <2>1. CASE OpenScope
      BY <2>1 DEF OpenScope, Quiet
    <2>2. CASE FirstFails
      <3>1. /\ \A other \in Fanout(kind) : task[other] = "none"
            /\ \A call \in First(kind) : Over(call)
        BY <2>2 DEF FirstFails, IInv, Opened, FirstOver
      <3>2. \A other \in Calls : task[other] \notin {"calling", "sleeping"}
        BY <3>1 DEF Calls, Over
      <3>3. QED BY <1>1, <2>2, <3>2 DEF FirstFails, Quiet
    <2>3. CASE Answer
      BY <1>1, <2>3 DEF Answer, Quiet, Returned
    <2>4. CASE Fail
      BY <1>1, <2>4 DEF Fail, Quiet, Over
    <2>5. QED BY <2>1, <2>2, <2>3, <2>4
  <1>8. QED BY <1>3, <1>5, <1>6, <1>7 DEF IInv

\* It fails after join().
LEMMA AssemblyStep ==
    ASSUME IInv, AssemblyFails
    PROVE  IInv'
  <1>1. /\ UNCHANGED <<kind, task, attempts>> /\ Calls' = Calls
        /\ state' = "failed" /\ cause' = "assembly" /\ TakesApart(kind)
        /\ \A call \in Calls : Returned(call)
    BY DEF AssemblyFails, Calls
  <1>2. TypeOK' /\ Budget' /\ InfoFirst' /\ TrueCause' /\ Required' /\ FirstOver' /\ Opened'
    BY <1>1 DEF IInv, TypeOK, Budget, InfoFirst, TrueCause, Required, FirstOver, Opened, Returned, Whys
  <1>3. Assembled' /\ Quiet'
    BY <1>1 DEF Assembled, Quiet, Returned
  <1>4. QED BY <1>2, <1>3 DEF IInv

\* It is interrupted.
LEMMA InterruptStep ==
    ASSUME IInv, InterruptRequest
    PROVE  IInv'
  <1>1. /\ UNCHANGED <<kind, state, attempts>> /\ Calls' = Calls
        /\ cause' = "request" /\ state \in {"first", "forked"}
    BY DEF InterruptRequest, Calls
  <1>2. TrueCause' /\ Assembled' /\ Quiet'
    BY <1>1 DEF TrueCause, Assembled, Quiet, Whys
  <1>3. CASE state = "forked"
    <2>1. task' = task
      BY <1>3 DEF InterruptRequest
    <2>2. TypeOK' /\ Budget' /\ InfoFirst' /\ Required' /\ FirstOver' /\ Opened'
      BY <1>1, <1>3, <2>1 DEF IInv, TypeOK, Budget, InfoFirst, Required, FirstOver, Opened, Returned
    <2>3. QED BY <1>2, <2>2 DEF IInv
  <1>4. CASE state = "first"
    <2>1. PICK call \in First(kind) : ~Over(call) /\ task' = [task EXCEPT ![call] = "failed"]
      BY <1>4 DEF InterruptRequest
    <2>2. call \in Calls /\ \A first \in First(kind) : first = call
      BY <2>1 DEF Calls, First
    <2>3. call \notin Fanout(kind)
      BY <2>1, Disjoint DEF IInv, TypeOK
    <2>4. \A other \in Fanout(kind) : task[other] = "none" /\ task'[other] = "none"
      BY <1>4, <2>1, <2>2, <2>3 DEF IInv, Opened, TypeOK, Calls
    <2>5. task'[call] = "failed" /\ \A other \in Calls : other # call => task'[other] = task[other]
      BY <2>1, <2>2 DEF IInv, TypeOK
    <2>6. TypeOK' /\ Budget' /\ Required'
      BY <1>1, <2>1, <2>2, <2>5 DEF IInv, TypeOK, Budget, Required
    <2>7. InfoFirst' /\ Opened' /\ FirstOver'
      BY <1>1, <1>4, <2>2, <2>4, <2>5 DEF InfoFirst, Opened, FirstOver, Over
    <2>8. QED BY <1>2, <2>6, <2>7 DEF IInv
  <1>5. QED BY <1>1, <1>3, <1>4

LEMMA InitIInv == Init => IInv
  <1> SUFFICES ASSUME Init PROVE IInv
    OBVIOUS
  <1> USE DEF Init
  <1>1. TypeOK /\ Budget
    BY DEF TypeOK, Budget, MaxAttempts
  <1>2. \A call \in Fanout(kind) : task[call] = "none"
    BY Disjoint DEF Calls
  <1>3. InfoFirst /\ Opened /\ TrueCause /\ Required /\ Assembled /\ Quiet /\ FirstOver
    BY <1>2 DEF InfoFirst, Opened, TrueCause, Required, Assembled, Quiet, FirstOver, Calls, Whys
  <1>4. QED BY <1>1, <1>3 DEF IInv

LEMMA IInvStep == IInv /\ [Next]_vars => IInv'
  <1> SUFFICES ASSUME IInv, [Next]_vars PROVE IInv'
    OBVIOUS
  <1>1. CASE UNCHANGED vars
    BY <1>1 DEF vars, IInv, TypeOK, Budget, InfoFirst, Opened, TrueCause, Required, Assembled, Quiet,
                FirstOver, Calls, Returned, Over
  <1>2. CASE Step
    BY <1>2, CallStep, RequestStep, AssemblyStep, InterruptStep DEF Step, OfCall, Whys
  <1>3. QED BY <1>1, <1>2 DEF Next, Done

\* The services make their calls, and at most MAX_ATTEMPTS of each.
THEOREM TypeCorrect == Spec => []TypeOK
  <1>1. IInv => TypeOK
    BY DEF IInv
  <1>2. QED BY <1>1, InitIInv, IInvStep, PTL DEF Spec

\* Whatever the upstream answers, and in whatever order the tasks of the scope
\* end or are interrupted: the parts of an answer are what the calls returned,
\* a failure has a true reason (for a 5xx of a join, four attempts), nothing is
\* forked before the room's information is there, and nothing runs on after the
\* request.
THEOREM AnswerSoundHolds == Spec => []AnswerSound
  <1>1. IInv => AnswerSound
    <2> SUFFICES ASSUME IInv PROVE AnswerSound
      OBVIOUS
    <2>1. state = "answered" =>
             /\ \A call \in Calls : Returned(call)
             /\ \A call \in Dereferenced(kind) \cup (Calls \cap NeverNull) : task[call] = "ok"
      BY DEF IInv, Quiet, Required, Returned
    <2>2. state = "failed" =>
             \/ /\ cause \in {"4xx", "5xx", "error"}
                /\ \E call \in Calls \ Optional :
                      /\ task[call] = "failed"
                      /\ Retried(kind) /\ cause = "5xx" => attempts[call] = MaxAttempts
             \/ cause = "request"
             \/ cause = "assembly" /\ TakesApart(kind) /\ \A call \in Calls : Returned(call)
      BY DEF IInv, TypeOK, Quiet, TrueCause, Assembled, Whys
    <2>3. state \in {"answered", "failed"} =>
             \A call \in Calls : task[call] \notin {"calling", "sleeping"}
      BY DEF IInv, Quiet, Returned
    <2>4. QED BY <2>1, <2>2, <2>3 DEF AnswerSound, IInv
  <1>2. QED BY <1>1, InitIInv, IInvStep, PTL DEF Spec
=============================================================================
