------------------------------ MODULE Bundles ------------------------------
(***************************************************************************)
(* The services that answer one request of the frontend with several calls *)
(* to the upstream: RoomJoinService.joinBundle, RoomsSearchService.search, *)
(* ProfileBundleService.bundle (of the caller's own profile or another's)  *)
(* and SignInBundleService.roomLevelBundle, with UpstreamRetry.            *)
(*                                                                         *)
(* Each forks a virtual thread per call in a StructuredTaskScope           *)
(* (external): the first task that throws cancels the scope, which         *)
(* interrupts the others and starts no more; join() then throws that       *)
(* exception, and close() waits for the threads.  If the thread of the     *)
(* request itself is interrupted, join() throws that instead and close()   *)
(* cancels the scope.  Requests share nothing that matters here, so the    *)
(* module is about one.                                                    *)
(***************************************************************************)
EXTENDS Naturals

CONSTANT SearchPages   \* the calls of a search, one for each of its maxPages

\* MAX_ATTEMPTS
MaxAttempts == 4

Kinds == {"join", "search", "own_profile", "other_profile", "room_level"}

\* The call that is made before the others ...
First(k) == IF k = "join" THEN {"room_info"} ELSE {}

\* ... and those that are made at once.
JoinCalls == {"stage", "audience", "comments"}
RoomLevelCalls == {"reward", "config"}
ProfileCalls(own) ==
    {"user_info"} \cup IF own THEN {"stats", "limitations"} ELSE {"pay_chat", "reminder"}

Fanout(k) ==
    CASE k = "join"          -> JoinCalls
      [] k = "search"        -> SearchPages
      [] k = "own_profile"   -> ProfileCalls(TRUE)
      [] k = "other_profile" -> ProfileCalls(FALSE)
      [] k = "room_level"    -> RoomLevelCalls

\* The calls of fetchOrNull().
Optional == {"stats", "limitations", "pay_chat", "reminder"}

\* The call that must have data: requireData().  The others may succeed with
\* none: unwrap() returns the data of the envelope as it is, and
\* fetchUserInfo() a null for a user that the upstream does not list.
NeverNull == {"config"}

\* What is dereferenced after join() ...
Dereferenced(k) == IF k = "join" THEN {"comments"} ELSE IF k = "search" THEN SearchPages ELSE {}

\* ... and the services that take the data apart: the RTC token is decrypted,
\* the rooms are matched.
TakesApart(k) == k \in {"join", "search"}

Retried(k) == k = "join"

VARIABLES
    kind,      \* which service
    state,     \* "first", "forked", "answered" or "failed"
    task,      \* call -> "none", "calling", "sleeping", "ok" (with data), "null",
               \*         "failed" or "unavailable": not started, scope cancelled
    attempts,  \* call -> how often it was made
    cause      \* what makes the request fail: "none", "4xx", "5xx", "error" (no
               \* HTTP status), "interrupted" (a task), "request" (its thread is
               \* interrupted), "assembly" (an exception after join())

vars == <<kind, state, task, attempts, cause>>

Calls == First(kind) \cup Fanout(kind)
Over(call) == task[call] \notin {"none", "calling", "sleeping"}
Returned(call) == task[call] \in {"ok", "null"}

Init ==
    /\ kind \in Kinds
    /\ state = IF First(kind) = {} THEN "forked" ELSE "first"
    /\ task = [call \in Calls |-> IF call \in First(kind) THEN "calling" ELSE "none"]
    /\ attempts = [call \in Calls |-> IF call \in First(kind) THEN 1 ELSE 0]
    /\ cause = "none"

----------------------------------------------------------------------------
(* A task.                                                                 *)

\* scope.fork()
Fork(call) ==
    /\ state = "forked"
    /\ call \in Fanout(kind)
    /\ task[call] = "none"
    /\ IF cause = "none"
       THEN /\ task' = [task EXCEPT ![call] = "calling"]
            /\ attempts' = [attempts EXCEPT ![call] = 1]
       ELSE /\ task' = [task EXCEPT ![call] = "unavailable"]
            /\ UNCHANGED attempts
    /\ UNCHANGED <<kind, state, cause>>

Succeed(call) ==
    /\ task[call] = "calling"
    /\ \/ task' = [task EXCEPT ![call] = "ok"]
       \/ call \notin NeverNull /\ task' = [task EXCEPT ![call] = "null"]
    /\ UNCHANGED <<kind, state, attempts, cause>>

\* The task throws, unless fetchOrNull() makes a null of it.  The scope keeps
\* the first exception.
EndsBadly(call, why) ==
    IF call \in Optional
    THEN task' = [task EXCEPT ![call] = "null"] /\ UNCHANGED cause
    ELSE /\ task' = [task EXCEPT ![call] = "failed"]
         /\ cause' = IF cause = "none" THEN why ELSE cause

\* Mutant: one attempt too many.
RetriesLonger(call, why) == Retried(kind) /\ why = "5xx" /\ attempts[call] <= MaxAttempts

\* withRetry(): "never retries a 4xx".
Retries(call, why) == Retried(kind) /\ why = "5xx" /\ attempts[call] < MaxAttempts

\* The call fails and is given up.
GiveUp(call, why) ==
    /\ task[call] = "calling"
    /\ ~Retries(call, why)
    /\ EndsBadly(call, why)
    /\ UNCHANGED <<kind, state, attempts>>

\* The call fails and will be made again after DELAY_MS ...
Backoff(call, why) ==
    /\ task[call] = "calling"
    /\ Retries(call, why)
    /\ task' = [task EXCEPT ![call] = "sleeping"]
    /\ UNCHANGED <<kind, state, attempts, cause>>

\* Mutant: the attempts are not counted.
AgainUncounted(call) ==
    /\ task[call] = "sleeping"
    /\ task' = [task EXCEPT ![call] = "calling"]
    /\ UNCHANGED <<kind, state, attempts, cause>>

\* ... now.
Again(call) ==
    /\ task[call] = "sleeping"
    /\ task' = [task EXCEPT ![call] = "calling"]
    /\ attempts' = [attempts EXCEPT ![call] = @ + 1]
    /\ UNCHANGED <<kind, state, cause>>

\* The scope was cancelled: a call or a Thread.sleep() is interrupted.
Interrupt(call) ==
    /\ call \in Fanout(kind)
    /\ cause # "none"
    /\ task[call] \in {"calling", "sleeping"}
    /\ EndsBadly(call, "interrupted")
    /\ UNCHANGED <<kind, state, attempts>>

----------------------------------------------------------------------------
(* The thread of the request.                                              *)

\* The room's information has come, and the scope is opened ...
OpenScope ==
    /\ state = "first"
    /\ \A call \in First(kind) : Returned(call)
    /\ state' = "forked"
    /\ UNCHANGED <<kind, task, attempts, cause>>

\* ... or has not.
FirstFails ==
    /\ state = "first"
    /\ cause # "none"
    /\ state' = "failed"
    /\ UNCHANGED <<kind, task, attempts, cause>>

\* The thread of the request is interrupted, in the first call or in join().
InterruptRequest ==
    /\ cause # "request"
    /\ cause' = "request"
    /\ \/ /\ state = "first"
          /\ \E call \in First(kind) :
                ~Over(call) /\ task' = [task EXCEPT ![call] = "failed"]
       \/ /\ state = "forked"
          /\ \A call \in Calls : task[call] # "none"
          /\ UNCHANGED task
    /\ UNCHANGED <<kind, state, attempts>>

\* join() has returned, as all tasks have succeeded, and so has everything after.
Answer ==
    /\ state = "forked"
    /\ cause = "none"
    /\ \A call \in Calls : Returned(call)
    /\ \A call \in Dereferenced(kind) : task[call] = "ok"
    /\ state' = "answered"
    /\ UNCHANGED <<kind, task, attempts, cause>>

\* What comes after join() throws: on a null, or on data it cannot take apart.
AssemblyFails ==
    /\ state = "forked"
    /\ cause = "none"
    /\ \A call \in Calls : Returned(call)
    /\ TakesApart(kind)
    /\ state' = "failed"
    /\ cause' = "assembly"
    /\ UNCHANGED <<kind, task, attempts>>

\* Mutant: the exception is passed on while tasks are running.
FailEarly ==
    /\ state = "forked"
    /\ cause # "none"
    /\ state' = "failed"
    /\ UNCHANGED <<kind, task, attempts, cause>>

\* join() throws, and close() has waited for the tasks.
Fail ==
    /\ state = "forked"
    /\ cause # "none"
    /\ \A call \in Calls : Over(call)
    /\ state' = "failed"
    /\ UNCHANGED <<kind, task, attempts, cause>>

Step ==
    \/ \E call \in Calls :
          \/ Fork(call) \/ Succeed(call) \/ Again(call) \/ Interrupt(call)
          \/ \E why \in {"4xx", "5xx", "error"} : GiveUp(call, why) \/ Backoff(call, why)
    \/ OpenScope \/ FirstFails \/ InterruptRequest \/ Answer \/ AssemblyFails \/ Fail

\* A request that has its answer is done.
Done == state \in {"answered", "failed"} /\ UNCHANGED vars

Next == Step \/ Done

Spec == Init /\ [][Next]_vars

\* Threads run, sleeps end, and the HTTP client's read timeout ends every call.
FairSpec == Spec /\ WF_vars(Step)

----------------------------------------------------------------------------
(* Properties.                                                             *)

TypeOK ==
    /\ kind \in Kinds
    /\ state \in {"first", "forked", "answered", "failed"}
    /\ task \in [Calls -> {"none", "calling", "sleeping", "ok", "null", "failed", "unavailable"}]
    /\ attempts \in [Calls -> 0..MaxAttempts]
    /\ cause \in {"none", "4xx", "5xx", "error", "interrupted", "request", "assembly"}

\* "voice_room_info ... already completed for this room/session before stage/list
\* et al.": nothing is forked for a room whose information has not come.
InfoFirst ==
    \A call \in Fanout(kind) :
        task[call] # "none" => \A first \in First(kind) : Returned(first)

\* Every part of an answer is what its call returned, or null for an optional
\* call that failed; what the service dereferences is there.  A failure has a
\* true reason: a required call that failed by itself (a 5xx of a join, four
\* times), never one that was only interrupted by the failure of another; the
\* interruption of the request; or data that could not be taken apart, with all
\* calls returned.  Nothing runs on behind an answer or a failure.
AnswerSound ==
    /\ InfoFirst
    /\ state = "answered" =>
           /\ \A call \in Calls : Returned(call)
           /\ \A call \in Dereferenced(kind) \cup (Calls \cap NeverNull) : task[call] = "ok"
    /\ state = "failed" =>
           \/ /\ cause \in {"4xx", "5xx", "error"}
              /\ \E call \in Calls \ Optional :
                    /\ task[call] = "failed"
                    /\ Retried(kind) /\ cause = "5xx" => attempts[call] = MaxAttempts
           \/ cause = "request"
           \/ cause = "assembly" /\ TakesApart(kind) /\ \A call \in Calls : Returned(call)
    /\ state \in {"answered", "failed"} =>
           \A call \in Calls : task[call] \notin {"calling", "sleeping"}

\* Every request gets an answer or fails, whatever the upstream does.
RequestEnds == <>(state \in {"answered", "failed"})
=============================================================================
