---------------------------- MODULE CleanupJobs ----------------------------
(***************************************************************************)
(* Leader election for the scheduled cleanup jobs.                         *)
(*                                                                         *)
(* BFF processes share one SQLite file.  A job (purge ghost publishers,    *)
(* purge profile cache) may delete rows only in the process that holds the *)
(* job's row of table scheduler_lock.  CleanupJobs.ensureLeadership issues *)
(* up to three SQL statements, tryAcquire / renew / tryAcquire, each       *)
(* atomic in SQLite; statements of different processes interleave, and a   *)
(* process may crash between any two of them.  The identity written in the *)
(* row is drawn at random when the JVM loads the class, so a restarted     *)
(* process comes back under an identity it never had before.               *)
(***************************************************************************)
EXTENDS Naturals, FiniteSets

CONSTANTS
    Ids,         \* identities a JVM can draw ("bff-" + 8 random bytes)
    Procs,       \* places a BFF process runs in; a restart reuses the place
    Jobs,        \* names of the locks, one per cleanup job
    Free,        \* "no row": the job's lock has never been inserted
    MaxFailures  \* bound: SQL statements that throw in one behaviour

ASSUME CleanupAssumption ==
    /\ Free \notin Ids
    /\ MaxFailures \in Nat

VARIABLES
    row,       \* scheduler_lock: job -> instance_id of its row, or Free
    id,        \* place -> identity of the JVM now running there
    drawn,     \* identities drawn so far; never drawn again
    up,        \* places whose process is running
    at,        \* place -> job -> the statement the job's run executes next
    stale,     \* jobs whose table holds rows older than the job's TTL
    failures   \* SQL statements that have thrown

vars == <<row, id, drawn, up, at, stale, failures>>

Stages == {"sleep", "acquire", "renew", "retry", "purge"}

Init ==
    /\ row = [j \in Jobs |-> Free]
    /\ id \in [Procs -> Ids]
    /\ \A p, q \in Procs : id[p] = id[q] => p = q
    /\ drawn = {id[p] : p \in Procs}
    /\ up = Procs
    /\ at = [p \in Procs |-> [j \in Jobs |-> "sleep"]]
    /\ stale = {}
    /\ failures = 0

Goto(p, j, stage) == at' = [at EXCEPT ![p][j] = stage]

----------------------------------------------------------------------------
(* One run of a job in one process.                                        *)

\* The @Scheduled tick.  fixedDelay: a job's next run starts only after its
\* previous run in the same process has ended.
Wake(p, j) ==
    /\ p \in up
    /\ at[p][j] = "sleep"
    /\ Goto(p, j, "acquire")
    /\ UNCHANGED <<row, id, drawn, up, stale, failures>>

\* Mutant: the two parameters of the INSERT swapped.
TryAcquireSwapped(p, j, onRefusal) ==
    /\ p \in up
    /\ row[j] = Free
    /\ row' = [row EXCEPT ![j] = j]
    /\ Goto(p, j, "purge")
    /\ UNCHANGED <<id, drawn, up, stale, failures>>

\* INSERT OR IGNORE, then "purge" iff the row was inserted.  The ttl
\* argument does not reach the statement.
TryAcquire(p, j, onRefusal) ==
    /\ p \in up
    /\ IF row[j] = Free
       THEN /\ row' = [row EXCEPT ![j] = id[p]]
            /\ Goto(p, j, "purge")
       ELSE /\ Goto(p, j, onRefusal)
            /\ UNCHANGED row
    /\ UNCHANGED <<id, drawn, up, stale, failures>>

FirstAcquire(p, j) == at[p][j] = "acquire" /\ TryAcquire(p, j, "renew")

\* Mutant: the UPDATE without "AND instance_id = ?".
RenewAnyHolder(p, j) ==
    /\ p \in up
    /\ at[p][j] = "renew"
    /\ Goto(p, j, IF row[j] # Free THEN "purge" ELSE "retry")
    /\ UNCHANGED <<row, id, drawn, up, stale, failures>>

\* Mutant: the update count of the renewal ignored.
RenewNever(p, j) ==
    /\ p \in up
    /\ at[p][j] = "renew"
    /\ Goto(p, j, "retry")
    /\ UNCHANGED <<row, id, drawn, up, stale, failures>>

\* UPDATE ... WHERE name = ? AND instance_id = ?: only acquired_at changes,
\* which no statement of a job's run reads.
Renew(p, j) ==
    /\ p \in up
    /\ at[p][j] = "renew"
    /\ Goto(p, j, IF row[j] = id[p] THEN "purge" ELSE "retry")
    /\ UNCHANGED <<row, id, drawn, up, stale, failures>>

SecondAcquire(p, j) == at[p][j] = "retry" /\ TryAcquire(p, j, "sleep")

\* What SQLite compares: a value's storage class and the instant it stands for.
\* CURRENT_TIMESTAMP is TEXT; sqlite-jdbc's setTimestamp binds an INTEGER.
CurrentTimestamp(instant) == [class |-> "text", instant |-> instant]
SetTimestamp(instant)     == [class |-> "integer", instant |-> instant]

\* "<" of two values: every INTEGER comes before every TEXT.
SqliteLess(x, y) ==
    \/ x.class = "integer" /\ y.class = "text"
    \/ x.class = y.class /\ x.instant < y.instant

\* Instants: a row past its TTL was last touched before the cutoff.
Expired == 0
Cutoff  == 1

\* purgeOlderThan(cutoff): DELETE ... WHERE last_seen < ?
Purge(p, j) ==
    /\ p \in up
    /\ at[p][j] = "purge"
    /\ stale' = IF SqliteLess(CurrentTimestamp(Expired), SetTimestamp(Cutoff))
                THEN stale \ {j} ELSE stale
    /\ Goto(p, j, "sleep")
    /\ UNCHANGED <<row, id, drawn, up, failures>>

\* Any of the statements throws: IllegalStateException ends this run of the
\* job, and the scheduler runs it again after the delay.
SqlFails(p, j) ==
    /\ p \in up
    /\ at[p][j] # "sleep"
    /\ failures < MaxFailures
    /\ failures' = failures + 1
    /\ Goto(p, j, "sleep")
    /\ UNCHANGED <<row, id, drawn, up, stale>>

----------------------------------------------------------------------------
(* The environment.                                                        *)

\* Rows of the job's table pass their TTL.
RowsExpire(j) ==
    /\ stale' = stale \cup {j}
    /\ UNCHANGED <<row, id, drawn, up, at, failures>>

\* A stop() request or a profile read deletes them, or an event touches them.
RowsDeleted(j) ==
    /\ stale' = stale \ {j}
    /\ UNCHANGED <<row, id, drawn, up, at, failures>>

\* The process dies between two statements; its row stays in the database.
Crash(p) ==
    /\ p \in up
    /\ up' = up \ {p}
    /\ at' = [at EXCEPT ![p] = [j \in Jobs |-> "sleep"]]
    /\ UNCHANGED <<row, id, drawn, stale, failures>>

\* A JVM starts in the place of a dead one and draws a fresh identity.
Restart(p) ==
    /\ p \notin up
    /\ \E i \in Ids \ drawn :
          /\ id' = [id EXCEPT ![p] = i]
          /\ drawn' = drawn \cup {i}
    /\ up' = up \cup {p}
    /\ UNCHANGED <<row, at, stale, failures>>

Run(p, j) ==
    \/ Wake(p, j)
    \/ FirstAcquire(p, j)
    \/ Renew(p, j)
    \/ SecondAcquire(p, j)
    \/ Purge(p, j)

Next ==
    \/ \E p \in Procs, j \in Jobs : Run(p, j) \/ SqlFails(p, j)
    \/ \E j \in Jobs : RowsExpire(j) \/ RowsDeleted(j)
    \/ \E p \in Procs : Crash(p) \/ Restart(p)

Spec == Init /\ [][Next]_vars

\* Micronaut's scheduler keeps running every job of a live process.  Crashes,
\* restarts and failing statements are the environment's and are not fair.
Fairness == \A p \in Procs, j \in Jobs : WF_vars(Run(p, j))

FairSpec == Spec /\ Fairness

----------------------------------------------------------------------------
(* Properties.                                                             *)

TypeOK ==
    /\ row \in [Jobs -> Ids \cup {Free}]
    /\ id \in [Procs -> Ids]
    /\ drawn \in SUBSET Ids
    /\ up \in SUBSET Procs
    /\ at \in [Procs -> [Jobs -> Stages]]
    /\ stale \in SUBSET Jobs
    /\ failures \in 0..MaxFailures

\* CleanupJobs: "exactly one of them holds the lock at any moment".  No two
\* processes are about to run the same job's DELETE, however the statements
\* of ensureLeadership interleave and whoever crashes or restarts meanwhile.
OnePurger ==
    \A p, q \in Procs, j \in Jobs :
        at[p][j] = "purge" /\ at[q][j] = "purge" => p = q

\* A process about to purge is the one the row names: a leader that crashed
\* and came back under a new identity has lost its leadership.
PurgerHoldsRow ==
    \A p \in Procs, j \in Jobs : at[p][j] = "purge" => row[j] = id[p]

\* The job's DELETE is issued.
Purging(j) == \E p \in up : at[p][j] = "purge"

\* If from some moment on the process that the job's row names is up, the job's
\* DELETE is issued again and again, however often it was refused or threw.
LiveLeaderPurges ==
    \A j \in Jobs : <>[](\E p \in up : row[j] = id[p]) => []<>Purging(j)

\* CleanupJobs: "A crashed leader's lock expires after 5 minutes, another
\* instance acquires it on the next tryAcquire, and the work resumes": while
\* some process stays up, the job's DELETE is issued again and again.
CrashedLeaderReplaced ==
    \A j \in Jobs : <>[](up # {}) => []<>Purging(j)

\* CleanupJobs: the job "drops ghost publishers whose last_seen is older than
\* 1 hour.  Without this, a ghost publisher who closes their tab without calling
\* /stop would leave a row in the table forever": under a leader that stays up,
\* rows past their TTL are gone in the end.  Broken: README, section 6.
StaleRowsPurged ==
    \A j \in Jobs :
        <>[](\E p \in up : row[j] = id[p]) => [](j \in stale => <>(j \notin stale))
=============================================================================
