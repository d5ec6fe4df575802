------------------------- MODULE CleanupJobsProofs -------------------------
(***************************************************************************)
(* No two processes ever purge for the same job, for any number of         *)
(* processes, jobs, identities, crashes and failing statements.            *)
(*                                                                         *)
(* "A purging process is the one its job's row names" is not inductive by  *)
(* itself: a restart changes the process's identity, so the invariant also *)
(* says that a dead process is in no stage, and that every identity in use *)
(* has been drawn, so that the fresh one differs from all of them.         *)
(***************************************************************************)
EXTENDS CleanupJobs, TLAPS

Identities ==
    /\ \A p \in Procs : id[p] \in drawn
    /\ \A p, q \in Procs : id[p] = id[q] => p = q

DeadAreAsleep == \A p \in Procs, j \in Jobs : p \notin up => at[p][j] = "sleep"

IInv == TypeOK /\ Identities /\ DeadAreAsleep /\ PurgerHoldsRow

\* The initial state satisfies the inductive invariant: every process has its
\* own identity and no job is running.
LEMMA InitIInv == Init => IInv
  BY CleanupAssumption
     DEF Init, IInv, TypeOK, Identities, DeadAreAsleep, PurgerHoldsRow, Stages

\* Every step keeps the variables in their types.
LEMMA TypeStep == TypeOK /\ [Next]_vars => TypeOK'
  <1> SUFFICES ASSUME TypeOK, [Next]_vars PROVE TypeOK'
    OBVIOUS
  <1> USE CleanupAssumption DEF TypeOK, Stages
  <1>1. ASSUME NEW p \in Procs, NEW j \in Jobs, Run(p, j) PROVE TypeOK'
    <2>1. CASE Wake(p, j)          BY <2>1 DEF Wake, Goto
    <2>2. CASE FirstAcquire(p, j)  BY <2>2 DEF FirstAcquire, TryAcquire, Goto
    <2>3. CASE Renew(p, j)         BY <2>3 DEF Renew, Goto
    <2>4. CASE SecondAcquire(p, j) BY <2>4 DEF SecondAcquire, TryAcquire, Goto
    <2>5. CASE Purge(p, j)         BY <2>5 DEF Purge, Goto
    <2>6. QED BY <1>1, <2>1, <2>2, <2>3, <2>4, <2>5 DEF Run
  <1>2. ASSUME NEW p \in Procs, NEW j \in Jobs, SqlFails(p, j) PROVE TypeOK'
    BY <1>2 DEF SqlFails, Goto
  <1>3. ASSUME NEW j \in Jobs, RowsExpire(j) \/ RowsDeleted(j) PROVE TypeOK'
    BY <1>3 DEF RowsExpire, RowsDeleted
  <1>4. ASSUME NEW p \in Procs, Crash(p) PROVE TypeOK'
    BY <1>4 DEF Crash
  <1>5. ASSUME NEW p \in Procs, Restart(p) PROVE TypeOK'
    BY <1>5 DEF Restart
  <1>6. CASE UNCHANGED vars
    BY <1>6 DEF vars
  <1>7. QED BY <1>1, <1>2, <1>3, <1>4, <1>5, <1>6 DEF Next

\* INSERT OR IGNORE: while a process is about to purge, the row names it and
\* is not free, so an insert that succeeds meets no other purging process.
LEMMA AcquireStep ==
  ASSUME IInv, NEW p \in Procs, NEW j \in Jobs,
         NEW onRefusal \in Stages \ {"purge"}, TryAcquire(p, j, onRefusal)
  PROVE  Identities' /\ DeadAreAsleep' /\ PurgerHoldsRow'
  <1> USE DEF IInv, TypeOK, TryAcquire, Goto
  <1>1. Identities'
    BY DEF Identities
  <1>2. DeadAreAsleep'
    BY DEF DeadAreAsleep
  <1>3. ASSUME NEW q \in Procs, NEW k \in Jobs, at'[q][k] = "purge"
        PROVE  row'[k] = id'[q]
    <2>1. CASE row[j] = Free
      <3>1. CASE k = j /\ q = p
        BY <2>1, <3>1
      <3>2. CASE k = j /\ q # p
        <4>1. at[q][j] = "purge"
          BY <1>3, <2>1, <3>2
        <4>2. row[j] = id[q] /\ id[q] \in Ids
          BY <4>1 DEF PurgerHoldsRow
        <4>3. QED BY <2>1, <4>2, CleanupAssumption
      <3>3. CASE k # j
        BY <1>3, <2>1, <3>3 DEF PurgerHoldsRow
      <3>4. QED BY <3>1, <3>2, <3>3
    <2>2. CASE row[j] # Free
      BY <1>3, <2>2 DEF PurgerHoldsRow
    <2>3. QED BY <2>1, <2>2
  <1>4. QED BY <1>1, <1>2, <1>3 DEF PurgerHoldsRow

\* A statement of a job's run keeps the rest of the invariant: the row is
\* written only while it is free, and a refused statement never leads to the
\* purge.
LEMMA RunStep ==
  ASSUME IInv, NEW p \in Procs, NEW j \in Jobs, Run(p, j) \/ SqlFails(p, j)
  PROVE  Identities' /\ DeadAreAsleep' /\ PurgerHoldsRow'
  <1> USE CleanupAssumption DEF IInv, TypeOK, Identities, DeadAreAsleep, PurgerHoldsRow
  <1>1. CASE Wake(p, j)          BY <1>1 DEF Wake, Goto
  <1>2. CASE FirstAcquire(p, j)  BY <1>2, AcquireStep DEF FirstAcquire, Stages
  <1>3. CASE Renew(p, j)         BY <1>3 DEF Renew, Goto
  <1>4. CASE SecondAcquire(p, j) BY <1>4, AcquireStep DEF SecondAcquire, Stages
  <1>5. CASE Purge(p, j)         BY <1>5 DEF Purge, Goto
  <1>6. CASE SqlFails(p, j)      BY <1>6 DEF SqlFails, Goto
  <1>7. QED BY <1>1, <1>2, <1>3, <1>4, <1>5, <1>6 DEF Run

\* A crash puts all jobs of the process to sleep; a restart happens only
\* where all jobs sleep and draws an identity nobody has.
LEMMA EnvironmentStep ==
  ASSUME IInv, NEW p \in Procs, Crash(p) \/ Restart(p)
  PROVE  Identities' /\ DeadAreAsleep' /\ PurgerHoldsRow'
  <1> USE DEF IInv, TypeOK, Identities, DeadAreAsleep, PurgerHoldsRow
  <1>1. CASE Crash(p)   BY <1>1 DEF Crash
  <1>2. CASE Restart(p) BY <1>2 DEF Restart
  <1>3. QED BY <1>1, <1>2

\* The invariant is inductive.
LEMMA IInvStep == IInv /\ [Next]_vars => IInv'
  <1> SUFFICES ASSUME IInv, [Next]_vars
               PROVE  Identities' /\ DeadAreAsleep' /\ PurgerHoldsRow'
    BY TypeStep DEF IInv
  <1>1. ASSUME NEW p \in Procs, NEW j \in Jobs, Run(p, j) \/ SqlFails(p, j)
        PROVE  Identities' /\ DeadAreAsleep' /\ PurgerHoldsRow'
    BY <1>1, RunStep
  <1>2. ASSUME NEW j \in Jobs, RowsExpire(j) \/ RowsDeleted(j)
        PROVE  Identities' /\ DeadAreAsleep' /\ PurgerHoldsRow'
    BY <1>2 DEF RowsExpire, RowsDeleted, IInv, Identities, DeadAreAsleep, PurgerHoldsRow
  <1>3. ASSUME NEW p \in Procs, Crash(p) \/ Restart(p)
        PROVE  Identities' /\ DeadAreAsleep' /\ PurgerHoldsRow'
    BY <1>3, EnvironmentStep
  <1>4. CASE UNCHANGED vars
    BY <1>4 DEF vars, IInv, Identities, DeadAreAsleep, PurgerHoldsRow
  <1>5. QED BY <1>1, <1>2, <1>3, <1>4 DEF Next

\* The specification keeps its type invariant.
THEOREM TypeCorrect == Spec => []TypeOK
  <1>1. Init => TypeOK
    BY InitIInv DEF IInv
  <1>2. QED BY <1>1, TypeStep, PTL DEF Spec

\* A process about to delete rows is the one the job's row names, whatever
\* crashed, restarted or failed before.
THEOREM LeaderHoldsRow == Spec => []PurgerHoldsRow
  <1>1. IInv => PurgerHoldsRow
    BY DEF IInv
  <1>2. QED BY <1>1, InitIInv, IInvStep, PTL DEF Spec

\* No two processes are about to delete rows for the same job.
THEOREM OnlyOnePurger == Spec => []OnePurger
  <1>1. IInv => OnePurger
    BY DEF IInv, Identities, PurgerHoldsRow, OnePurger
  <1>2. QED BY <1>1, InitIInv, IInvStep, PTL DEF Spec
=============================================================================
