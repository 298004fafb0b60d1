-------------------------- MODULE OrderQueueProofs --------------------------
(***************************************************************************)
(* Proofs about OrderQueue, for every set of runs and orders, every number *)
(* of delegations and every staleness threshold.                           *)
(***************************************************************************)
EXTENDS OrderQueue, FiniteSetTheorems, TLAPS

\* The stamp a newly queued order gets is a number.
LEMMA NextStampType == NextStamp \in Nat
<1>1. IsFiniteSet({p \in Orders : stamp[p] > 0})
  BY QueueConstants, FS_Subset
<1>2. Cardinality({p \in Orders : stamp[p] > 0}) \in Nat
  BY <1>1, FS_CardinalityType
<1> QED
  BY <1>2 DEF NextStamp

\* The initial states have the right types.
LEMMA InitType == Init => TypeInv
BY QueueConstants DEF Init, TypeInv, TypeOK, RunsCarryOrders, Stages

\* A bootstrap step keeps the types: in particular a run that files an order
\* files a real one, the one its environment or createOrderId gave it.
LEMMA BootstrapType ==
  ASSUME TypeInv, NEW r \in Runs, Bootstrap(r)
  PROVE  TypeInv'
<1> USE DEF TypeInv, TypeOK, RunsCarryOrders, Goto, Stages, Section, Holding,
            Working, Finished
<1>1. CASE CheckLock(r)
  BY <1>1 DEF CheckLock
<1>2. CASE ReadLock(r)
  BY <1>2 DEF ReadLock
<1>3. CASE StatVanishes(r)
  BY <1>3 DEF StatVanishes
<1>4. CASE StatStale(r)
  BY <1>4 DEF StatStale
<1>5. CASE StatActive(r)
  <2>1. stamp' \in [Orders -> Nat]
    BY <1>5, NextStampType DEF StatActive
  <2> QED
    BY <1>5, <2>1 DEF StatActive
<1>6. CASE TakeOver(r)
  BY <1>6 DEF TakeOver
<1>7. CASE Purge(r)
  BY <1>7 DEF Purge
<1>8. CASE WriteLock(r)
  BY <1>8 DEF WriteLock
<1>9. CASE Enqueue(r)
  BY <1>9 DEF Enqueue
<1>10. CASE Position(r)
  BY <1>10 DEF Position
<1> QED
  BY <1>1, <1>2, <1>3, <1>4, <1>5, <1>6, <1>7, <1>8, <1>9, <1>10 DEF Bootstrap

\* A step of a run at work keeps the types.
LEMMA ProgressType ==
  ASSUME TypeInv, NEW r \in Runs, Progress(r)
  PROVE  TypeInv'
<1> USE DEF TypeInv, TypeOK, RunsCarryOrders, Goto, Stages, Section, Holding,
            Working, Finished
<1>1. CASE Delegate(r)
  <2>1. delegations' \in [Runs -> 0 .. MaxDelegations]
    BY <1>1, QueueConstants DEF Delegate
  <2> QED
    BY <1>1, <2>1 DEF Delegate
<1>2. CASE Resume(r)
  BY <1>2 DEF Resume
<1>3. CASE Report(r)
  BY <1>3 DEF Report
<1> QED
  BY <1>1, <1>2, <1>3 DEF Progress

\* A release step keeps the types: the child is given a real order.
LEMMA ReleaseType ==
  ASSUME TypeInv, NEW r \in Runs, Release(r)
  PROVE  TypeInv'
<1> USE DEF TypeInv, TypeOK, RunsCarryOrders, Goto, Stages, Section, Holding,
            Working, Finished
<1>1. CASE CheckOwner(r)
  BY <1>1 DEF CheckOwner
<1>2. CASE Unlink(r)
  BY <1>2 DEF Unlink
<1>3. CASE ListEmpty(r)
  BY <1>3 DEF ListEmpty
<1>4. CASE ListNext(r)
  <2>1. PICK o \in Orders : target' = [target EXCEPT ![r] = o]
    BY <1>4 DEF ListNext
  <2> QED
    BY <1>4, <2>1 DEF ListNext
<1>5. CASE Dequeue(r)
  BY <1>5 DEF Dequeue
<1>6. CASE Reap(r)
  BY <1>6 DEF Reap
<1>7. ASSUME NEW c \in Runs, Spawn(r, c) PROVE TypeInv'
  <2>1. r # c /\ pc' = [pc EXCEPT ![r] = "wait", ![c] = "check"]
    BY <1>7 DEF Spawn
  <2>2. target[r] \in Orders
    BY <1>7 DEF Spawn
  <2> QED
    BY <1>7, <2>1, <2>2 DEF Spawn
<1> QED
  BY <1>1, <1>2, <1>3, <1>4, <1>5, <1>6, <1>7 DEF Release

\* A fault keeps the types.
LEMMA FaultType ==
  ASSUME TypeInv, NEW r \in Runs, Fault(r)
  PROVE  TypeInv'
<1> USE DEF TypeInv, TypeOK, RunsCarryOrders, Goto, Stages, Section, Holding,
            Working, Finished
<1>1. CASE ReportThrows(r)
  BY <1>1 DEF ReportThrows
<1>2. CASE PhaseThrows(r)
  BY <1>2 DEF PhaseThrows
<1>3. CASE Interrupt(r)
  BY <1>3 DEF Interrupt
<1>4. CASE Kill(r)
  BY <1>4 DEF Kill, Live
<1>5. CASE SpawnFails(r)
  BY <1>5 DEF SpawnFails
<1> QED
  BY <1>1, <1>2, <1>3, <1>4, <1>5 DEF Fault

\* Every step keeps the types.
LEMMA NextType == TypeInv /\ [Next]_vars => TypeInv'
<1> SUFFICES ASSUME TypeInv, [Next]_vars PROVE TypeInv'
  OBVIOUS
<1>1. CASE UNCHANGED vars
  BY <1>1 DEF vars, TypeInv, TypeOK, RunsCarryOrders
<1>2. CASE Tick
  BY <1>2 DEF Tick, TypeInv, TypeOK, RunsCarryOrders
<1>3. ASSUME NEW r \in Runs, NEW o \in Orders, Submit(r, o) PROVE TypeInv'
  BY <1>3 DEF Submit, Goto, TypeInv, TypeOK, RunsCarryOrders, Stages
<1>4. ASSUME NEW r \in Runs, Beat(r) PROVE TypeInv'
  BY <1>4 DEF Beat, TypeInv, TypeOK, RunsCarryOrders
<1> QED
  BY <1>1, <1>2, <1>3, <1>4, BootstrapType, ProgressType, ReleaseType,
     FaultType DEF Next

\* In every reachable state each variable has its type, whatever the
\* environment does.
THEOREM TypeCorrect == Spec => []TypeOK
<1>1. TypeInv => TypeOK
  BY DEF TypeInv
<1> QED
  BY <1>1, InitType, NextType, PTL DEF Spec

-----------------------------------------------------------------------------
(* A lock is left behind only by a run that died.                          *)

\* A bootstrap step leaves no lock of a run that does not hold it.
LEMMA BootstrapLeak ==
  ASSUME TypeOK, NoLeakedLock, NEW r \in Runs, Bootstrap(r)
  PROVE  NoLeakedLock'
<1> USE DEF TypeOK, NoLeakedLock, Goto, Stages, Section, Holding,
            Working, Finished
<1>1. CASE CheckLock(r)
  BY <1>1 DEF CheckLock
<1>2. CASE ReadLock(r)
  BY <1>2 DEF ReadLock
<1>3. CASE StatVanishes(r)
  BY <1>3 DEF StatVanishes
<1>4. CASE StatStale(r)
  BY <1>4 DEF StatStale
<1>5. CASE StatActive(r)
  BY <1>5 DEF StatActive
<1>6. CASE TakeOver(r)
  BY <1>6, QueueConstants DEF TakeOver
<1>7. CASE Purge(r)
  BY <1>7 DEF Purge
<1>8. CASE WriteLock(r)
  BY <1>8 DEF WriteLock
<1>9. CASE Enqueue(r)
  BY <1>9 DEF Enqueue
<1>10. CASE Position(r)
  BY <1>10 DEF Position
<1> QED
  BY <1>1, <1>2, <1>3, <1>4, <1>5, <1>6, <1>7, <1>8, <1>9, <1>10 DEF Bootstrap

\* A working step leaves no lock of a run that does not hold it.
LEMMA ProgressLeak ==
  ASSUME TypeOK, NoLeakedLock, NEW r \in Runs, Progress(r)
  PROVE  NoLeakedLock'
<1> USE DEF TypeOK, NoLeakedLock, Goto, Stages, Section, Holding,
            Working, Finished
<1>1. CASE Delegate(r)
  BY <1>1 DEF Delegate
<1>2. CASE Resume(r)
  BY <1>2 DEF Resume
<1>3. CASE Report(r)
  BY <1>3 DEF Report
<1> QED
  BY <1>1, <1>2, <1>3 DEF Progress

\* A releasing step leaves no lock of a run that does not hold it.
LEMMA ReleaseLeak ==
  ASSUME TypeOK, NoLeakedLock, NEW r \in Runs, Release(r)
  PROVE  NoLeakedLock'
<1> USE DEF TypeOK, NoLeakedLock, Goto, Stages, Section, Holding,
            Working, Finished
<1>1. CASE CheckOwner(r)
  BY <1>1 DEF CheckOwner
<1>2. CASE Unlink(r)
  BY <1>2, QueueConstants DEF Unlink
<1>3. CASE ListEmpty(r)
  BY <1>3 DEF ListEmpty
<1>4. CASE ListNext(r)
  BY <1>4 DEF ListNext
<1>5. CASE Dequeue(r)
  BY <1>5 DEF Dequeue
<1>6. CASE Reap(r)
  BY <1>6 DEF Reap
<1>7. ASSUME NEW c \in Runs, Spawn(r, c) PROVE NoLeakedLock'
  <2>1. r # c /\ pc' = [pc EXCEPT ![r] = "wait", ![c] = "check"]
    BY <1>7 DEF Spawn
  <2> QED
    BY <1>7, <2>1 DEF Spawn
<1> QED
  BY <1>1, <1>2, <1>3, <1>4, <1>5, <1>6, <1>7 DEF Release

\* A dying step leaves no lock of a run that does not hold it.
LEMMA FaultLeak ==
  ASSUME TypeOK, NoLeakedLock, NEW r \in Runs, Fault(r)
  PROVE  NoLeakedLock'
<1> USE DEF TypeOK, NoLeakedLock, Goto, Stages, Section, Holding,
            Working, Finished
<1>1. CASE ReportThrows(r)
  BY <1>1 DEF ReportThrows
<1>2. CASE PhaseThrows(r)
  BY <1>2 DEF PhaseThrows
<1>3. CASE Interrupt(r)
  BY <1>3, QueueConstants DEF Interrupt
<1>4. CASE Kill(r)
  BY <1>4 DEF Kill, Live
<1>5. CASE SpawnFails(r)
  BY <1>5 DEF SpawnFails
<1> QED
  BY <1>1, <1>2, <1>3, <1>4, <1>5 DEF Fault

\* No step leaves a lock of a run that does not hold it.
LEMMA NextLeak == TypeOK /\ NoLeakedLock /\ [Next]_vars => NoLeakedLock'
<1> SUFFICES ASSUME TypeOK, NoLeakedLock, [Next]_vars PROVE NoLeakedLock'
  OBVIOUS
<1>1. CASE UNCHANGED vars
  BY <1>1 DEF vars, NoLeakedLock
<1>2. CASE Tick
  BY <1>2 DEF Tick, NoLeakedLock
<1>3. ASSUME NEW r \in Runs, NEW o \in Orders, Submit(r, o) PROVE NoLeakedLock'
  BY <1>3 DEF Submit, Goto, NoLeakedLock, TypeOK, Holding, Working
<1>4. ASSUME NEW r \in Runs, Beat(r) PROVE NoLeakedLock'
  BY <1>4 DEF Beat, NoLeakedLock
<1> QED
  BY <1>1, <1>2, <1>3, <1>4, BootstrapLeak, ProgressLeak, ReleaseLeak,
     FaultLeak DEF Next

\* Whatever the environment does, a lock file names a run that holds it or a
\* run that died: every orderly return leaves it to nobody.
THEOREM NoLockIsLeaked == Spec => []NoLeakedLock
<1>1. Init => NoLeakedLock
  BY QueueConstants DEF Init, NoLeakedLock
<1> QED
  BY <1>1, NextLeak, TypeCorrect, PTL DEF Spec

-----------------------------------------------------------------------------
(* Mutual exclusion, when sections do not interleave and no heartbeat is    *)
(* missed.                                                                  *)

\* A bootstrap step keeps the lock of the working run in the file and fresh.
LEMMA BootstrapLock ==
  ASSUME LockInv, "race" \notin Adversity, NEW r \in Runs, Bootstrap(r)
  PROVE  LockCore'
<1> USE DEF TypeOK, NoLeakedLock, HeldLockIsFresh, SectionAlone, KnowsLock,
            LockCore, LockInv, Goto, Stages, Section, Holding,
            Working, Finished, Quiet
<1>1. CASE CheckLock(r)
  BY <1>1 DEF CheckLock
<1>2. CASE ReadLock(r)
  BY <1>2 DEF ReadLock
<1>3. CASE StatVanishes(r)
  BY <1>3 DEF StatVanishes
<1>4. CASE StatStale(r)
  BY <1>4 DEF StatStale
<1>5. CASE StatActive(r)
  BY <1>5 DEF StatActive
<1>6. CASE TakeOver(r)
  BY <1>6, QueueConstants DEF TakeOver
<1>7. CASE Purge(r)
  BY <1>7 DEF Purge
<1>8. CASE WriteLock(r)
  BY <1>8, QueueConstants DEF WriteLock
<1>9. CASE Enqueue(r)
  BY <1>9 DEF Enqueue
<1>10. CASE Position(r)
  BY <1>10 DEF Position
<1> QED
  BY <1>1, <1>2, <1>3, <1>4, <1>5, <1>6, <1>7, <1>8, <1>9, <1>10 DEF Bootstrap

\* A working step keeps the lock of the working run in the file and fresh.
LEMMA ProgressLock ==
  ASSUME LockInv, NEW r \in Runs, Progress(r)
  PROVE  LockCore'
<1> USE DEF TypeOK, NoLeakedLock, HeldLockIsFresh, SectionAlone, KnowsLock,
            LockCore, LockInv, Goto, Stages, Section, Holding,
            Working, Finished, Quiet
<1>1. CASE Delegate(r)
  BY <1>1 DEF Delegate
<1>2. CASE Resume(r)
  BY <1>2 DEF Resume
<1>3. CASE Report(r)
  BY <1>3 DEF Report
<1> QED
  BY <1>1, <1>2, <1>3 DEF Progress

\* A releasing step keeps the lock of the working run in the file and fresh.
LEMMA ReleaseLock ==
  ASSUME LockInv, "race" \notin Adversity, NEW r \in Runs, Release(r)
  PROVE  LockCore'
<1> USE DEF TypeOK, NoLeakedLock, HeldLockIsFresh, SectionAlone, KnowsLock,
            LockCore, LockInv, Goto, Stages, Section, Holding,
            Working, Finished, Quiet
<1>1. CASE CheckOwner(r)
  BY <1>1 DEF CheckOwner
<1>2. CASE Unlink(r)
  BY <1>2 DEF Unlink
<1>3. CASE ListEmpty(r)
  BY <1>3 DEF ListEmpty
<1>4. CASE ListNext(r)
  BY <1>4 DEF ListNext
<1>5. CASE Dequeue(r)
  BY <1>5 DEF Dequeue
<1>6. CASE Reap(r)
  BY <1>6 DEF Reap
<1>7. ASSUME NEW c \in Runs, Spawn(r, c) PROVE LockCore'
  <2>1. r # c /\ pc' = [pc EXCEPT ![r] = "wait", ![c] = "check"]
    BY <1>7 DEF Spawn
  <2> QED
    BY <1>7, <2>1 DEF Spawn
<1> QED
  BY <1>1, <1>2, <1>3, <1>4, <1>5, <1>6, <1>7 DEF Release

\* A dying step keeps the lock of the working run in the file and fresh.
LEMMA FaultLock ==
  ASSUME LockInv, NEW r \in Runs, Fault(r)
  PROVE  LockCore'
<1> USE DEF TypeOK, NoLeakedLock, HeldLockIsFresh, SectionAlone, KnowsLock,
            LockCore, LockInv, Goto, Stages, Section, Holding,
            Working, Finished, Quiet
<1>1. CASE ReportThrows(r)
  BY <1>1 DEF ReportThrows
<1>2. CASE PhaseThrows(r)
  BY <1>2 DEF PhaseThrows
<1>3. CASE Interrupt(r)
  BY <1>3, QueueConstants DEF Interrupt
<1>4. CASE Kill(r)
  BY <1>4 DEF Kill, Live
<1>5. CASE SpawnFails(r)
  BY <1>5 DEF SpawnFails
<1> QED
  BY <1>1, <1>2, <1>3, <1>4, <1>5 DEF Fault

\* Every step keeps the lock of the working run in the file and fresh.
LEMMA NextLock ==
  ASSUME "race" \notin Adversity, "starve" \notin Adversity
  PROVE  LockInv /\ TypeOK' /\ NoLeakedLock' /\ [Next]_vars => LockInv'
<1> SUFFICES ASSUME LockInv, TypeOK', NoLeakedLock', [Next]_vars
             PROVE  LockCore'
  BY DEF LockInv
<1> USE DEF LockInv, LockCore, TypeOK, HeldLockIsFresh, SectionAlone, KnowsLock
<1>1. CASE UNCHANGED vars
  BY <1>1 DEF vars
<1>2. CASE Tick
  BY <1>2, QueueConstants DEF Tick, Holding, Working
<1>3. ASSUME NEW r \in Runs, NEW o \in Orders, Submit(r, o) PROVE LockCore'
  BY <1>3 DEF Submit, Goto, Section, Holding, Working
<1>4. ASSUME NEW r \in Runs, Beat(r) PROVE LockCore'
  BY <1>4, QueueConstants DEF Beat, Holding
<1> QED
  BY <1>1, <1>2, <1>3, <1>4, BootstrapLock, ProgressLock, ReleaseLock,
     FaultLock DEF Next

\* When sections do not interleave and no heartbeat is missed, the lock of a
\* run that works is in the file and fresh, whoever is killed and whenever.
THEOREM LockIsKept ==
  ASSUME "race" \notin Adversity, "starve" \notin Adversity
  PROVE  Spec => []LockInv
<1>1. Init => LockInv
  BY QueueConstants, InitType DEF Init, LockInv, LockCore, TypeInv, NoLeakedLock,
     HeldLockIsFresh, SectionAlone, KnowsLock, Section, Holding, Working
<1> QED
  BY <1>1, NextLock, TypeCorrect, NoLockIsLeaked, PTL DEF Spec

\* While a run works, running.lock names it and has never gone stale, whoever
\* else bootstraps, releases or dies: the premise of judging a lock by its mtime.
THEOREM HeldLockStaysFresh ==
  ASSUME "race" \notin Adversity, "starve" \notin Adversity
  PROVE  Spec => []HeldLockIsFresh
<1>1. LockInv => HeldLockIsFresh
  BY DEF LockInv, LockCore
<1> QED
  BY <1>1, LockIsKept, PTL

\* Two runs never work on the repositories at once, as long as sections do not
\* interleave and no heartbeat is missed: killed runs, phases that throw and
\* lost telemetry do not break the purpose of the lock.
THEOREM OneRunWorks ==
  ASSUME "race" \notin Adversity, "starve" \notin Adversity
  PROVE  Spec => []MutualExclusion
<1>1. LockInv => MutualExclusion
  BY DEF LockInv, LockCore, HeldLockIsFresh, MutualExclusion, Holding
<1> QED
  BY <1>1, LockIsKept, PTL

\* The steps that leave running.lock alone do not remove it.
LEMMA LockUntouched ==
  ASSUME lockOwner' = lockOwner
  PROVE  RemovedByRight
BY DEF RemovedByRight

\* The lock of a run that works is never removed by another run: a removal is
\* the owner's release, the owner's interrupt hook, or a takeover when stale.
THEOREM LockOnlyRemovedByRight ==
  ASSUME "race" \notin Adversity, "starve" \notin Adversity
  PROVE  Spec => LockRemovedByRight
<1>1. LockInv /\ [Next]_vars => [RemovedByRight]_vars
  <2> SUFFICES ASSUME LockInv, Next PROVE RemovedByRight
    BY DEF vars
  <2>1. ASSUME NEW r \in Runs, Bootstrap(r) PROVE RemovedByRight
    <3>1. CASE TakeOver(r)
      BY <3>1 DEF TakeOver, RemovedByRight, LockInv, LockCore, KnowsLock
    <3>2. CASE WriteLock(r)
      BY <3>2, QueueConstants DEF WriteLock, RemovedByRight
    <3>3. CASE ~TakeOver(r) /\ ~WriteLock(r)
      BY <2>1, <3>3, LockUntouched
      DEF Bootstrap, CheckLock, ReadLock, StatVanishes, StatStale, StatActive,
          Purge, Enqueue, Position
    <3> QED
      BY <3>1, <3>2, <3>3
  <2>2. ASSUME NEW r \in Runs, Release(r) PROVE RemovedByRight
    <3>1. CASE Unlink(r)
      BY <3>1 DEF Unlink, Goto, RemovedByRight, LockInv, LockCore, TypeOK,
                  HeldLockIsFresh, Holding
    <3>2. CASE ~Unlink(r)
      BY <2>2, <3>2, LockUntouched
      DEF Release, CheckOwner, ListEmpty, ListNext, Dequeue, Reap, Spawn
    <3> QED
      BY <3>1, <3>2
  <2>3. ASSUME NEW r \in Runs, Fault(r) PROVE RemovedByRight
    <3>1. CASE Interrupt(r)
      BY <3>1 DEF Interrupt, Goto, RemovedByRight, LockInv, TypeOK
    <3>2. CASE ~Interrupt(r)
      BY <2>3, <3>2, LockUntouched
      DEF Fault, ReportThrows, PhaseThrows, Kill, SpawnFails
    <3> QED
      BY <3>1, <3>2
  <2>4. ASSUME NEW r \in Runs, Progress(r) PROVE RemovedByRight
    BY <2>4, LockUntouched DEF Progress, Delegate, Resume, Report
  <2>5. CASE Tick
    BY <2>5, LockUntouched DEF Tick
  <2>6. ASSUME NEW r \in Runs, NEW o \in Orders, Submit(r, o)
        PROVE  RemovedByRight
    BY <2>6, LockUntouched DEF Submit
  <2>7. ASSUME NEW r \in Runs, Beat(r) PROVE RemovedByRight
    BY <2>7, LockUntouched DEF Beat
  <2> QED
    BY <2>1, <2>2, <2>3, <2>4, <2>5, <2>6, <2>7 DEF Next
<1> QED
  BY <1>1, LockIsKept, PTL DEF Spec, LockRemovedByRight

-----------------------------------------------------------------------------
(* Sections, when they do not interleave.                                  *)

\* A bootstrap step enters its section alone.
LEMMA BootstrapAlone ==
  ASSUME TypeOK, SectionAlone, "race" \notin Adversity, NEW r \in Runs, Bootstrap(r)
  PROVE  SectionAlone'
<1> USE DEF TypeOK, SectionAlone, Goto, Section, Holding, Working, Finished, Quiet
<1>1. CASE CheckLock(r)
  BY <1>1 DEF CheckLock
<1>2. CASE ReadLock(r)
  BY <1>2 DEF ReadLock
<1>3. CASE StatVanishes(r)
  BY <1>3 DEF StatVanishes
<1>4. CASE StatStale(r)
  BY <1>4 DEF StatStale
<1>5. CASE StatActive(r)
  BY <1>5 DEF StatActive
<1>6. CASE TakeOver(r)
  BY <1>6, QueueConstants DEF TakeOver
<1>7. CASE Purge(r)
  BY <1>7 DEF Purge
<1>8. CASE WriteLock(r)
  BY <1>8, QueueConstants DEF WriteLock
<1>9. CASE Enqueue(r)
  BY <1>9 DEF Enqueue
<1>10. CASE Position(r)
  BY <1>10 DEF Position
<1> QED
  BY <1>1, <1>2, <1>3, <1>4, <1>5, <1>6, <1>7, <1>8, <1>9, <1>10 DEF Bootstrap

\* A releasing step enters its section alone.
LEMMA ReleaseAlone ==
  ASSUME TypeOK, SectionAlone, "race" \notin Adversity, NEW r \in Runs, Release(r)
  PROVE  SectionAlone'
<1> USE DEF TypeOK, SectionAlone, Goto, Section, Holding, Working, Finished, Quiet
<1>1. CASE CheckOwner(r)
  BY <1>1 DEF CheckOwner
<1>2. CASE Unlink(r)
  BY <1>2, QueueConstants DEF Unlink
<1>3. CASE ListEmpty(r)
  BY <1>3 DEF ListEmpty
<1>4. CASE ListNext(r)
  BY <1>4 DEF ListNext
<1>5. CASE Dequeue(r)
  BY <1>5 DEF Dequeue
<1>6. CASE Reap(r)
  BY <1>6 DEF Reap
<1>7. ASSUME NEW c \in Runs, Spawn(r, c) PROVE SectionAlone'
  <2>1. r # c /\ pc' = [pc EXCEPT ![r] = "wait", ![c] = "check"]
    BY <1>7 DEF Spawn
  <2> QED
    BY <1>7, <2>1 DEF Spawn
<1> QED
  BY <1>1, <1>2, <1>3, <1>4, <1>5, <1>6, <1>7 DEF Release

\* Whatever the environment does, sections that do not interleave stay so.
LEMMA NextAlone ==
  ASSUME TypeOK, SectionAlone, "race" \notin Adversity, [Next]_vars
  PROVE  SectionAlone'
<1> USE DEF TypeOK, SectionAlone, Goto, Section, Holding, Working, Finished
<1>1. CASE UNCHANGED vars
  BY <1>1 DEF vars
<1>2. CASE Tick
  BY <1>2 DEF Tick
<1>3. ASSUME NEW r \in Runs, NEW o \in Orders, Submit(r, o) PROVE SectionAlone'
  BY <1>3 DEF Submit
<1>4. ASSUME NEW r \in Runs, Beat(r) PROVE SectionAlone'
  BY <1>4 DEF Beat
<1>5. ASSUME NEW r \in Runs, Progress(r) PROVE SectionAlone'
  BY <1>5 DEF Progress, Delegate, Resume, Report
<1>6. ASSUME NEW r \in Runs, Fault(r) PROVE SectionAlone'
  BY <1>6 DEF Fault, ReportThrows, PhaseThrows, Interrupt, Kill, SpawnFails
<1> QED
  BY <1>1, <1>2, <1>3, <1>4, <1>5, <1>6, BootstrapAlone, ReleaseAlone DEF Next

-----------------------------------------------------------------------------
(* No orphans, when sections do not interleave and nobody dies: heartbeats  *)
(* may be missed, and locks taken over from runs that still work.           *)

\* The lock file names a run that is alive and will release it.
OwnerHolds == lockOwner # NoRun => pc[lockOwner] \in Holding

\* A run that files its order, or judges a lock stale, has a lock to judge.
SeesLock ==
  \A r \in Runs : pc[r] \in {"takeover", "enqueue", "position"} => lockOwner # NoRun

\* Without a lock, somebody is on the way between two holders of it.
HandedOver ==
  queue # {} /\ lockOwner = NoRun =>
    \E r \in Runs : pc[r] \in {"list", "dequeue", "spawn", "check", "write", "purge"}

\* The run whose lock was taken over is still at work while the queue is purged.
PurgeIsSeen ==
  \A r \in Runs : pc[r] = "purge" => \E q \in Runs : pc[q] \in Working \cup {"release"}

OrphanCore == SectionAlone /\ OwnerHolds /\ SeesLock /\ HandedOver /\ PurgeIsSeen
OrphanInv == TypeInv /\ OrphanCore

\* A bootstrap step keeps the queue in somebody's care.
LEMMA BootstrapOrphan ==
  ASSUME OrphanInv, "race" \notin Adversity, NEW r \in Runs, Bootstrap(r)
  PROVE  OrphanCore'
<1> USE DEF TypeInv, TypeOK, OrphanCore, OrphanInv, SectionAlone, OwnerHolds, SeesLock, HandedOver,
            PurgeIsSeen, Goto, Section, Holding, Working, Finished, Quiet
<1>1. CASE CheckLock(r)
  BY <1>1 DEF CheckLock
<1>2. CASE ReadLock(r)
  BY <1>2 DEF ReadLock
<1>3. CASE StatVanishes(r)
  BY <1>3 DEF StatVanishes
<1>4. CASE StatStale(r)
  BY <1>4 DEF StatStale
<1>5. CASE StatActive(r)
  BY <1>5 DEF StatActive
<1>6. CASE TakeOver(r)
  BY <1>6, QueueConstants DEF TakeOver
<1>7. CASE Purge(r)
  BY <1>7 DEF Purge
<1>8. CASE WriteLock(r)
  BY <1>8, QueueConstants DEF WriteLock
<1>9. CASE Enqueue(r)
  BY <1>9 DEF Enqueue
<1>10. CASE Position(r)
  BY <1>10 DEF Position
<1> QED
  BY <1>1, <1>2, <1>3, <1>4, <1>5, <1>6, <1>7, <1>8, <1>9, <1>10 DEF Bootstrap

\* A releasing step keeps the queue in somebody's care.
LEMMA ReleaseOrphan ==
  ASSUME OrphanInv, "race" \notin Adversity, NEW r \in Runs, Release(r)
  PROVE  OrphanCore'
<1> USE DEF TypeInv, TypeOK, OrphanCore, OrphanInv, SectionAlone, OwnerHolds, SeesLock, HandedOver,
            PurgeIsSeen, Goto, Section, Holding, Working, Finished, Quiet
<1>1. CASE CheckOwner(r)
  BY <1>1 DEF CheckOwner
<1>2. CASE Unlink(r)
  BY <1>2, QueueConstants DEF Unlink
<1>3. CASE ListEmpty(r)
  BY <1>3 DEF ListEmpty
<1>4. CASE ListNext(r)
  BY <1>4 DEF ListNext
<1>5. CASE Dequeue(r)
  BY <1>5 DEF Dequeue
<1>6. CASE Reap(r)
  BY <1>6 DEF Reap
<1>7. ASSUME NEW c \in Runs, Spawn(r, c) PROVE OrphanCore'
  <2>1. r # c /\ pc' = [pc EXCEPT ![r] = "wait", ![c] = "check"]
    BY <1>7 DEF Spawn
  <2> QED
    BY <1>7, <2>1 DEF Spawn
<1> QED
  BY <1>1, <1>2, <1>3, <1>4, <1>5, <1>6, <1>7 DEF Release

\* A working step keeps the queue in somebody's care.
LEMMA ProgressOrphan ==
  ASSUME OrphanInv, NEW r \in Runs, Progress(r)
  PROVE  OrphanCore'
<1> USE DEF TypeInv, TypeOK, OrphanCore, OrphanInv, SectionAlone, OwnerHolds, SeesLock, HandedOver,
            PurgeIsSeen, Goto, Section, Holding, Working, Finished, Quiet
<1>1. CASE Delegate(r)
  BY <1>1 DEF Delegate
<1>2. CASE Resume(r)
  BY <1>2 DEF Resume
<1>3. CASE Report(r)
  BY <1>3 DEF Report
<1> QED
  BY <1>1, <1>2, <1>3 DEF Progress

\* Every step keeps the queue in somebody's care, if nobody dies.
LEMMA NextOrphan ==
  ASSUME OrphanInv, [Next]_vars,
         "race" \notin Adversity, "kill" \notin Adversity, "abort" \notin Adversity,
         "telemetry" \notin Adversity
  PROVE  OrphanInv'
<1>0. TypeInv'
  BY NextType DEF OrphanInv
<1> SUFFICES OrphanCore'
  BY <1>0 DEF OrphanInv
<1> USE DEF OrphanInv, OrphanCore, TypeInv, TypeOK, SectionAlone, OwnerHolds, SeesLock,
            HandedOver, PurgeIsSeen
<1>1. CASE UNCHANGED vars
  BY <1>1 DEF vars
<1>2. CASE Tick
  BY <1>2 DEF Tick
<1>3. ASSUME NEW r \in Runs, NEW o \in Orders, Submit(r, o) PROVE OrphanCore'
  BY <1>3 DEF Submit, Goto, Section, Holding, Working
<1>4. ASSUME NEW r \in Runs, Beat(r) PROVE OrphanCore'
  BY <1>4 DEF Beat
<1>5. \A r \in Runs : ~Fault(r)
  BY DEF Fault, ReportThrows, PhaseThrows, Interrupt, Kill, SpawnFails
<1> QED
  BY <1>1, <1>2, <1>3, <1>4, <1>5, BootstrapOrphan, ReleaseOrphan, ProgressOrphan DEF Next

\* As long as sections do not interleave and nobody dies, a queued order has a run
\* to carry it out or to hand it over; this holds even when heartbeats are missed
\* and locks are taken over from runs that still work (checkAndAcquireLock and
\* releaseLockAndTriggerNext of lock-manager.ts).
THEOREM QueuedOrdersAreCaredFor ==
  ASSUME "race" \notin Adversity, "kill" \notin Adversity, "abort" \notin Adversity,
         "telemetry" \notin Adversity
  PROVE  Spec => []NoOrphan
<1>1. Init => OrphanInv
  BY InitType DEF Init, OrphanInv, OrphanCore, SectionAlone, OwnerHolds, SeesLock, HandedOver,
     PurgeIsSeen, Section
<1>2. OrphanInv => NoOrphan
  BY DEF OrphanInv, OrphanCore, TypeInv, TypeOK, OwnerHolds, HandedOver, PurgeIsSeen, NoOrphan,
     Holding
<1> QED
  BY <1>1, <1>2, NextOrphan, PTL DEF Spec

-----------------------------------------------------------------------------
(* FIFO, when sections do not interleave, whoever dies.                     *)

\* Between listing the queue and deleting the file of the oldest order nobody
\* files or deletes one.
OldestListed == \A r \in Runs : pc[r] = "dequeue" => Oldest(target[r])

FifoInv == TypeInv /\ SectionAlone /\ OldestListed

\* A bootstrap step leaves the choice of a listing run alone.
LEMMA BootstrapFifo ==
  ASSUME FifoInv, NEW r \in Runs, Bootstrap(r)
  PROVE  OldestListed'
<1> USE DEF FifoInv, TypeInv, TypeOK, SectionAlone, OldestListed, Oldest, Goto, Section
<1>1. CASE CheckLock(r)
  BY <1>1 DEF CheckLock
<1>2. CASE ReadLock(r)
  BY <1>2 DEF ReadLock
<1>3. CASE StatVanishes(r)
  BY <1>3 DEF StatVanishes
<1>4. CASE StatStale(r)
  BY <1>4 DEF StatStale
<1>5. CASE StatActive(r)
  BY <1>5 DEF StatActive
<1>6. CASE TakeOver(r)
  BY <1>6 DEF TakeOver
<1>7. CASE Purge(r)
  BY <1>7 DEF Purge
<1>8. CASE WriteLock(r)
  BY <1>8 DEF WriteLock
<1>9. CASE Enqueue(r)
  BY <1>9 DEF Enqueue
<1>10. CASE Position(r)
  BY <1>10 DEF Position
<1> QED
  BY <1>1, <1>2, <1>3, <1>4, <1>5, <1>6, <1>7, <1>8, <1>9, <1>10 DEF Bootstrap

\* A releasing step chooses the oldest order, or leaves the choice alone.
LEMMA ReleaseFifo ==
  ASSUME FifoInv, NEW r \in Runs, Release(r)
  PROVE  OldestListed'
<1> USE DEF FifoInv, TypeInv, TypeOK, SectionAlone, OldestListed, Oldest, Goto, Section
<1>1. CASE CheckOwner(r)
  BY <1>1 DEF CheckOwner
<1>2. CASE Unlink(r)
  BY <1>2 DEF Unlink
<1>3. CASE ListEmpty(r)
  BY <1>3 DEF ListEmpty
<1>4. CASE ListNext(r)
  BY <1>4 DEF ListNext
<1>5. CASE Dequeue(r)
  BY <1>5 DEF Dequeue
<1>6. CASE Reap(r)
  BY <1>6 DEF Reap
<1>7. ASSUME NEW c \in Runs, Spawn(r, c) PROVE OldestListed'
  <2>1. r # c /\ pc' = [pc EXCEPT ![r] = "wait", ![c] = "check"]
    BY <1>7 DEF Spawn
  <2> QED
    BY <1>7, <2>1 DEF Spawn
<1> QED
  BY <1>1, <1>2, <1>3, <1>4, <1>5, <1>6, <1>7 DEF Release

\* Every step leaves the choice of a listing run the oldest.
LEMMA NextFifo ==
  ASSUME FifoInv, [Next]_vars, "race" \notin Adversity
  PROVE  FifoInv'
<1>0. TypeInv' /\ SectionAlone'
  BY NextType, NextAlone DEF FifoInv, TypeInv
<1> SUFFICES OldestListed'
  BY <1>0 DEF FifoInv
<1> USE DEF FifoInv, TypeInv, TypeOK, OldestListed, Oldest, Goto
<1>1. CASE UNCHANGED vars
  BY <1>1 DEF vars
<1>2. CASE Tick
  BY <1>2 DEF Tick
<1>3. ASSUME NEW r \in Runs, NEW o \in Orders, Submit(r, o) PROVE OldestListed'
  BY <1>3 DEF Submit
<1>4. ASSUME NEW r \in Runs, Beat(r) PROVE OldestListed'
  BY <1>4 DEF Beat
<1>5. ASSUME NEW r \in Runs, Progress(r) PROVE OldestListed'
  BY <1>5 DEF Progress, Delegate, Resume, Report
<1>6. ASSUME NEW r \in Runs, Fault(r) PROVE OldestListed'
  BY <1>6 DEF Fault, ReportThrows, PhaseThrows, Interrupt, Kill, SpawnFails
<1> QED
  BY <1>1, <1>2, <1>3, <1>4, <1>5, <1>6, BootstrapFifo, ReleaseFifo DEF Next

\* If sections do not interleave, a run that dequeues takes the order that was
\* queued first (lock-manager.ts, listQueuedOrders), whoever dies meanwhile.
THEOREM FirstQueuedIsFirst ==
  ASSUME "race" \notin Adversity
  PROVE  Spec => OldestFirst
<1>1. Init => FifoInv
  BY InitType DEF Init, FifoInv, SectionAlone, OldestListed, Section
<1>2. FifoInv => \A r \in Runs : pc[r] = "dequeue" /\ pc'[r] = "spawn" =>
                   \A o \in queue : stamp[target[r]] <= stamp[o]
  BY DEF FifoInv, OldestListed, Oldest
<1> QED
  BY <1>1, <1>2, NextFifo, PTL DEF Spec, OldestFirst

-----------------------------------------------------------------------------
(* Each order once, when sections do not interleave, whoever dies.          *)

\* The stages of a run before it has the lock, and of one that did without it.
NotBegun == {"idle", "check", "read", "stat", "takeover", "purge", "write",
             "enqueue", "position", "parked"}

\* The run is over, or dead, and has not sent its order anywhere.
Filed(r) == pc[r] \in {"parked", "killed"} /\ delegations[r] = 0

\* Of the runs that carry an order, one at most has not just filed it or died
\* before its work; an order in the queue, or in the hands of a run about to spawn
\* its carrier, has been taken up by none of them.
EachOrderOnce ==
  /\ \A r \in Runs : pc[r] \in NotBegun => delegations[r] = 0
  /\ \A r \in Runs : pc[r] = "idle" => order[r] = NoOrder
  /\ \A q, r \in Runs :
       q # r /\ order[q] = order[r] /\ order[r] \in Orders => Filed(q) \/ Filed(r)
  /\ \A o \in queue :
       /\ \E r \in Runs : order[r] = o
       /\ \A r \in Runs : order[r] = o => pc[r] = "position" \/ Filed(r)
  /\ \A r \in Runs : pc[r] = "spawn" =>
       /\ target[r] \notin queue
       /\ \E q \in Runs : order[q] = target[r]
       /\ \A q \in Runs : order[q] = target[r] => Filed(q)
       /\ \A q \in Runs : pc[q] = "spawn" /\ q # r => target[q] # target[r]

OnceInv == FifoInv /\ EachOrderOnce

\* A bootstrap step keeps each order in one place.
LEMMA BootstrapOnce ==
  ASSUME OnceInv, NEW r \in Runs, Bootstrap(r)
  PROVE  EachOrderOnce'
<1> USE DEF OnceInv, FifoInv, TypeInv, TypeOK, RunsCarryOrders, SectionAlone, OldestListed, Oldest,
            EachOrderOnce, Filed, NotBegun, Goto, Section
<1>1. CASE CheckLock(r)
  BY <1>1, QueueConstants DEF CheckLock
<1>2. CASE ReadLock(r)
  BY <1>2, QueueConstants DEF ReadLock
<1>3. CASE StatVanishes(r)
  BY <1>3, QueueConstants DEF StatVanishes
<1>4. CASE StatStale(r)
  BY <1>4, QueueConstants DEF StatStale
<1>5. CASE StatActive(r)
  BY <1>5, QueueConstants DEF StatActive
<1>6. CASE TakeOver(r)
  BY <1>6, QueueConstants DEF TakeOver
<1>7. CASE Purge(r)
  BY <1>7, QueueConstants DEF Purge
<1>8. CASE WriteLock(r)
  BY <1>8, QueueConstants DEF WriteLock
<1>9. CASE Enqueue(r)
  BY <1>9, QueueConstants DEF Enqueue
<1>10. CASE Position(r)
  BY <1>10, QueueConstants DEF Position
<1> QED
  BY <1>1, <1>2, <1>3, <1>4, <1>5, <1>6, <1>7, <1>8, <1>9, <1>10 DEF Bootstrap

\* A releasing step keeps each order in one place.
LEMMA ReleaseOnce ==
  ASSUME OnceInv, NEW r \in Runs, Release(r)
  PROVE  EachOrderOnce'
<1> USE DEF OnceInv, FifoInv, TypeInv, TypeOK, RunsCarryOrders, SectionAlone, OldestListed, Oldest,
            EachOrderOnce, Filed, NotBegun, Goto, Section
<1>1. CASE CheckOwner(r)
  BY <1>1, QueueConstants DEF CheckOwner
<1>2. CASE Unlink(r)
  BY <1>2, QueueConstants DEF Unlink
<1>3. CASE ListEmpty(r)
  BY <1>3, QueueConstants DEF ListEmpty
<1>4. CASE ListNext(r)
  BY <1>4, QueueConstants DEF ListNext
<1>5. CASE Dequeue(r)
  BY <1>5, QueueConstants DEF Dequeue
<1>6. CASE Reap(r)
  BY <1>6, QueueConstants DEF Reap
<1>7. ASSUME NEW c \in Runs, Spawn(r, c) PROVE EachOrderOnce'
  <2>1. r # c /\ pc' = [pc EXCEPT ![r] = "wait", ![c] = "check"]
    BY <1>7 DEF Spawn
  <2> QED
    BY <1>7, <2>1, QueueConstants DEF Spawn
<1> QED
  BY <1>1, <1>2, <1>3, <1>4, <1>5, <1>6, <1>7 DEF Release

\* Every step keeps each order in one place, if no section interleaves.
LEMMA NextOnce ==
  ASSUME OnceInv, [Next]_vars, "race" \notin Adversity
  PROVE  OnceInv'
<1>0. FifoInv'
  BY NextFifo DEF OnceInv
<1> SUFFICES EachOrderOnce'
  BY <1>0 DEF OnceInv
<1> USE DEF OnceInv, FifoInv, TypeInv, TypeOK, RunsCarryOrders, EachOrderOnce, Filed,
            NotBegun, Goto
<1>1. CASE UNCHANGED vars
  BY <1>1 DEF vars
<1>2. CASE Tick
  BY <1>2 DEF Tick
<1>3. ASSUME NEW r \in Runs, NEW o \in Orders, Submit(r, o) PROVE EachOrderOnce'
  BY <1>3, QueueConstants DEF Submit, Submitted
<1>4. ASSUME NEW r \in Runs, Beat(r) PROVE EachOrderOnce'
  BY <1>4 DEF Beat
<1>5. ASSUME NEW r \in Runs, Progress(r) PROVE EachOrderOnce'
  BY <1>5 DEF Progress, Delegate, Resume, Report
<1>6. ASSUME NEW r \in Runs, Fault(r) PROVE EachOrderOnce'
  BY <1>6 DEF Fault, ReportThrows, PhaseThrows, Interrupt, Kill, SpawnFails
<1> QED
  BY <1>1, <1>2, <1>3, <1>4, <1>5, <1>6, BootstrapOnce, ReleaseOnce DEF Next

\* Nobody has begun at first.
LEMMA InitOnce == Init => OnceInv
BY InitType, QueueConstants
   DEF Init, OnceInv, FifoInv, EachOrderOnce, SectionAlone, OldestListed, Section

\* At most once, through crashes: if sections do not interleave, no order is taken
\* up by two runs, whoever is killed, starved or fails and at whichever step.
THEOREM OrdersTakenUpOnce ==
  ASSUME "race" \notin Adversity
  PROVE  Spec => []TakenUpOnce
<1>1. OnceInv => TakenUpOnce
  <2> SUFFICES ASSUME OnceInv, NEW q \in Runs, NEW r \in Runs,
                      order[q] = order[r], Begun(q), Begun(r), q # r
               PROVE  FALSE
    BY DEF TakenUpOnce
  <2>1. pc[r] # "idle" /\ ~Filed(q) /\ ~Filed(r)
    BY DEF OnceInv, EachOrderOnce, Begun, Filed, NotBegun, Holding, Working
  <2>2. order[r] \in Orders
    BY <2>1 DEF OnceInv, FifoInv, TypeInv, RunsCarryOrders
  <2> QED
    BY <2>1, <2>2 DEF OnceInv, EachOrderOnce
<1> QED
  BY <1>1, InitOnce, NextOnce, PTL DEF Spec

-----------------------------------------------------------------------------
(* The refinement of OrderService, when the environment is quiet.           *)

\* The stages after the work of an order.
Served == {"list", "dequeue", "spawn", "wait", "done"}

\* What the service sees of a stage.
Seen(stage) == <<stage \in Holding, stage \in Served>>

\* What the runs that carry an order say of it, now ...
LEMMA StatusNow ==
  ASSUME NEW o
  PROVE  /\ (\A r \in Runs : order[r] # o) => StatusOf(o) = "new"
         /\ (\E r \in Runs : order[r] = o /\ pc[r] \in Holding) => StatusOf(o) = "running"
         /\ /\ \E r \in Runs : order[r] = o /\ pc[r] \in Served
            /\ \A r \in Runs : order[r] = o => pc[r] \notin Holding
            => StatusOf(o) = "served"
         /\ /\ \E r \in Runs : order[r] = o
            /\ \A r \in Runs : order[r] = o => pc[r] \notin Holding \cup Served
            => StatusOf(o) = "waiting"
BY DEF StatusOf, Served

\* ... and after a step.
LEMMA StatusNext ==
  ASSUME NEW o
  PROVE  /\ (\A r \in Runs : order'[r] # o) => StatusOf(o)' = "new"
         /\ (\E r \in Runs : order'[r] = o /\ pc'[r] \in Holding) => StatusOf(o)' = "running"
         /\ /\ \E r \in Runs : order'[r] = o /\ pc'[r] \in Served
            /\ \A r \in Runs : order'[r] = o => pc'[r] \notin Holding
            => StatusOf(o)' = "served"
         /\ /\ \E r \in Runs : order'[r] = o
            /\ \A r \in Runs : order'[r] = o => pc'[r] \notin Holding \cup Served
            => StatusOf(o)' = "waiting"
BY DEF StatusOf, Served

\* An order whose carriers stay where they are, as far as the service can see,
\* keeps its status.
LEMMA StatusKept ==
  ASSUME NEW o,
         \A r \in Runs : (order'[r] = o) = (order[r] = o),
         \A r \in Runs : order[r] = o => Seen(pc'[r]) = Seen(pc[r])
  PROVE  StatusOf(o)' = StatusOf(o)
<1>0. ASSUME NEW r \in Runs
      PROVE  \/ order'[r] # o /\ order[r] # o
             \/ /\ order'[r] = o /\ order[r] = o
                /\ pc'[r] \in Holding <=> pc[r] \in Holding
                /\ pc'[r] \in Served <=> pc[r] \in Served
  <2>1. CASE order[r] = o
    <3>1. order'[r] = o
      BY <2>1
    <3>2. Seen(pc'[r]) = Seen(pc[r])
      BY <2>1
    <3> QED
      BY <2>1, <3>1, <3>2 DEF Seen
  <2>2. CASE order[r] # o
    <3>1. order'[r] # o
      BY <2>2
    <3> QED
      BY <2>2, <3>1
  <2> QED
    BY <2>1, <2>2
<1>1. CASE \A r \in Runs : order[r] # o
  BY <1>0, <1>1, StatusNow, StatusNext
<1>2. CASE \E r \in Runs : order[r] = o /\ pc[r] \in Holding
  BY <1>0, <1>2, StatusNow, StatusNext
<1>3. CASE /\ \E r \in Runs : order[r] = o /\ pc[r] \in Served
           /\ \A r \in Runs : order[r] = o => pc[r] \notin Holding
  BY <1>0, <1>3, StatusNow, StatusNext
<1>4. CASE /\ \E r \in Runs : order[r] = o
           /\ \A r \in Runs : order[r] = o => pc[r] \notin Holding \cup Served
  BY <1>0, <1>4, StatusNow, StatusNext
<1> QED
  BY <1>1, <1>2, <1>3, <1>4

ServiceStatus == [o \in Orders |-> StatusOf(o)]

ServiceInv == LockInv /\ OnceInv

\* A step that no order's status notices is a stutter of the service.
LEMMA NobodyMoves ==
  ASSUME \A o \in Orders : StatusOf(o)' = StatusOf(o)
  PROVE  ServiceStatus' = ServiceStatus
BY DEF ServiceStatus

\* In particular a step of one run within a stage of the service.
LEMMA WithinStage ==
  ASSUME TypeOK, NEW r \in Runs, NEW s, Goto(r, s), order' = order,
         Seen(s) = Seen(pc[r])
  PROVE  ServiceStatus' = ServiceStatus
<1>1. \A q \in Runs : Seen(pc'[q]) = Seen(pc[q])
  BY DEF TypeOK, Goto
<1>2. \A o \in Orders : StatusOf(o)' = StatusOf(o)
  BY <1>1, StatusKept
<1> QED
  BY <1>2, NobodyMoves

\* A step of one run moves the order it carries and no other.
LEMMA OneMoves ==
  ASSUME TypeOK, NEW r \in Runs, NEW s, Goto(r, s), order' = order,
         order[r] \in Orders, NEW from, NEW to,
         StatusOf(order[r]) = from, StatusOf(order[r])' = to
  PROVE  Service!Move(order[r], from, to)
<1>1. \A q \in Runs : q # r => pc'[q] = pc[q]
  BY DEF TypeOK, Goto
<1>2. ASSUME NEW o \in Orders, o # order[r] PROVE StatusOf(o)' = StatusOf(o)
  <2>1. /\ \A q \in Runs : (order'[q] = o) = (order[q] = o)
        /\ \A q \in Runs : order[q] = o => Seen(pc'[q]) = Seen(pc[q])
    BY <1>1, <1>2
  <2> QED
    BY <2>1, StatusKept
<1>3. order[r]' = order[r]
  OBVIOUS
<1>4. ServiceStatus' = [ServiceStatus EXCEPT ![order[r]] = to]
  BY <1>2, <1>3 DEF ServiceStatus
<1> QED
  BY <1>4 DEF Service!Move, ServiceStatus

\* The run that writes the lock begins its order: nobody else is at work, and no
\* run that carries the order has come further than filing it.
LEMMA WriteLockBegins ==
  ASSUME ServiceInv, NEW r \in Runs, WriteLock(r)
  PROVE  Service!Begin(order[r])
<1>0. /\ TypeOK /\ EachOrderOnce /\ RunsCarryOrders
      /\ pc[r] = "write" /\ Goto(r, "work") /\ order' = order
  BY DEF ServiceInv, OnceInv, FifoInv, TypeInv, WriteLock
<1>1. order[r] \in Orders
  BY <1>0 DEF RunsCarryOrders
<1>2. \A q \in Runs : pc[q] \notin Holding
  BY <1>0, QueueConstants DEF ServiceInv, LockInv, LockCore, HeldLockIsFresh, KnowsLock
<1>3. \A q \in Runs : order[q] = order[r] => pc[q] \notin Holding \cup Served
  BY <1>0, <1>1, <1>2 DEF EachOrderOnce, Filed, Served
<1>4. StatusOf(order[r]) = "waiting"
  BY <1>3, StatusNow
<1>5. pc'[r] \in Holding
  BY <1>0 DEF TypeOK, Goto, Holding, Working
<1>6. StatusOf(order[r])' = "running"
  BY <1>0, <1>5, StatusNext
<1>7. \A o \in Orders : StatusOf(o) # "running"
  BY <1>2 DEF StatusOf
<1>8. Service!Move(order[r], "waiting", "running")
  BY <1>0, <1>1, <1>4, <1>6, OneMoves
<1> QED
  BY <1>7, <1>8 DEF Service!Begin

\* The run that removes its lock has served its order.
LEMMA UnlinkFinishes ==
  ASSUME ServiceInv, NEW r \in Runs, Unlink(r)
  PROVE  Service!Finish(order[r])
<1>0. /\ TypeOK /\ EachOrderOnce /\ RunsCarryOrders
      /\ pc[r] = "unlink" /\ Goto(r, "list") /\ order' = order
  BY DEF ServiceInv, OnceInv, FifoInv, TypeInv, Unlink
<1>1. order[r] \in Orders
  BY <1>0 DEF RunsCarryOrders
<1>2. StatusOf(order[r]) = "running"
  BY <1>0, StatusNow DEF Holding
<1>3. /\ pc'[r] = "list"
      /\ \A q \in Runs : order'[q] = order[r] => pc'[q] \notin Holding
  BY <1>0, <1>1 DEF TypeOK, Goto, EachOrderOnce, Filed, Holding, Working
<1>4. StatusOf(order[r])' = "served"
  BY <1>0, <1>3, StatusNext DEF Served
<1> QED
  BY <1>0, <1>1, <1>2, <1>4, OneMoves DEF Service!Finish

\* A new run accepts a new order.
LEMMA SubmitAccepts ==
  ASSUME ServiceInv, NEW r \in Runs, NEW o \in Orders, Submit(r, o)
  PROVE  Service!Accept(o)
<1>0. /\ TypeOK /\ EachOrderOnce /\ ~Submitted(o) /\ order[r] = NoOrder
      /\ order' = [order EXCEPT ![r] = o] /\ Goto(r, "check")
  BY DEF ServiceInv, OnceInv, FifoInv, TypeInv, Submit, EachOrderOnce
<1>1. /\ \A q \in Runs : q # r => pc'[q] = pc[q] /\ order'[q] = order[q]
      /\ pc'[r] = "check" /\ order'[r] = o
  BY <1>0 DEF TypeOK, Goto
<1>2. StatusOf(o) = "new"
  BY <1>0, StatusNow DEF Submitted
<1>3. \A q \in Runs : order'[q] = o => q = r
  BY <1>0, <1>1 DEF Submitted
<1>4. StatusOf(o)' = "waiting"
  BY <1>1, <1>3, StatusNext DEF Holding, Working, Served
<1>5. \A p \in Orders : p # o => StatusOf(p)' = StatusOf(p)
  BY <1>0, <1>1, StatusKept, QueueConstants
<1>6. ServiceStatus' = [ServiceStatus EXCEPT ![o] = "waiting"]
  BY <1>4, <1>5 DEF ServiceStatus
<1> QED
  BY <1>2, <1>6 DEF Service!Accept, Service!Move, ServiceStatus

\* A child that is spawned waits on behalf of an order that was waiting already.
LEMMA SpawnStutters ==
  ASSUME ServiceInv, NEW r \in Runs, NEW c \in Runs, Spawn(r, c)
  PROVE  ServiceStatus' = ServiceStatus
<1>0. /\ TypeOK /\ EachOrderOnce /\ pc[r] = "spawn" /\ pc[c] = "idle" /\ r # c
      /\ order[c] = NoOrder /\ target[r] \in Orders
      /\ order' = [order EXCEPT ![c] = target[r]]
      /\ pc' = [pc EXCEPT ![r] = "wait", ![c] = "check"]
  BY DEF ServiceInv, OnceInv, FifoInv, TypeInv, Spawn, EachOrderOnce, RunsCarryOrders
<1>1. /\ \A q \in Runs \ {r, c} : pc'[q] = pc[q]
      /\ \A q \in Runs \ {c} : order'[q] = order[q]
      /\ pc'[r] = "wait" /\ pc'[c] = "check" /\ order'[c] = target[r]
  BY <1>0 DEF TypeOK
<1>2. PICK o \in Orders : o = target[r]
  BY <1>0
<1>3. /\ \A q \in Runs : order[q] = o => pc[q] \in {"parked", "killed"}
      /\ \E q \in Runs : order[q] = o
  BY <1>0, <1>2 DEF EachOrderOnce, Filed
<1>4. StatusOf(o) = "waiting"
  BY <1>3, StatusNow DEF Holding, Working, Served
<1>5. /\ \A q \in Runs : order'[q] = o => pc'[q] \in {"parked", "killed", "check"}
      /\ order'[c] = o
  BY <1>0, <1>1, <1>2, <1>3
<1>6. StatusOf(o)' = "waiting"
  BY <1>5, StatusNext DEF Holding, Working, Served
<1>7. ASSUME NEW p \in Orders, p # o PROVE StatusOf(p)' = StatusOf(p)
  <2>1. \A q \in Runs : (order'[q] = p) = (order[q] = p)
    BY <1>0, <1>1, <1>2, <1>7, QueueConstants
  <2>2. Seen("wait") = Seen("spawn")
    BY DEF Seen, Holding, Working, Served
  <2>3. \A q \in Runs : order[q] = p => Seen(pc'[q]) = Seen(pc[q])
    BY <1>0, <1>1, <1>7, <2>2, QueueConstants
  <2> QED
    BY <2>1, <2>3, StatusKept
<1> QED
  BY <1>4, <1>6, <1>7, NobodyMoves

\* Every step of a quiet queue is a step of the service, or none.
LEMMA QueueStepIsServiceStep ==
  ASSUME ServiceInv, [Next]_vars, Adversity = {}
  PROVE  Service!Next \/ ServiceStatus' = ServiceStatus
<1>0. /\ TypeOK /\ RunsCarryOrders /\ NoLeakedLock /\ HeldLockIsFresh
      /\ \A r \in Runs : ~Fault(r)
  BY DEF ServiceInv, OnceInv, FifoInv, TypeInv, LockInv, LockCore, Fault, ReportThrows,
     PhaseThrows, Interrupt, Kill, SpawnFails
<1>1. CASE pc' = pc /\ order' = order
  BY <1>1 DEF ServiceStatus, StatusOf
<1>2. CASE UNCHANGED vars \/ Tick \/ \E r \in Runs : Beat(r)
  BY <1>1, <1>2 DEF vars, Tick, Beat
<1>3. ASSUME NEW r \in Runs, NEW o \in Orders, Submit(r, o) PROVE Service!Next
  BY <1>3, SubmitAccepts DEF Service!Next
<1>4. ASSUME NEW r \in Runs, Bootstrap(r)
      PROVE  Service!Next \/ ServiceStatus' = ServiceStatus
  <2>1. CASE WriteLock(r)
    <3>1. order[r] \in Orders
      BY <1>0, <2>1 DEF WriteLock, RunsCarryOrders
    <3> QED
      BY <2>1, <3>1, WriteLockBegins DEF Service!Next
  <2>2. CASE ~WriteLock(r)
    <3>1. PICK s \in {"write", "read", "stat", "failed", "takeover", "enqueue", "purge",
                     "position", "parked"} :
            Goto(r, s) /\ order' = order
      BY <1>0, <1>4, <2>2
         DEF Bootstrap, CheckLock, ReadLock, StatVanishes, StatStale, StatActive, TakeOver,
             Purge, Enqueue, Position, NoLeakedLock, Holding, Working
    <3>2. pc[r] \notin Holding \cup Served
      BY <1>4, <2>2
         DEF Bootstrap, CheckLock, ReadLock, StatVanishes, StatStale, StatActive, TakeOver,
             Purge, Enqueue, Position, Holding, Working, Served
    <3>3. s \notin Holding \cup Served
      BY DEF Holding, Working, Served
    <3>4. Seen(s) = Seen(pc[r])
      BY <3>2, <3>3 DEF Seen
    <3> QED
      BY <1>0, <3>1, <3>4, WithinStage
  <2> QED
    BY <2>1, <2>2
<1>5. ASSUME NEW r \in Runs, Progress(r) PROVE ServiceStatus' = ServiceStatus
  <2>1. PICK s \in {"infer", "work", "release"} : Goto(r, s) /\ order' = order
    BY <1>5 DEF Progress, Delegate, Resume, Report
  <2>2. pc[r] \in Holding /\ pc[r] \notin Served /\ s \in Holding /\ s \notin Served
    BY <1>5 DEF Progress, Delegate, Resume, Report, Holding, Working, Served
  <2>3. Seen(s) = Seen(pc[r])
    BY <2>2 DEF Seen
  <2> QED
    BY <1>0, <2>1, <2>3, WithinStage
<1>6. ASSUME NEW r \in Runs, Release(r)
      PROVE  Service!Next \/ ServiceStatus' = ServiceStatus
  <2>1. CASE Unlink(r)
    <3>1. order[r] \in Orders
      BY <1>0, <2>1 DEF Unlink, RunsCarryOrders
    <3> QED
      BY <2>1, <3>1, UnlinkFinishes DEF Service!Next
  <2>2. CASE CheckOwner(r)
    <3>1. pc[r] = "release" /\ Goto(r, "unlink") /\ order' = order
      BY <1>0, <2>2 DEF CheckOwner, HeldLockIsFresh, Holding
    <3>2. Seen("unlink") = Seen("release")
      BY DEF Seen, Holding, Working, Served
    <3> QED
      BY <1>0, <3>1, <3>2, WithinStage
  <2>3. CASE ListEmpty(r) \/ ListNext(r) \/ Dequeue(r) \/ Reap(r)
    <3>1. PICK s \in Served : Goto(r, s) /\ order' = order
      BY <2>3 DEF ListEmpty, ListNext, Dequeue, Reap, Served
    <3>2. pc[r] \in Served
      BY <2>3 DEF ListEmpty, ListNext, Dequeue, Reap, Served
    <3>3. Served \cap Holding = {}
      BY DEF Served, Holding, Working
    <3>4. Seen(s) = Seen(pc[r])
      BY <3>2, <3>3 DEF Seen
    <3> QED
      BY <1>0, <3>1, <3>4, WithinStage
  <2>4. ASSUME NEW c \in Runs, Spawn(r, c) PROVE ServiceStatus' = ServiceStatus
    BY <2>4, SpawnStutters
  <2> QED
    BY <1>6, <2>1, <2>2, <2>3, <2>4 DEF Release
<1> QED
  BY <1>0, <1>2, <1>3, <1>4, <1>5, <1>6 DEF Next

\* With the lock, the heartbeat and the spawned runs, the queue is the service that
\* specs/order.md promises: one order is worked on at a time and each one once, as
\* long as sections do not interleave, no heartbeat is missed and nothing dies.
THEOREM QueueImplementsService ==
  ASSUME Adversity = {}
  PROVE  Spec => ImplementsService
<1>1. Init => OnceInv
  BY InitOnce
<1>2. OnceInv /\ [Next]_vars => OnceInv'
  BY NextOnce
<1>3. Spec => []LockInv
  BY LockIsKept
<1>4. Init => Service!Init
  BY QueueConstants DEF Init, Service!Init, StatusOf
<1>5. LockInv /\ OnceInv /\ [Next]_vars =>
        [Service!Next]_([o \in Orders |-> StatusOf(o)])
  BY QueueStepIsServiceStep DEF ServiceInv, ServiceStatus
<1> QED
  BY <1>1, <1>2, <1>3, <1>4, <1>5, PTL DEF Spec, ImplementsService, Service!Spec

-----------------------------------------------------------------------------
(* No run goes back, and no run waits in a circle.                          *)

\* How far a run has yet to go between two delegations.
StagesLeft ==
  [stage \in Stages |->
     CASE stage = "idle"     -> 17 [] stage = "check"   -> 16 [] stage = "read"    -> 15
       [] stage = "stat"     -> 14 [] stage = "takeover"-> 13 [] stage = "purge"   -> 12
       [] stage = "write"    -> 11 [] stage = "infer"   -> 10 [] stage = "work"    -> 9
       [] stage = "enqueue"  -> 8  [] stage = "position"-> 7  [] stage = "release" -> 6
       [] stage = "unlink"   -> 5  [] stage = "list"    -> 4  [] stage = "dequeue" -> 3
       [] stage = "spawn"    -> 2  [] stage = "wait"    -> 1
       [] stage \in Finished -> 0]

\* A run that moves uses up a delegation or is nearer to its end.
Moves(r) ==
  \/ delegations'[r] = delegations[r] + 1
  \/ delegations'[r] = delegations[r] /\ StagesLeft[pc'[r]] < StagesLeft[pc[r]]

\* Whoever moves goes onward; who stays keeps what it has used up.
RunsGoOnward ==
  \A r \in Runs :
    /\ pc'[r] # pc[r] => Moves(r)
    /\ pc'[r] = pc[r] => delegations'[r] = delegations[r]
    /\ delegations'[r] <= MaxDelegations

\* The stages in their order.
LEMMA Ranks ==
  /\ {"idle", "check", "read", "stat", "takeover", "purge", "write", "infer", "work",
      "enqueue", "position", "release", "unlink", "list", "dequeue", "spawn", "wait"}
       \cup Finished = Stages
  /\ StagesLeft["idle"] = 17 /\ StagesLeft["check"] = 16 /\ StagesLeft["read"] = 15
  /\ StagesLeft["stat"] = 14 /\ StagesLeft["takeover"] = 13 /\ StagesLeft["purge"] = 12
  /\ StagesLeft["write"] = 11 /\ StagesLeft["infer"] = 10 /\ StagesLeft["work"] = 9
  /\ StagesLeft["enqueue"] = 8 /\ StagesLeft["position"] = 7 /\ StagesLeft["release"] = 6
  /\ StagesLeft["unlink"] = 5 /\ StagesLeft["list"] = 4 /\ StagesLeft["dequeue"] = 3
  /\ StagesLeft["spawn"] = 2 /\ StagesLeft["wait"] = 1
  /\ \A stage \in {"parked", "done", "failed", "killed"} :
       stage \in Finished /\ stage \in Stages /\ StagesLeft[stage] = 0
  /\ \A stage \in Stages \ Finished : StagesLeft[stage] > 0
BY DEF StagesLeft, Stages, Section, Holding, Working, Finished

\* A run that goes to one other stage, without a delegation, goes onward if the
\* stage is a later one.
LEMMA GotoOnward ==
  ASSUME TypeInv, TypeInv', NEW r \in Runs, NEW stage \in Stages, Goto(r, stage),
         delegations' = delegations, StagesLeft[stage] < StagesLeft[pc[r]]
  PROVE  RunsGoOnward
<1>1. pc'[r] = stage /\ \A q \in Runs \ {r} : pc'[q] = pc[q]
  BY DEF TypeInv, TypeOK, Goto
<1>2. \A q \in Runs : delegations'[q] <= MaxDelegations
  BY QueueConstants DEF TypeInv, TypeOK
<1> QED
  BY <1>1, <1>2 DEF RunsGoOnward, Moves

\* Every stage of the bootstrap leads to a later one.
LEMMA BootstrapOnward ==
  ASSUME TypeInv, TypeInv', NEW r \in Runs, Bootstrap(r)
  PROVE  RunsGoOnward
<1> DEFINE Later == \E stage \in Stages :
                    Goto(r, stage) /\ StagesLeft[stage] < StagesLeft[pc[r]]
<1>1. delegations' = delegations
  BY DEF Bootstrap, CheckLock, ReadLock, StatVanishes, StatStale, StatActive, TakeOver,
     Purge, WriteLock, Enqueue, Position
<1>2. ASSUME CheckLock(r) PROVE Later
  <2>1. pc[r] = "check" /\ (Goto(r, "write") \/ Goto(r, "read"))
    BY <1>2 DEF CheckLock
  <2> QED
    BY <2>1, Ranks
<1>3. ASSUME ReadLock(r) PROVE Later
  <2>1. pc[r] = "read" /\ (Goto(r, "write") \/ Goto(r, "work") \/ Goto(r, "stat"))
    BY <1>3 DEF ReadLock
  <2> QED
    BY <2>1, Ranks
<1>4. ASSUME StatVanishes(r) \/ StatStale(r) \/ StatActive(r) PROVE Later
  <2>1. pc[r] = "stat" /\ (Goto(r, "failed") \/ Goto(r, "takeover") \/ Goto(r, "enqueue"))
    BY <1>4 DEF StatVanishes, StatStale, StatActive
  <2> QED
    BY <2>1, Ranks
<1>5. ASSUME TakeOver(r) \/ Purge(r) \/ WriteLock(r) PROVE Later
  <2>1. \/ pc[r] = "takeover" /\ (Goto(r, "write") \/ Goto(r, "purge"))
        \/ pc[r] = "purge" /\ Goto(r, "write")
        \/ pc[r] = "write" /\ Goto(r, "work")
    BY <1>5 DEF TakeOver, Purge, WriteLock
  <2> QED
    BY <2>1, Ranks
<1>6. ASSUME Enqueue(r) \/ Position(r) PROVE Later
  <2>1. \/ pc[r] = "enqueue" /\ Goto(r, "position")
        \/ pc[r] = "position" /\ Goto(r, "parked")
    BY <1>6 DEF Enqueue, Position
  <2> QED
    BY <2>1, Ranks
<1>7. Later
  BY <1>2, <1>3, <1>4, <1>5, <1>6 DEF Bootstrap
<1> QED
  BY <1>1, <1>7, GotoOnward

\* So does the release; the child it spawns begins.
LEMMA ReleaseOnward ==
  ASSUME TypeInv, TypeInv', NEW r \in Runs, Release(r)
  PROVE  RunsGoOnward
<1>1. CASE CheckOwner(r) \/ Unlink(r) \/ ListEmpty(r) \/ ListNext(r) \/ Dequeue(r) \/ Reap(r)
  <2>1. /\ delegations' = delegations
        /\ \/ pc[r] = "release" /\ (Goto(r, "unlink") \/ Goto(r, "done"))
           \/ pc[r] = "unlink" /\ Goto(r, "list")
           \/ pc[r] = "list" /\ (Goto(r, "done") \/ Goto(r, "dequeue"))
           \/ pc[r] = "dequeue" /\ Goto(r, "spawn")
           \/ pc[r] = "wait" /\ Goto(r, "done")
    BY <1>1 DEF CheckOwner, Unlink, ListEmpty, ListNext, Dequeue, Reap
  <2>2. \E stage \in Stages : Goto(r, stage) /\ StagesLeft[stage] < StagesLeft[pc[r]]
    BY <2>1, Ranks
  <2> QED
    BY <2>1, <2>2, GotoOnward
<1>2. ASSUME NEW c \in Runs, Spawn(r, c) PROVE RunsGoOnward
  <2>1. /\ r # c /\ delegations' = delegations
        /\ pc[r] = "spawn" /\ pc[c] = "idle"
        /\ pc'[r] = "wait" /\ pc'[c] = "check"
        /\ \A q \in Runs \ {r, c} : pc'[q] = pc[q]
    BY <1>2 DEF Spawn, TypeInv, TypeOK
  <2>2. \A q \in Runs : delegations'[q] <= MaxDelegations
    BY QueueConstants DEF TypeInv, TypeOK
  <2>3. /\ StagesLeft["wait"] < StagesLeft["spawn"]
        /\ StagesLeft["check"] < StagesLeft["idle"]
    BY DEF StagesLeft, Stages, Section, Holding, Working, Finished
  <2> QED
    BY <2>1, <2>2, <2>3 DEF RunsGoOnward, Moves
<1> QED
  BY <1>1, <1>2 DEF Release

\* Whatever happens to it no run goes back to an earlier stage, but from the bridge's
\* work to a delegation more, of which there is a number: with the fairness of the
\* operating system every run ends (EveryRunEnds) that has none to wait for.
THEOREM NoRunGoesBack == Spec => [][RunsGoOnward]_vars
<1>1. TypeInv /\ TypeInv' /\ [Next]_vars => [RunsGoOnward]_vars
  <2> SUFFICES ASSUME TypeInv, TypeInv', Next PROVE RunsGoOnward
    OBVIOUS
  <2>0. \A q \in Runs : delegations'[q] <= MaxDelegations
    BY QueueConstants DEF TypeInv, TypeOK
  <2>1. ASSUME pc' = pc, delegations' = delegations PROVE RunsGoOnward
    BY <2>0, <2>1 DEF RunsGoOnward
  <2>2. CASE Tick
    BY <2>1, <2>2 DEF Tick
  <2>3. ASSUME NEW r \in Runs, Beat(r) PROVE RunsGoOnward
    BY <2>1, <2>3 DEF Beat
  <2>4. ASSUME NEW r \in Runs, NEW o \in Orders, Submit(r, o) PROVE RunsGoOnward
    <3>1. /\ delegations' = delegations /\ Goto(r, "check") /\ "check" \in Stages
          /\ StagesLeft["check"] < StagesLeft[pc[r]]
      BY <2>4 DEF Submit, StagesLeft, Stages, Section, Holding, Working, Finished
    <3> QED
      BY <3>1, GotoOnward
  <2>5. ASSUME NEW r \in Runs, Delegate(r) PROVE RunsGoOnward
    <3>1. /\ pc'[r] # pc[r] /\ delegations'[r] = delegations[r] + 1
          /\ \A q \in Runs \ {r} : pc'[q] = pc[q] /\ delegations'[q] = delegations[q]
      BY <2>5 DEF Delegate, Goto, TypeInv, TypeOK
    <3> QED
      BY <2>0, <3>1 DEF RunsGoOnward, Moves
  <2>6. ASSUME NEW r \in Runs, Resume(r) \/ Report(r) \/ Fault(r) PROVE RunsGoOnward
    <3>1. pc[r] \in Stages
      BY DEF TypeInv, TypeOK
    <3>2. /\ delegations' = delegations
          /\ \/ pc[r] = "infer" /\ Goto(r, "work")
             \/ pc[r] = "work" /\ Goto(r, "release")
             \/ pc[r] \notin Finished /\ \E stage \in Finished : Goto(r, stage)
      BY <2>6 DEF Resume, Report, Fault, ReportThrows, PhaseThrows, Interrupt, Kill,
         SpawnFails, Live, Working, Finished
    <3>3. \E stage \in Stages : Goto(r, stage) /\ StagesLeft[stage] < StagesLeft[pc[r]]
      BY <3>1, <3>2, Ranks DEF Finished
    <3> QED
      BY <3>2, <3>3, GotoOnward
  <2> QED
    BY <2>2, <2>3, <2>4, <2>5, <2>6, BootstrapOnward, ReleaseOnward DEF Next, Progress
<1> QED
  BY <1>1, InitType, NextType, PTL DEF Spec

\* A run that is spawned is new, and a run spawns one at most, when it has finished
\* its own work.  So of any runs one has no child among them.
Descent ==
  /\ \A c \in Runs : pc[c] = "idle" => parent[c] = NoRun
  /\ \A q, c \in Runs : parent[c] = q => pc[q] \in {"wait"} \cup Finished
  /\ \A c, d \in Runs : parent[c] \in Runs /\ parent[c] = parent[d] => c = d
  /\ \A r \in Runs : pc[r] = "wait" => \E c \in Runs : parent[c] = r
  /\ \A W \in SUBSET Runs : W # {} => \E r \in W : \A c \in W : parent[c] # r

\* Of any runs that wait, one waits for a child that is not among them and has been
\* started: there is no circle, and the end of a chain can move or has ended.
WaitsUnwind ==
  \A W \in SUBSET {r \in Runs : pc[r] = "wait"} : W # {} =>
    \E r \in W, c \in Runs \ W : parent[c] = r /\ pc[c] # "idle"

\* A spawned run has no child: no circle is closed.
LEMMA SpawnDescent ==
  ASSUME TypeInv, Descent, NEW r \in Runs, NEW c \in Runs, Spawn(r, c)
  PROVE  Descent'
<1>1. /\ r # c /\ pc[r] = "spawn" /\ pc[c] = "idle"
      /\ pc'[r] = "wait" /\ pc'[c] = "check" /\ parent'[c] = r
      /\ \A q \in Runs \ {r, c} : pc'[q] = pc[q]
      /\ \A q \in Runs \ {c} : parent'[q] = parent[q]
  BY DEF Spawn, TypeInv, TypeOK
<1>2. \A d \in Runs : parent[d] # r /\ parent[d] # c
  BY <1>1 DEF Descent, Finished
<1>3. \A W \in SUBSET Runs : W # {} => \E q \in W : \A d \in W : parent'[d] # q
  <2> SUFFICES ASSUME NEW W \in SUBSET Runs, W # {}
               PROVE  \E q \in W : \A d \in W : parent'[d] # q
    OBVIOUS
  <2>1. CASE c \in W
    BY <1>1, <1>2, <2>1
  <2>2. CASE c \notin W
    BY <1>1, <2>2 DEF Descent
  <2> QED
    BY <2>1, <2>2
<1>4. \A q \in Runs : pc'[q] = "idle" => parent'[q] = NoRun
  BY <1>1 DEF Descent
<1>5. \A q, d \in Runs : parent'[d] = q => pc'[q] \in {"wait"} \cup Finished
  BY <1>1, <1>2 DEF Descent
<1>6. \A d, e \in Runs : parent'[d] \in Runs /\ parent'[d] = parent'[e] => d = e
  BY <1>1, <1>2 DEF Descent
<1>7. \A q \in Runs : pc'[q] = "wait" => \E d \in Runs : parent'[d] = q
  <2> SUFFICES ASSUME NEW q \in Runs, pc'[q] = "wait" PROVE \E d \in Runs : parent'[d] = q
    OBVIOUS
  <2>1. CASE q = r
    BY <1>1, <2>1
  <2>2. CASE q # r
    <3>1. PICK d \in Runs : parent[d] = q
      BY <1>1, <2>2 DEF Descent
    <3>2. d # c
      BY <1>1, <3>1, QueueConstants DEF Descent
    <3> QED
      BY <1>1, <3>1, <3>2
  <2> QED
    BY <2>1, <2>2
<1> QED
  BY <1>3, <1>4, <1>5, <1>6, <1>7 DEF Descent

\* All other steps leave children with their parents, and a waiting run waits until
\* it has ended.
LEMMA NextDescent == TypeInv /\ TypeInv' /\ Descent /\ [Next]_vars => Descent'
<1> SUFFICES ASSUME TypeInv, TypeInv', Descent, [Next]_vars PROVE Descent'
  OBVIOUS
<1>1. ASSUME parent' = parent,
             \A r \in Runs : /\ pc'[r] \in {"idle", "wait"} => pc'[r] = pc[r]
                             /\ pc[r] \in {"wait"} \cup Finished =>
                                  pc'[r] \in {"wait"} \cup Finished
      PROVE  Descent'
  BY <1>1 DEF Descent
<1>2. ASSUME NEW r \in Runs, NEW stage, Goto(r, stage), parent' = parent,
             stage \notin {"idle", "wait"},
             pc[r] \in {"wait"} \cup Finished => stage \in Finished
      PROVE  Descent'
  <2>1. pc'[r] = stage /\ \A q \in Runs \ {r} : pc'[q] = pc[q]
    BY <1>2 DEF Goto, TypeInv, TypeOK
  <2> QED
    BY <1>1, <1>2, <2>1
<1>3. CASE UNCHANGED vars \/ Tick \/ (\E r \in Runs : Beat(r))
  BY <1>1, <1>3 DEF vars, Tick, Beat
<1>4. ASSUME NEW r \in Runs, NEW o \in Orders, Submit(r, o) PROVE Descent'
  BY <1>2, <1>4 DEF Submit, Finished
<1>5. ASSUME NEW r \in Runs, Bootstrap(r) PROVE Descent'
  <2>1. /\ parent' = parent /\ pc[r] \notin {"wait"} \cup Finished
        /\ \E stage \in Stages \ {"idle", "wait"} : Goto(r, stage)
    BY <1>5 DEF Bootstrap, CheckLock, ReadLock, StatVanishes, StatStale, StatActive,
       TakeOver, Purge, WriteLock, Enqueue, Position, Stages, Section, Holding, Working,
       Finished
  <2> QED
    BY <1>2, <2>1
<1>6. ASSUME NEW r \in Runs, Progress(r) PROVE Descent'
  <2>1. /\ parent' = parent /\ pc[r] \notin {"wait"} \cup Finished
        /\ \E stage \in Stages \ {"idle", "wait"} : Goto(r, stage)
    BY <1>6 DEF Progress, Delegate, Resume, Report, Stages, Section, Holding, Working,
       Finished
  <2> QED
    BY <1>2, <2>1
<1>7. ASSUME NEW r \in Runs, Fault(r) PROVE Descent'
  <2>1. parent' = parent /\ \E stage \in Finished : Goto(r, stage)
    BY <1>7 DEF Fault, ReportThrows, PhaseThrows, Interrupt, Kill, SpawnFails, Finished
  <2> QED
    BY <1>2, <2>1 DEF Finished
<1>8. ASSUME NEW r \in Runs,
             \/ CheckOwner(r) \/ Unlink(r) \/ ListEmpty(r) \/ ListNext(r) \/ Dequeue(r)
             \/ Reap(r)
      PROVE  Descent'
  <2>1. /\ parent' = parent /\ pc[r] \notin Finished
        /\ \E stage \in Stages \ {"idle", "wait"} :
             Goto(r, stage) /\ (pc[r] = "wait" => stage \in Finished)
    BY <1>8 DEF CheckOwner, Unlink, ListEmpty, ListNext, Dequeue, Reap, Stages, Section,
       Holding, Working, Finished
  <2> QED
    BY <1>2, <2>1
<1> QED
  BY <1>3, <1>4, <1>5, <1>6, <1>7, <1>8, SpawnDescent DEF Next, Release

\* Releasing runs block in spawnSync on a child that may queue, release and spawn
\* itself (lock-manager.ts:339): however long the chain and whatever is killed,
\* starved or interleaved, they never wait for each other in a circle.
THEOREM NobodyWaitsInACircle == Spec => []WaitsUnwind
<1>1. Init => Descent
  BY QueueConstants DEF Init, Descent
<1>2. Descent => WaitsUnwind
  <2> SUFFICES ASSUME Descent, NEW W \in SUBSET {r \in Runs : pc[r] = "wait"}, W # {}
               PROVE  \E r \in W, c \in Runs \ W : parent[c] = r /\ pc[c] # "idle"
    BY DEF WaitsUnwind
  <2>1. W \in SUBSET Runs /\ \A r \in W : pc[r] = "wait"
    OBVIOUS
  <2>2. PICK r \in W : \A c \in W : parent[c] # r
    BY <2>1 DEF Descent
  <2>3. PICK c \in Runs : parent[c] = r
    BY <2>1, <2>2 DEF Descent
  <2>4. c \notin W /\ pc[c] # "idle"
    BY <2>1, <2>2, <2>3, QueueConstants DEF Descent
  <2> QED
    BY <2>2, <2>3, <2>4
<1> QED
  BY <1>1, <1>2, InitType, NextType, NextDescent, PTL DEF Spec
=============================================================================
