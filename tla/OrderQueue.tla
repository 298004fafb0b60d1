----------------------------- MODULE OrderQueue -----------------------------
(***************************************************************************)
(* The order queue of skills/git-commits-push: the lock file running.lock, *)
(* the directory of queued orders, and the runs that share them.           *)
(*                                                                         *)
(* A run is one execution of the skill (a runId); an order is one request  *)
(* of a user or an agent (an orderId), which outlives the run that first   *)
(* carried it when that run finds the lock taken, files the order and      *)
(* exits.  Every step below is one call on the shared file system, since   *)
(* between two such calls any other process of the machine may act.        *)
(***************************************************************************)
EXTENDS Naturals, FiniteSets

CONSTANTS
  Runs,            \* run identifiers (createRunId)
  Orders,          \* order identifiers (createOrderId)
  NoRun, NoOrder,  \* absent values; lockOwner = NoRun: there is no lock file
  StaleAfter,      \* heartbeat periods after which a lock is stale (40s / 10s)
  MaxDelegations,  \* LLM delegations of one run: the first and its retries
  Adversity        \* what the environment may do, a subset of AdverseEvents

(* "race": the short file-system sections of two runs may interleave.      *)
(* "starve": a run in synchronous code (execSync of a test cascade or of   *)
(*    git) misses its heartbeat timer.                                     *)
(* "kill": a signal may end any process, a child may fail to start.        *)
(* "abort": a phase function throws.  "telemetry": an event cannot be      *)
(*    written when the run reports its end.                                *)
AdverseEvents == {"race", "starve", "kill", "abort", "telemetry"}

ASSUME QueueConstants ==
  /\ NoRun \notin Runs
  /\ NoOrder \notin Orders
  /\ IsFiniteSet(Orders)
  /\ StaleAfter \in Nat
  /\ MaxDelegations \in Nat
  /\ Adversity \subseteq AdverseEvents

VARIABLES
  pc,           \* the stage of each run
  order,        \* the order each run carries (GCP_ORDER_ID)
  parent,       \* the run whose release spawned this one
  delegations,  \* LLM delegations made so far by each run
  target,       \* the oldest order a releasing run has listed
  lockOwner,    \* runId in running.lock, NoRun when the file is absent
  lockAge,      \* heartbeat periods since the mtime of running.lock
  queue,        \* orders with a file order-<queuedAt>-<id>.json
  stamp         \* queuedAtEpochMs of each order, 0 before it is first queued

vars == <<pc, order, parent, delegations, target, lockOwner, lockAge, queue,
          stamp>>

-----------------------------------------------------------------------------
(* Stages.                                                                  *)

\* checkAndAcquireLock and releaseLockAndTriggerNext after their first call.
Section == {"read", "stat", "takeover", "purge", "write", "enqueue",
            "position", "unlink", "list", "dequeue"}

\* The run does the work of its order.
Working == {"work", "infer"}

\* The run has acquired the lock and has not removed it yet.
Holding == Working \cup {"release", "unlink"}

Finished == {"parked", "done", "failed", "killed"}

Stages == {"idle", "check", "spawn", "wait"} \cup Section \cup Holding
            \cup Finished

Live(r) == pc[r] \notin {"idle"} \cup Finished

Goto(r, stage) == pc' = [pc EXCEPT ![r] = stage]

\* Without "race" a run enters its section only while no other run is in one.
Quiet(r) == "race" \in Adversity \/ \A q \in Runs \ {r} : pc[q] \notin Section

Submitted(o) == \E r \in Runs : order[r] = o

\* createRunId and createOrderId return an identifier nobody has used; which
\* one is of no consequence.
NewRun == CHOOSE r \in Runs : pc[r] = "idle"
NewOrder == CHOOSE o \in Orders : ~Submitted(o)

Init ==
  /\ pc = [r \in Runs |-> "idle"]
  /\ order = [r \in Runs |-> NoOrder]
  /\ parent = [r \in Runs |-> NoRun]
  /\ delegations = [r \in Runs |-> 0]
  /\ target = [r \in Runs |-> NoOrder]
  /\ lockOwner = NoRun
  /\ lockAge = 0
  /\ queue = {}
  /\ stamp = [o \in Orders |-> 0]

-----------------------------------------------------------------------------
(* Bootstrap: bootstrapOrchestratorRun and checkAndAcquireLock.             *)

\* A user or an agent starts the skill; the run and the order are new.
Submit(r, o) ==
  /\ pc[r] = "idle"
  /\ r = NewRun
  /\ ~Submitted(o)
  /\ o = NewOrder
  /\ order' = [order EXCEPT ![r] = o]
  /\ Goto(r, "check")
  /\ UNCHANGED <<parent, delegations, target, lockOwner, lockAge, queue, stamp>>

\* fs.existsSync(lockPath)
CheckLock(r) ==
  /\ pc[r] = "check"
  /\ Quiet(r)
  /\ Goto(r, IF lockOwner = NoRun THEN "write" ELSE "read")
  /\ UNCHANGED <<order, parent, delegations, target, lockOwner, lockAge, queue,
                 stamp>>

\* readLock: a file that vanished since existsSync reads as malformed, and is
\* overwritten.  A run that finds its own identifier goes on without a write.
ReadLock(r) ==
  /\ pc[r] = "read"
  /\ Goto(r, IF lockOwner = NoRun THEN "write"
             ELSE IF lockOwner = r THEN "work" ELSE "stat")
  /\ UNCHANGED <<order, parent, delegations, target, lockOwner, lockAge, queue,
                 stamp>>

\* statSync throws when the file vanished since readLock.
StatVanishes(r) ==
  /\ pc[r] = "stat"
  /\ lockOwner = NoRun
  /\ Goto(r, "failed")
  /\ UNCHANGED <<order, parent, delegations, target, lockOwner, lockAge, queue,
                 stamp>>

\* Mutant of StatStale: the age is compared with >=.
StatStaleTooEarly(r) ==
  /\ pc[r] = "stat"
  /\ lockOwner # NoRun
  /\ lockAge >= StaleAfter
  /\ Goto(r, "takeover")
  /\ UNCHANGED <<order, parent, delegations, target, lockOwner, lockAge, queue,
                 stamp>>

\* Mutant of StatStale: the age is not looked at.
StatStaleAlways(r) ==
  /\ pc[r] = "stat"
  /\ lockOwner # NoRun
  /\ Goto(r, "takeover")
  /\ UNCHANGED <<order, parent, delegations, target, lockOwner, lockAge, queue,
                 stamp>>

StatStale(r) ==
  /\ pc[r] = "stat"
  /\ lockOwner # NoRun
  /\ lockAge > StaleAfter
  /\ Goto(r, "takeover")
  /\ UNCHANGED <<order, parent, delegations, target, lockOwner, lockAge, queue,
                 stamp>>

\* queuedAtEpochMs: a spawned run keeps the stamp its order was first given.
\* Stamps are ranks: the clock gives a later order a larger one.
NextStamp == 1 + Cardinality({p \in Orders : stamp[p] > 0})

\* Mutant of StatActive: the order is announced as queued and never filed.
StatActiveUnfiled(r) ==
  /\ pc[r] = "stat"
  /\ lockOwner # NoRun
  /\ lockAge <= StaleAfter
  /\ Goto(r, "parked")
  /\ UNCHANGED <<order, parent, delegations, target, lockOwner, lockAge, queue,
                 stamp>>

StatActive(r) ==
  /\ pc[r] = "stat"
  /\ lockOwner # NoRun
  /\ lockAge <= StaleAfter
  /\ stamp' = [stamp EXCEPT ![order[r]] = IF @ = 0 THEN NextStamp ELSE @]
  /\ Goto(r, "enqueue")
  /\ UNCHANGED <<order, parent, delegations, target, lockOwner, lockAge, queue>>

\* unlinkSync of the stale lock; if it throws, the queue is not cleared.
TakeOver(r) ==
  /\ pc[r] = "takeover"
  /\ Goto(r, IF lockOwner = NoRun THEN "write" ELSE "purge")
  /\ lockOwner' = NoRun
  /\ lockAge' = 0
  /\ UNCHANGED <<order, parent, delegations, target, queue, stamp>>

\* deleteQueuedOrderFiles
Purge(r) ==
  /\ pc[r] = "purge"
  /\ queue' = {}
  /\ Goto(r, "write")
  /\ UNCHANGED <<order, parent, delegations, target, lockOwner, lockAge, stamp>>

\* writeLock, a plain overwrite; then startHeartbeat and setupCleanupHooks.
WriteLock(r) ==
  /\ pc[r] = "write"
  /\ lockOwner' = r
  /\ lockAge' = 0
  /\ Goto(r, "work")
  /\ UNCHANGED <<order, parent, delegations, target, queue, stamp>>

\* The first writeQueuedOrder: temporary file and rename.
Enqueue(r) ==
  /\ pc[r] = "enqueue"
  /\ queue' = queue \cup {order[r]}
  /\ Goto(r, "position")
  /\ UNCHANGED <<order, parent, delegations, target, lockOwner, lockAge, stamp>>

\* The queue is listed for the position, and the order is written a second
\* time with it, whether or not its file is still there; then exit 0.
Position(r) ==
  /\ pc[r] = "position"
  /\ queue' = queue \cup {order[r]}
  /\ Goto(r, "parked")
  /\ UNCHANGED <<order, parent, delegations, target, lockOwner, lockAge, stamp>>

-----------------------------------------------------------------------------
(* The work of a run: orchestrator process, bridge process, heartbeat.      *)

\* The orchestrator hands a batch to the bridge and exits; the bridge beats.
Delegate(r) ==
  /\ pc[r] = "work"
  /\ delegations[r] < MaxDelegations
  /\ delegations' = [delegations EXCEPT ![r] = @ + 1]
  /\ Goto(r, "infer")
  /\ UNCHANGED <<order, parent, target, lockOwner, lockAge, queue, stamp>>

\* The bridge resumes the orchestrator: --resume never looks at the lock.
Resume(r) ==
  /\ pc[r] = "infer"
  /\ Goto(r, "work")
  /\ UNCHANGED <<order, parent, delegations, target, lockOwner, lockAge, queue,
                 stamp>>

\* The phase reports and logs its end, then calls releaseLockAndTriggerNext.
Report(r) ==
  /\ pc[r] = "work"
  /\ Goto(r, "release")
  /\ UNCHANGED <<order, parent, delegations, target, lockOwner, lockAge, queue,
                 stamp>>

\* The log call before the release is not guarded: an error ends the process.
ReportThrows(r) ==
  /\ "telemetry" \in Adversity
  /\ pc[r] = "work"
  /\ Goto(r, "failed")
  /\ UNCHANGED <<order, parent, delegations, target, lockOwner, lockAge, queue,
                 stamp>>

\* A phase rejects: the orchestrator exits with 1 and leaves the lock.
PhaseThrows(r) ==
  /\ "abort" \in Adversity
  /\ pc[r] = "work"
  /\ Goto(r, "failed")
  /\ UNCHANGED <<order, parent, delegations, target, lockOwner, lockAge, queue,
                 stamp>>

\* SIGINT or an uncaught exception: the hook removes the lock if the run owns
\* it and exits; the queue is not looked at.
Interrupt(r) ==
  /\ "kill" \in Adversity
  /\ pc[r] \in Working
  /\ lockOwner' = IF lockOwner = r THEN NoRun ELSE lockOwner
  /\ lockAge' = IF lockOwner = r THEN 0 ELSE lockAge
  /\ Goto(r, "killed")
  /\ UNCHANGED <<order, parent, delegations, target, queue, stamp>>

\* Any other signal: no hook runs.
Kill(r) ==
  /\ "kill" \in Adversity
  /\ Live(r)
  /\ Goto(r, "killed")
  /\ UNCHANGED <<order, parent, delegations, target, lockOwner, lockAge, queue,
                 stamp>>

\* Mutant of Beat: the timer outlives the process that set it.
BeatAfterDeath(r) ==
  /\ pc[r] \in Working \cup {"killed"}
  /\ lockOwner # NoRun
  /\ lockAge' = 0
  /\ UNCHANGED <<pc, order, parent, delegations, target, lockOwner, queue, stamp>>

\* The interval callback touches the lock file, whoever owns it.
Beat(r) ==
  /\ pc[r] \in Working
  /\ lockOwner # NoRun
  /\ lockAge' = 0
  /\ UNCHANGED <<pc, order, parent, delegations, target, lockOwner, queue, stamp>>

\* Mutant of Tick: the bridge does not start a heartbeat.
TickDuringInference ==
  /\ lockOwner # NoRun
  /\ lockAge <= StaleAfter
  /\ \A r \in Runs : pc[r] \in Holding \ {"infer"} => "starve" \in Adversity
  /\ lockAge' = lockAge + 1
  /\ UNCHANGED <<pc, order, parent, delegations, target, lockOwner, queue, stamp>>

\* A heartbeat period passes without a touch: no bridge is waiting for its
\* LLM, and no orchestrator is alive unless synchronous code may starve it.
Tick ==
  /\ lockOwner # NoRun
  /\ lockAge <= StaleAfter
  /\ \A r \in Runs : /\ pc[r] # "infer"
                     /\ pc[r] \in Holding => "starve" \in Adversity
  /\ lockAge' = lockAge + 1
  /\ UNCHANGED <<pc, order, parent, delegations, target, lockOwner, queue, stamp>>

-----------------------------------------------------------------------------
(* Release: releaseLockAndTriggerNext.                                      *)

\* existsSync, readLock: only the owner goes on to the queue.
CheckOwner(r) ==
  /\ pc[r] = "release"
  /\ Quiet(r)
  /\ Goto(r, IF lockOwner = r THEN "unlink" ELSE "done")
  /\ UNCHANGED <<order, parent, delegations, target, lockOwner, lockAge, queue,
                 stamp>>

\* Mutant of Unlink: the run leaves without looking at the queue.
UnlinkForgetsQueue(r) ==
  /\ pc[r] = "unlink"
  /\ lockOwner' = NoRun
  /\ lockAge' = 0
  /\ Goto(r, "done")
  /\ UNCHANGED <<order, parent, delegations, target, queue, stamp>>

\* Mutant of Unlink: the queue is handed on before the lock is removed.
UnlinkForgetsLock(r) ==
  /\ pc[r] = "unlink"
  /\ Goto(r, "list")
  /\ UNCHANGED <<order, parent, delegations, target, lockOwner, lockAge, queue,
                 stamp>>

\* unlinkSync removes the file at the path, whoever wrote it.
Unlink(r) ==
  /\ pc[r] = "unlink"
  /\ lockOwner' = NoRun
  /\ lockAge' = 0
  /\ Goto(r, "list")
  /\ UNCHANGED <<order, parent, delegations, target, queue, stamp>>

\* Mutant of Oldest: the list is sorted the other way.
Newest(o) == o \in queue /\ \A p \in queue : stamp[o] >= stamp[p]

\* listQueuedOrders sorts by queuedAtEpochMs.
Oldest(o) == o \in queue /\ \A p \in queue : stamp[o] <= stamp[p]

ListEmpty(r) ==
  /\ pc[r] = "list"
  /\ queue = {}
  /\ Goto(r, "done")
  /\ UNCHANGED <<order, parent, delegations, target, lockOwner, lockAge, queue,
                 stamp>>

ListNext(r) ==
  /\ pc[r] = "list"
  /\ \E o \in Orders :
       /\ Oldest(o)
       /\ target' = [target EXCEPT ![r] = o]
  /\ Goto(r, "dequeue")
  /\ UNCHANGED <<order, parent, delegations, lockOwner, lockAge, queue, stamp>>

\* Mutant of Dequeue: the file of the triggered order stays.
DequeueKeepsFile(r) ==
  /\ pc[r] = "dequeue"
  /\ Goto(r, "spawn")
  /\ UNCHANGED <<order, parent, delegations, target, lockOwner, lockAge, queue,
                 stamp>>

\* deleteQueuedOrder; an error (the file is gone) is ignored.
Dequeue(r) ==
  /\ pc[r] = "dequeue"
  /\ queue' = queue \ {target[r]}
  /\ Goto(r, "spawn")
  /\ UNCHANGED <<order, parent, delegations, target, lockOwner, lockAge, stamp>>

\* Mutant of Spawn: the child's environment does not name the order.
SpawnWithoutOrder(r, c) ==
  /\ pc[r] = "spawn"
  /\ pc[c] = "idle"
  /\ c = NewRun
  /\ parent' = [parent EXCEPT ![c] = r]
  /\ target' = [target EXCEPT ![r] = NoOrder]
  /\ pc' = [pc EXCEPT ![r] = "wait", ![c] = "check"]
  /\ UNCHANGED <<order, delegations, lockOwner, lockAge, queue, stamp>>

\* spawnSync of the whole pipeline with the order in its environment.
Spawn(r, c) ==
  /\ pc[r] = "spawn"
  /\ pc[c] = "idle"
  /\ c = NewRun
  /\ order' = [order EXCEPT ![c] = target[r]]
  /\ parent' = [parent EXCEPT ![c] = r]
  /\ target' = [target EXCEPT ![r] = NoOrder]
  /\ pc' = [pc EXCEPT ![r] = "wait", ![c] = "check"]
  /\ UNCHANGED <<delegations, lockOwner, lockAge, queue, stamp>>

\* The result of spawnSync is not looked at: a failed start drops the order.
SpawnFails(r) ==
  /\ "kill" \in Adversity
  /\ pc[r] = "spawn"
  /\ target' = [target EXCEPT ![r] = NoOrder]
  /\ Goto(r, "done")
  /\ UNCHANGED <<order, parent, delegations, lockOwner, lockAge, queue, stamp>>

\* Mutant of Reap: only a child that succeeded is waited for.
ReapSuccess(r) ==
  /\ pc[r] = "wait"
  /\ \E c \in Runs : parent[c] = r /\ pc[c] \in {"parked", "done"}
  /\ Goto(r, "done")
  /\ UNCHANGED <<order, parent, delegations, target, lockOwner, lockAge, queue,
                 stamp>>

\* spawnSync returns when the child has ended, however it ended.
Reap(r) ==
  /\ pc[r] = "wait"
  /\ \E c \in Runs : parent[c] = r /\ pc[c] \in Finished
  /\ Goto(r, "done")
  /\ UNCHANGED <<order, parent, delegations, target, lockOwner, lockAge, queue,
                 stamp>>

-----------------------------------------------------------------------------
Bootstrap(r) ==
  \/ CheckLock(r) \/ ReadLock(r) \/ StatVanishes(r) \/ StatStale(r)
  \/ StatActive(r) \/ TakeOver(r) \/ Purge(r) \/ WriteLock(r) \/ Enqueue(r)
  \/ Position(r)

Progress(r) == Delegate(r) \/ Resume(r) \/ Report(r)

Release(r) ==
  \/ CheckOwner(r) \/ Unlink(r) \/ ListEmpty(r) \/ ListNext(r) \/ Dequeue(r)
  \/ Reap(r)
  \/ \E c \in Runs : Spawn(r, c)

Fault(r) ==
  \/ ReportThrows(r) \/ PhaseThrows(r) \/ Interrupt(r) \/ Kill(r)
  \/ SpawnFails(r)

Next ==
  \/ Tick
  \/ \E r \in Runs :
       \/ \E o \in Orders : Submit(r, o)
       \/ Bootstrap(r) \/ Progress(r) \/ Release(r) \/ Fault(r) \/ Beat(r)

Spec == Init /\ [][Next]_vars

\* The operating system runs every process; a phase ends (its commands and its
\* LLM calls have time limits) and the orchestrator does not delegate for
\* ever; time passes.  Nothing makes a user submit, or a fault occur.
Fairness ==
  /\ \A r \in Runs : WF_vars(Bootstrap(r) \/ Progress(r) \/ Release(r))
  /\ WF_vars(Tick)

FairSpec == Spec /\ Fairness

-----------------------------------------------------------------------------
(* Properties.                                                              *)

\* Every variable keeps its type.
TypeOK ==
  /\ pc \in [Runs -> Stages]
  /\ order \in [Runs -> Orders \cup {NoOrder}]
  /\ parent \in [Runs -> Runs \cup {NoRun}]
  /\ delegations \in [Runs -> 0 .. MaxDelegations]
  /\ target \in [Runs -> Orders \cup {NoOrder}]
  /\ lockOwner \in Runs \cup {NoRun}
  /\ lockAge \in Nat
  /\ queue \subseteq Orders
  /\ stamp \in [Orders -> Nat]

\* Two runs never work on the repositories at the same time: the purpose of
\* the lock (specs/order.md:8-10).
MutualExclusion ==
  \A q, r \in Runs : pc[q] \in Working /\ pc[r] \in Working => q = r

\* A lock file names a run that still holds it or one that died: no run that
\* ends in an orderly way, at whichever return of releaseLockAndTriggerNext,
\* and no run blocked on its child, leaves the lock behind.
NoLeakedLock ==
  \A r \in Runs : lockOwner = r => pc[r] \in Holding \cup {"failed", "killed"}

\* The lock of a run that works is the lock in the file, and it is fresh.
HeldLockIsFresh ==
  \A r \in Runs : pc[r] \in Holding => lockOwner = r /\ lockAge = 0

\* A queued order has somebody to carry it out: as long as there is one, some
\* run holds the lock, is about to take it, or is handing an order over.
NoOrphan ==
  queue # {} =>
    \E r \in Runs : pc[r] \in Holding \cup {"list", "dequeue", "spawn", "check",
                                            "write"}

\* The run has taken up its order: it works on it, or has sent it to the LLM.
Begun(r) == delegations[r] > 0 \/ pc[r] \in Holding

\* An order is taken up by one run at most, whoever is killed while the order is
\* filed, listed, deleted and handed to the next run: no restart repeats the work.
TakenUpOnce ==
  \A q, r \in Runs : order[q] = order[r] /\ Begun(q) /\ Begun(r) => q = r

\* A run that fails while it reports its end leaves no lock: "telemetry
\* failures must never prevent lock cleanup" (specs/order.md:199).
FailedRunLeavesNoLock ==
  \A r \in Runs : pc[r] = "failed" => lockOwner # r

\* The lock file disappears only by its owner's release, by its owner's
\* interrupt hook, or because it is stale.
RemovedByRight ==
  lockOwner # NoRun /\ lockOwner' = NoRun =>
    \/ lockAge > StaleAfter
    \/ pc[lockOwner] = "unlink" /\ pc'[lockOwner] = "list"
    \/ pc[lockOwner] \in Working /\ pc'[lockOwner] = "killed"

\* No step removes the lock of a run that still works: every removal is by
\* right, whichever process does it.
LockRemovedByRight == [][RemovedByRight]_vars

\* The run that dequeues an order takes the one queued first: of the orders
\* filed at that moment none was queued earlier (FIFO).
OldestFirst ==
  [][ \A r \in Runs : pc[r] = "dequeue" /\ pc'[r] = "spawn" =>
        \A o \in queue : stamp[target[r]] <= stamp[o] ]_vars

\* A run that was started ends: nobody waits for ever, neither for the lock
\* nor for a child.
EveryRunEnds == \A r \in Runs : Live(r) ~> pc[r] \in Finished

\* The lock of a dead run does not block the queue for ever: it is removed,
\* replaced, or old enough to be taken over.
DeadLockExpires ==
  \A r \in Runs :
    lockOwner = r /\ pc[r] \in {"failed", "killed"}
      ~> lockOwner # r \/ lockAge > StaleAfter

-----------------------------------------------------------------------------
(* Inductive strengthenings, used by the proofs.                            *)

\* A run that was started carries an order; a run that dequeues has one.
RunsCarryOrders ==
  \A r \in Runs :
    /\ pc[r] # "idle" => order[r] \in Orders
    /\ pc[r] \in {"dequeue", "spawn"} => target[r] \in Orders

TypeInv == TypeOK /\ RunsCarryOrders

\* One run at a time is in a section of the file system.
SectionAlone ==
  \A q, r \in Runs : pc[q] \in Section /\ pc[r] \in Section => q = r

\* What a run in its bootstrap has learnt of the lock is still true.
KnowsLock ==
  \A r \in Runs :
    /\ pc[r] \in {"purge", "write"} => lockOwner = NoRun
    /\ pc[r] = "takeover" => lockOwner # NoRun /\ lockAge > StaleAfter

\* Why two runs never work at once when sections do not interleave and no
\* heartbeat is missed: the working run's lock is in the file and never ages.
LockCore == HeldLockIsFresh /\ SectionAlone /\ KnowsLock

LockInv == TypeOK /\ NoLeakedLock /\ LockCore

-----------------------------------------------------------------------------
(* Refinement of OrderService.                                              *)

\* The life of an order, read off the runs that carry it.
StatusOf(o) ==
  LET carriers == {r \in Runs : order[r] = o}
      stages == {pc[r] : r \in carriers}
  IN  IF carriers = {} THEN "new"
      ELSE IF stages \cap Holding # {} THEN "running"
      ELSE IF stages \cap {"list", "dequeue", "spawn", "wait", "done"} # {}
        THEN "served"
      ELSE "waiting"

Service == INSTANCE OrderService WITH status <- [o \in Orders |-> StatusOf(o)]

\* The queue implements the service: one order at a time, each one once.
ImplementsService == Service!Spec

\* Every order that was accepted is eventually carried out.
EveryOrderServed ==
  \A o \in Orders : StatusOf(o) = "waiting" ~> StatusOf(o) = "served"
=============================================================================
