------------------------------- MODULE Cutover -------------------------------
(***************************************************************************)
(* The preflight of the Node cutover: it reads the closure ledger, the     *)
(* Turnlock runs and the order directory one file after the other, while   *)
(* git-commits-push goes on working in them, and says whether anything     *)
(* stands in the way.  What a run leaves on disk is modelled as the order  *)
(* queue, Turnlock and a crash make it; the content of a file is reduced   *)
(* to what the preflight tells apart.                                      *)
(***************************************************************************)
EXTENDS FiniteSets

CONSTANTS
  CutRuns,        \* Turnlock runs
  CutOrders       \* orders that may be queued

VARIABLES
  cutProcess,     \* of each run: its process, from "idle" to "gone"
  runDir,         \* its directory: no terminal event ("open") or one ("ended")
  turnLock,       \* its .lock: "none", "leased" or "stale"
  queueLock,      \* the runs whose running.lock is there, one at most
  orders,         \* order files
  closed,         \* runs in the closure ledger
  cutPc, ledger, toInspect, inspecting, lockListed,  \* of the preflight
  blockers,
  standing        \* history: what has blocked ever since the preflight began

workVars == <<cutProcess, runDir, turnLock, queueLock, orders, closed>>
checkVars == <<cutPc, ledger, toInspect, inspecting, lockListed, blockers>>
cutVars == <<workVars, checkVars, standing>>

CutInit ==
  /\ cutProcess = [r \in CutRuns |-> "idle"]
  /\ runDir = [r \in CutRuns |-> "none"]
  /\ turnLock = [r \in CutRuns |-> "none"]
  /\ queueLock = {} /\ orders = {} /\ closed = {}
  /\ cutPc = "idle"
  /\ ledger = {} /\ toInspect = {} /\ inspecting = {}
  /\ lockListed = FALSE
  /\ blockers = {} /\ standing = {}

\* What stands in the way of the cutover, as docs/node-cutover-preflight.md
\* has it.
InTheWay(directory, lock, queued, filed, ended) ==
  {<<"run", r>> : r \in {r \in CutRuns : directory[r] = "open" /\ r \notin ended}}
  \cup {<<"turnlock", r>> : r \in {r \in CutRuns : lock[r] # "none"}}
  \cup {<<"queue lock", r>> : r \in queued}
  \cup {<<"order", o>> : o \in filed}

BlocksNow == InTheWay(runDir, turnLock, queueLock, orders, closed)

-----------------------------------------------------------------------------
(* git-commits-push at work.                                                *)

TakeQueueLock(r) ==
  /\ cutProcess[r] = "idle" /\ queueLock = {}
  /\ cutProcess' = [cutProcess EXCEPT ![r] = "locked"]
  /\ queueLock' = {r}
  /\ UNCHANGED <<runDir, turnLock, orders, closed>>

OpenRun(r) ==
  /\ cutProcess[r] = "locked"
  /\ cutProcess' = [cutProcess EXCEPT ![r] = "working"]
  /\ runDir' = [runDir EXCEPT ![r] = "open"]
  /\ turnLock' = [turnLock EXCEPT ![r] = "leased"]
  /\ UNCHANGED <<queueLock, orders, closed>>

QueueOrder(o) ==
  /\ queueLock # {} /\ o \notin orders
  /\ orders' = orders \cup {o}
  /\ UNCHANGED <<cutProcess, runDir, turnLock, queueLock, closed>>

\* The queue lock goes, and the first order with it.
ReleaseQueue(r) ==
  /\ cutProcess[r] = "working"
  /\ cutProcess' = [cutProcess EXCEPT ![r] = "released"]
  /\ queueLock' = queueLock \ {r}
  /\ IF orders = {} THEN UNCHANGED orders ELSE \E o \in orders : orders' = orders \ {o}
  /\ UNCHANGED <<runDir, turnLock, closed>>

EndRun(r) ==
  /\ cutProcess[r] = "released"
  /\ cutProcess' = [cutProcess EXCEPT ![r] = "gone"]
  /\ runDir' = [runDir EXCEPT ![r] = "ended"]
  /\ turnLock' = [turnLock EXCEPT ![r] = "none"]
  /\ UNCHANGED <<queueLock, orders, closed>>

\* A process dies and leaves its files; its lease expires.
RunDies(r) ==
  /\ cutProcess[r] \in {"locked", "working", "released"}
  /\ cutProcess' = [cutProcess EXCEPT ![r] = "gone"]
  /\ turnLock' = [turnLock EXCEPT ![r] = IF @ = "leased" THEN "stale" ELSE @]
  /\ UNCHANGED <<runDir, queueLock, orders, closed>>

\* The operator closes a run after looking at it, and clears what is stale.
CleanUp(r) ==
  /\ cutProcess[r] = "gone"
  /\ \/ closed' = closed \cup {r} /\ UNCHANGED <<turnLock, queueLock>>
     \/ turnLock' = [turnLock EXCEPT ![r] = "none"] /\ UNCHANGED <<closed, queueLock>>
     \/ queueLock' = queueLock \ {r} /\ UNCHANGED <<closed, turnLock>>
  /\ UNCHANGED <<cutProcess, runDir, orders>>

WorkGoesOn ==
  \/ \E r \in CutRuns : \/ TakeQueueLock(r) \/ OpenRun(r) \/ ReleaseQueue(r)
                        \/ EndRun(r) \/ RunDies(r) \/ CleanUp(r)
  \/ \E o \in CutOrders : QueueOrder(o)

-----------------------------------------------------------------------------
(* inspectNodeCutoverState.                                                 *)

\* The ledger is read; one that is not readable or not valid closes no run.
ReadClosureLedger ==
  /\ cutPc = "idle"
  /\ cutPc' = "list"
  /\ \/ ledger' = closed /\ UNCHANGED blockers
     \/ ledger' = {} /\ blockers' = {<<"ledger", "invalid">>}
  /\ UNCHANGED <<toInspect, inspecting, lockListed>>

ListRuns ==
  /\ cutPc = "list"
  /\ \/ /\ toInspect' = {r \in CutRuns : runDir[r] # "none"}
        /\ UNCHANGED blockers
     \/ /\ toInspect' = {}
        /\ blockers' = blockers \cup {<<"runs", "unreadable">>}
  /\ cutPc' = "inspect"
  /\ UNCHANGED <<ledger, inspecting, lockListed>>

\* Mutant of InspectTurnlockLock: a closed run is not looked at.
InspectTurnlockLockOfOpen(r) ==
  /\ cutPc = "inspect" /\ inspecting = {} /\ r \in toInspect
  /\ blockers' = blockers \cup IF turnLock[r] # "none" /\ r \notin ledger
                               THEN {<<"turnlock", r>>} ELSE {}
  /\ inspecting' = {r}
  /\ UNCHANGED <<cutPc, ledger, toInspect, lockListed>>

\* A lock blocks, active or stale (or malformed), that of a closed run too.
InspectTurnlockLock(r) ==
  /\ cutPc = "inspect" /\ inspecting = {} /\ r \in toInspect
  /\ blockers' = blockers \cup IF turnLock[r] # "none" THEN {<<"turnlock", r>>} ELSE {}
  /\ inspecting' = {r}
  /\ UNCHANGED <<cutPc, ledger, toInspect, lockListed>>

\* readTerminalEvent, which may fail to read; incompatibleRunReason gives the
\* reason for the rest.
Classification(r, readable) ==
  IF r \in ledger THEN "explicitly-closed"
  ELSE IF readable /\ runDir[r] = "ended" THEN "drained" ELSE "rejected-incompatible"

InspectRun(r) ==
  /\ r \in inspecting
  /\ \E readable \in BOOLEAN :
       blockers' = blockers \cup IF Classification(r, readable) = "rejected-incompatible"
                                 THEN {<<"run", r>>} ELSE {}
  /\ toInspect' = toInspect \ {r}
  /\ inspecting' = {}
  /\ UNCHANGED <<cutPc, ledger, lockListed>>

\* The directory is listed: every order file in it blocks.
ListOrderState ==
  /\ cutPc = "inspect" /\ toInspect = {}
  /\ \/ /\ blockers' = blockers \cup {<<"order", o>> : o \in orders}
        /\ lockListed' = (queueLock # {})
     \/ /\ blockers' = blockers \cup {<<"orders", "unreadable">>}
        /\ lockListed' = FALSE
  /\ cutPc' = "queue"
  /\ UNCHANGED <<ledger, toInspect, inspecting>>

\* A running.lock that was listed blocks, whether it is live or stale, or has
\* gone or changed and cannot be read.
InspectQueueLock ==
  /\ cutPc = "queue"
  /\ blockers' = blockers \cup
       IF lockListed
       THEN {<<"queue lock", r>> : r \in queueLock} \cup {<<"lock", "listed">>} ELSE {}
  /\ cutPc' = "done"
  /\ UNCHANGED <<ledger, toInspect, inspecting, lockListed>>

Preflighting ==
  \/ ReadClosureLedger \/ ListRuns \/ ListOrderState \/ InspectQueueLock
  \/ \E r \in CutRuns : InspectTurnlockLock(r) \/ InspectRun(r)

Ready == cutPc = "done" /\ blockers = {}

CutNext ==
  \/ WorkGoesOn /\ UNCHANGED checkVars /\ standing' = standing \cap BlocksNow'
  \/ /\ Preflighting /\ UNCHANGED workVars
     /\ standing' = IF cutPc = "idle" THEN BlocksNow ELSE standing

CutSpec == CutInit /\ [][CutNext]_cutVars

-----------------------------------------------------------------------------
(* Property.                                                                *)

\* The preflight reads its files one by one and without a lock; it is not
\* ready if any one thing stood in the way from its first read to its last:
\* a run neither ended nor closed, a Turnlock lock, of a closed run too, the
\* queue lock, or an order.
ReadyMissesNothing == Ready => standing = {}
=============================================================================
