---------------------------- MODULE CutoverProofs ----------------------------
(***************************************************************************)
(* Proofs about Cutover, for every set of Turnlock runs and of orders.     *)
(***************************************************************************)
EXTENDS Cutover, TLAPS

CutTypes ==
  /\ cutProcess \in [CutRuns -> {"idle", "locked", "working", "released", "gone"}]
  /\ runDir \in [CutRuns -> {"none", "open", "ended"}]
  /\ turnLock \in [CutRuns -> {"none", "leased", "stale"}]
  /\ queueLock \subseteq CutRuns /\ orders \subseteq CutOrders /\ closed \subseteq CutRuns
  /\ cutPc \in {"idle", "list", "inspect", "queue", "done"}
  /\ lockListed \in BOOLEAN
  /\ toInspect \subseteq CutRuns /\ inspecting \subseteq toInspect
  /\ inspecting # {} => cutPc = "inspect"

\* A Turnlock lock is in a run's directory; a closed run stays closed.
LocksHaveRuns == \A r \in CutRuns : turnLock[r] # "none" => runDir[r] # "none"
LedgerStays == ledger \subseteq closed

\* What has stood in the way all along still does.
StandingBlocks == standing \subseteq BlocksNow

\* As long as nothing is reported, what has stood in the way all along is of a kind,
\* or in a run, that the preflight has still to come to.
StillToCome ==
  blockers = {} =>
    /\ cutPc = "inspect" =>
         \A r \in CutRuns :
           /\ <<"run", r>> \in standing => r \in toInspect
           /\ <<"turnlock", r>> \in standing => r \in toInspect \ inspecting
    /\ cutPc \in {"queue", "done"} =>
         /\ \A r \in CutRuns : <<"run", r>> \notin standing /\ <<"turnlock", r>> \notin standing
         /\ \A o \in CutOrders : <<"order", o>> \notin standing
         /\ \A r \in CutRuns : <<"queue lock", r>> \in standing => cutPc = "queue" /\ lockListed

CutInv == CutTypes /\ LocksHaveRuns /\ LedgerStays /\ StandingBlocks /\ StillToCome

-----------------------------------------------------------------------------
\* Before the preflight begins nothing has stood in the way all along.
LEMMA CutInitInv == CutInit => CutInv
BY DEF CutInit, CutInv, CutTypes, LocksHaveRuns, LedgerStays, StandingBlocks, StillToCome

\* What is in the way, said of each kind.
LEMMA BlockersNow ==
  ASSUME NEW b \in BlocksNow, CutTypes
  PROVE  \/ \E r \in CutRuns : b = <<"run", r>> /\ runDir[r] = "open" /\ r \notin closed
         \/ \E r \in CutRuns : b = <<"turnlock", r>> /\ turnLock[r] # "none"
         \/ \E r \in CutRuns : b = <<"queue lock", r>> /\ r \in queueLock
         \/ \E o \in CutOrders : b = <<"order", o>> /\ o \in orders
BY DEF BlocksNow, InTheWay, CutTypes

\* Work that goes on meanwhile keeps the invariant: what no longer blocks no longer
\* stands.
LEMMA WorkKeeps ==
  ASSUME CutInv, WorkGoesOn, UNCHANGED checkVars, standing' = standing \cap BlocksNow'
  PROVE  CutInv'
<1>0. /\ CutTypes /\ LocksHaveRuns /\ LedgerStays /\ StillToCome
      /\ UNCHANGED <<cutPc, ledger, toInspect, inspecting, lockListed, blockers>>
  BY DEF CutInv, checkVars
<1>1. CutTypes' /\ LocksHaveRuns' /\ closed \subseteq closed'
  <2>1. ASSUME NEW r \in CutRuns,
               \/ TakeQueueLock(r) \/ OpenRun(r) \/ ReleaseQueue(r)
               \/ EndRun(r) \/ RunDies(r) \/ CleanUp(r)
        PROVE  CutTypes' /\ LocksHaveRuns' /\ closed \subseteq closed'
    <3> USE <1>0 DEF CutTypes, LocksHaveRuns
    <3>1. CASE TakeQueueLock(r)
      BY <3>1 DEF TakeQueueLock
    <3>2. CASE OpenRun(r)
      BY <3>2 DEF OpenRun
    <3>3. CASE ReleaseQueue(r)
      BY <3>3 DEF ReleaseQueue
    <3>4. CASE EndRun(r)
      BY <3>4 DEF EndRun
    <3>5. CASE RunDies(r)
      BY <3>5 DEF RunDies
    <3>6. CASE CleanUp(r)
      BY <3>6 DEF CleanUp
    <3> QED
      BY <2>1, <3>1, <3>2, <3>3, <3>4, <3>5, <3>6
  <2>2. ASSUME NEW o \in CutOrders, QueueOrder(o)
        PROVE  CutTypes' /\ LocksHaveRuns' /\ closed \subseteq closed'
    BY <1>0, <2>2 DEF QueueOrder, CutTypes, LocksHaveRuns
  <2> QED
    BY <2>1, <2>2 DEF WorkGoesOn
<1>2. standing' \subseteq standing /\ StandingBlocks'
  BY DEF StandingBlocks
<1>3. LedgerStays'
  BY <1>0, <1>1 DEF LedgerStays
<1>4. StillToCome'
  BY <1>0, <1>2 DEF StillToCome
<1> QED
  BY <1>1, <1>2, <1>3, <1>4 DEF CutInv

\* Each read of the preflight keeps it: what it finds standing it reports.
LEMMA PreflightKeeps ==
  ASSUME CutInv, Preflighting, UNCHANGED workVars,
         standing' = IF cutPc = "idle" THEN BlocksNow ELSE standing
  PROVE  CutInv'
<1>0. /\ CutTypes /\ LocksHaveRuns /\ LedgerStays /\ StandingBlocks /\ StillToCome
      /\ UNCHANGED <<cutProcess, runDir, turnLock, queueLock, orders, closed>>
  BY DEF CutInv, workVars
<1>1. BlocksNow' = BlocksNow
  BY <1>0 DEF BlocksNow, InTheWay
<1>2. LocksHaveRuns' /\ StandingBlocks'
  BY <1>0, <1>1 DEF LocksHaveRuns, StandingBlocks
<1>3. CASE ReadClosureLedger
  BY <1>0, <1>2, <1>3
     DEF ReadClosureLedger, CutInv, CutTypes, LedgerStays, StillToCome
<1>4. CASE ListRuns
  <2>1. CutTypes' /\ LedgerStays' /\ standing' = standing
    BY <1>0, <1>4 DEF ListRuns, CutTypes, LedgerStays
  <2>2. StillToCome'
    <3> SUFFICES ASSUME blockers' = {}, NEW r \in CutRuns,
                        <<"run", r>> \in standing \/ <<"turnlock", r>> \in standing
                 PROVE  r \in toInspect' \ inspecting'
      BY <1>4, <2>1 DEF ListRuns, StillToCome
    <3>1. toInspect' = {q \in CutRuns : runDir[q] # "none"} /\ inspecting' = {}
      BY <1>0, <1>4 DEF ListRuns, CutTypes
    <3>2. runDir[r] = "open" \/ turnLock[r] # "none"
      BY <1>0, BlockersNow DEF StandingBlocks
    <3> QED
      BY <1>0, <3>1, <3>2 DEF LocksHaveRuns
  <2> QED
    BY <1>2, <2>1, <2>2 DEF CutInv
<1>5. ASSUME NEW r \in CutRuns, InspectTurnlockLock(r) PROVE CutInv'
  <2>1. /\ CutTypes' /\ LedgerStays' /\ standing' = standing
        /\ cutPc = "inspect" /\ inspecting' = {r} /\ blockers \subseteq blockers'
        /\ UNCHANGED <<cutPc, toInspect>>
    BY <1>0, <1>5 DEF InspectTurnlockLock, CutTypes, LedgerStays
  <2>2. blockers' = {} => <<"turnlock", r>> \notin standing
    <3> SUFFICES ASSUME blockers' = {}, <<"turnlock", r>> \in standing PROVE FALSE
      OBVIOUS
    <3>1. turnLock[r] # "none"
      BY <1>0, BlockersNow DEF StandingBlocks
    <3> QED
      BY <1>5, <3>1 DEF InspectTurnlockLock
  <2>3. StillToCome'
    BY <1>0, <2>1, <2>2 DEF StillToCome
  <2> QED
    BY <1>2, <2>1, <2>3 DEF CutInv
<1>6. ASSUME NEW r \in CutRuns, InspectRun(r) PROVE CutInv'
  <2>1. /\ CutTypes' /\ LedgerStays' /\ standing' = standing
        /\ cutPc = "inspect" /\ cutPc' = "inspect" /\ blockers \subseteq blockers'
        /\ r \in inspecting /\ toInspect' = toInspect \ {r} /\ inspecting' = {}
    BY <1>0, <1>6 DEF InspectRun, CutTypes, LedgerStays
  <2>2. blockers' = {} => <<"run", r>> \notin standing
    <3> SUFFICES ASSUME blockers' = {}, <<"run", r>> \in standing PROVE FALSE
      OBVIOUS
    <3>1. runDir[r] = "open" /\ r \notin ledger
      BY <1>0, BlockersNow DEF StandingBlocks, LedgerStays
    <3>2. \A readable \in BOOLEAN : Classification(r, readable) = "rejected-incompatible"
      BY <3>1 DEF Classification
    <3> QED
      BY <1>6, <3>2 DEF InspectRun
  <2>3. StillToCome'
    BY <1>0, <2>1, <2>2 DEF StillToCome
  <2> QED
    BY <1>2, <2>1, <2>3 DEF CutInv
<1>7. CASE ListOrderState
  <2>1. /\ CutTypes' /\ LedgerStays' /\ standing' = standing
        /\ cutPc = "inspect" /\ cutPc' = "queue" /\ blockers \subseteq blockers'
        /\ toInspect = {}
    BY <1>0, <1>7 DEF ListOrderState, CutTypes, LedgerStays
  <2>2. ASSUME blockers' = {}
        PROVE  /\ \A o \in CutOrders : <<"order", o>> \notin standing
               /\ \A r \in CutRuns : <<"queue lock", r>> \in standing => lockListed'
    <3>1. orders = {} /\ lockListed' = (queueLock # {})
      BY <1>7, <2>2 DEF ListOrderState
    <3>2. \A o \in CutOrders : <<"order", o>> \notin standing
      BY <1>0, <3>1, BlockersNow DEF StandingBlocks
    <3>3. \A r \in CutRuns : <<"queue lock", r>> \in standing => r \in queueLock
      BY <1>0, BlockersNow DEF StandingBlocks
    <3> QED
      BY <3>1, <3>2, <3>3
  <2>3. StillToCome'
    BY <1>0, <2>1, <2>2 DEF StillToCome
  <2> QED
    BY <1>2, <2>1, <2>3 DEF CutInv
<1>8. CASE InspectQueueLock
  <2>1. /\ CutTypes' /\ LedgerStays' /\ standing' = standing
        /\ cutPc = "queue" /\ cutPc' = "done" /\ blockers \subseteq blockers'
        /\ blockers' = {} => ~lockListed
    BY <1>0, <1>8 DEF InspectQueueLock, CutTypes, LedgerStays
  <2>2. StillToCome'
    BY <1>0, <2>1 DEF StillToCome
  <2> QED
    BY <1>2, <2>1, <2>2 DEF CutInv
<1> QED
  BY <1>3, <1>4, <1>5, <1>6, <1>7, <1>8 DEF Preflighting

\* Work that goes on and the reads of the preflight both keep the invariant.
LEMMA CutInductive == CutInv /\ [CutNext]_cutVars => CutInv'
<1> SUFFICES ASSUME CutInv, [CutNext]_cutVars PROVE CutInv'
  OBVIOUS
<1>1. CASE UNCHANGED cutVars
  BY <1>1 DEF cutVars, workVars, checkVars, CutInv, CutTypes, LocksHaveRuns, LedgerStays,
              StandingBlocks, StillToCome, BlocksNow, InTheWay
<1> QED
  BY <1>1, WorkKeeps, PreflightKeeps DEF CutNext

\* The invariant of the preflight holds always: whatever has stood in the way since
\* its first read is reported, or still to be read.
THEOREM CutInvariant == CutSpec => []CutInv
BY CutInitInv, CutInductive, PTL DEF CutSpec

\* The preflight is not ready if any one thing stood in the way from its first read
\* to its last, however much else came and went between them
\* (node-cutover-preflight.ts:469-504).
THEOREM PreflightMissesNothing == CutSpec => []ReadyMissesNothing
<1>1. CutInv => ReadyMissesNothing
  <2> SUFFICES ASSUME CutInv, Ready, NEW b \in standing PROVE FALSE
    BY DEF ReadyMissesNothing
  <2>1. b \in BlocksNow /\ CutTypes /\ cutPc = "done" /\ blockers = {}
    BY DEF CutInv, StandingBlocks, Ready
  <2> QED
    BY <2>1, BlockersNow DEF CutInv, StillToCome
<1> QED
  BY <1>1, CutInvariant, PTL
=============================================================================
