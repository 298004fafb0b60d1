--------------------------- MODULE PipelineProofs ---------------------------
(***************************************************************************)
(* Proofs about Pipeline, for every set of jobs, whichever executables are *)
(* missing, and any number of delegations, signals and heirs.              *)
(***************************************************************************)
EXTENDS Pipeline, TLAPS

\* Until the supervisor runs, nothing has begun.
Beginning ==
  /\ launcher \in {"runtimeBuild", "skillBuild", "starting"} => supervisor = "absent"
  /\ supervisor \in {"absent", "booting"} =>
       /\ \A c \in Stages : leader[c] = "unborn"
       /\ seen = {} /\ heir = "none" /\ bridge = "reading" /\ delegation = "none"
       /\ runState = "new" /\ superviseEnd = "none"
  /\ supervisor = "running" =>
       superviseEnd = "none" /\ \A c \in Stages : leader[c] # "unborn"

SeenAreGone == \A c \in seen : leader[c] = "gone"

\* The bridge goes on when the producer has ended, and follows a delegation that
\* the bound allows; a run that has delegated its own jobs waits for them.
Following ==
  /\ bridge # "reading" => leader["producer"] = "gone"
  /\ bridge \in {"reading", "manifest", "extract"} /\ delegation # "none" =>
       cycle < MaxCycles
  /\ bridge = "manifest" => delegation # "none"
  /\ delegation = "own" <=> runState = "delegated"
  /\ lock => runState \in {"fresh", "delegated", "failed"}

\* What an exit code of 0 says of the stage that ends with it.
ExitsMean ==
  /\ leader["producer"] = "gone" /\ stageEnd["producer"] = StageExit(0) =>
       /\ runState \notin {"new", "fresh"}
       /\ runState = "failed" =>
            leader["consumer"] = "gone" /\ stageEnd["consumer"] = StageExit(1)
  /\ leader["consumer"] = "gone" /\ stageEnd["consumer"] = StageExit(0) =>
       delegation = "none" /\ leader["producer"] = "gone"

OkIsEarned ==
  /\ superviseEnd = "ok" =>
       supervisor = "ended" /\ runState \in {"finished", "queued"} /\ ~lock
  /\ launchEnd = "ok" => superviseEnd = "ok"

PipelineInv ==
  /\ PipelineTypeOK /\ Beginning /\ SeenAreGone /\ NobodyLeft
  /\ Following /\ ExitsMean /\ OkIsEarned

-----------------------------------------------------------------------------
\* The ways a stage may end are four.
LEMMA Ends ==
  /\ StageExit(0) # StageExit(1) /\ StageExit(0) # BySignal /\ StageExit(0) # NotSpawned
  /\ \A e \in {StageExit(0), StageExit(1), BySignal, NotSpawned} :
       ~e.signal /\ ~e.spawnError /\ e.code = 0 => e = StageExit(0)
BY DEF StageExit, BySignal, NotSpawned

\* Nothing has been spawned and nothing has ended at first.
LEMMA PipelineInitInv == PipelineInit => PipelineInv
<1> SUFFICES ASSUME PipelineInit PROVE PipelineInv
  OBVIOUS
<1>1. PipelineTypeOK
  <2>1. {forwarded, received, ioError, lock} \subseteq BOOLEAN
    BY DEF PipelineInit
  <2>2. stageEnd \in [Stages -> {StageExit(0), StageExit(1), BySignal, NotSpawned}]
    BY DEF PipelineInit
  <2> QED
    BY <2>1, <2>2, PipelineConstants DEF PipelineInit, PipelineTypeOK
<1>2. Beginning /\ SeenAreGone /\ NobodyLeft /\ Following /\ ExitsMean /\ OkIsEarned
  BY DEF PipelineInit, Beginning, SeenAreGone, NobodyLeft, Following, ExitsMean,
         OkIsEarned, Stages
<1> QED
  BY <1>1, <1>2 DEF PipelineInv

\* The launcher.
LEMMA LaunchKeeps == PipelineInv /\ LaunchStep => PipelineInv'
<1> SUFFICES ASSUME PipelineInv, LaunchStep PROVE PipelineInv'
  OBVIOUS
<1> USE DEF PipelineInv, PipelineTypeOK, Beginning, SeenAreGone, NobodyLeft, Following,
            ExitsMean, OkIsEarned, superviseVars, processVars, boundVars, runVars,
            bridgeVars
<1>1. CASE RunBuildStep
  BY <1>1 DEF RunBuildStep
<1>2. CASE StartSupervisor
  BY <1>2 DEF StartSupervisor
<1>3. CASE LaunchEnds
  BY <1>3 DEF LaunchEnds
<1> QED
  BY <1>1, <1>2, <1>3 DEF LaunchStep

\* Ending the stages changes what is told to end and nothing else.
LEMMA TerminateType ==
  ASSUME PipelineTypeOK, NEW running \in SUBSET Stages,
         TerminateChildren(running)
  PROVE  /\ killTimer' \in {"none", "armed", "fired"} /\ told' \subseteq Stages
         /\ heir' \in {"none", "alive", "told"} /\ (heir = "none" => heir' = "none")
BY DEF PipelineTypeOK, TerminateChildren

\* What the supervisor does for a signal, or an error of a pipe, changes neither the
\* stages nor the run.
LEMMA HearKeeps ==
  ASSUME PipelineInv, Hear \/ RecordIoError \/ UNCHANGED <<supervisor, superviseEnd, received,
                                                          killTimer, told, heir>>,
         launcher' \in {launcher, "ended"}, launchEnd' \in {launchEnd, "signal"},
         forwarded' \in BOOLEAN, ioError' \in BOOLEAN, signals' \in 0 .. MaxSignals,
         UNCHANGED <<leader, stageEnd, seen, heirs, runVars, bridgeVars>>
  PROVE  PipelineInv'
<1> USE DEF runVars, bridgeVars
<1>0. /\ PipelineTypeOK /\ Beginning /\ SeenAreGone /\ NobodyLeft /\ Following
      /\ ExitsMean /\ OkIsEarned
      /\ UNCHANGED <<leader, stageEnd, seen, heirs, runState, lock, delegation, bridge, cycle,
                     attempt, answer>>
  BY DEF PipelineInv
<1>1. /\ \/ supervisor = "booting" /\ supervisor' = "ended" /\ superviseEnd' = "signal"
            /\ UNCHANGED heir
         \/ UNCHANGED <<supervisor, superviseEnd>>
      /\ heir' \in {"none", "alive", "told"} /\ (heir = "none" => heir' = "none")
      /\ killTimer' \in {"none", "armed", "fired"} /\ told' \subseteq Stages
      /\ received' \in BOOLEAN
  <2>1. received \in BOOLEAN
    BY <1>0 DEF PipelineTypeOK
  <2>2. Running \in SUBSET Stages
    BY DEF Running
  <2> QED
    BY <1>0, <2>1, <2>2, TerminateType DEF Hear, RecordIoError, PipelineTypeOK
<1>2. PipelineTypeOK'
  <2>1. {forwarded, received, ioError, lock}' \subseteq BOOLEAN
    BY <1>0, <1>1 DEF PipelineTypeOK
  <2> QED
    BY <1>0, <1>1, <2>1 DEF PipelineTypeOK
<1>3. Beginning' /\ SeenAreGone' /\ NobodyLeft'
  BY <1>0, <1>1 DEF PipelineTypeOK, Beginning, SeenAreGone, NobodyLeft
<1>4. Following' /\ ExitsMean'
  BY <1>0 DEF Following, ExitsMean
<1>5. OkIsEarned'
  BY <1>0, <1>1 DEF OkIsEarned, Beginning
<1> QED
  BY <1>2, <1>3, <1>4, <1>5 DEF PipelineInv

\* Signals and I/O errors are recorded, and begin the termination; no stage has ended yet.
LEMMA SignalKeeps ==
  PipelineInv /\ (SignalLauncher \/ SignalSupervisor \/ RecordIoError) => PipelineInv'
<1> SUFFICES ASSUME PipelineInv, SignalLauncher \/ SignalSupervisor \/ RecordIoError
             PROVE  PipelineInv'
  OBVIOUS
<1>1. /\ forwarded \in BOOLEAN /\ ioError \in BOOLEAN /\ signals \in 0 .. MaxSignals
      /\ signals < MaxSignals => signals + 1 \in 0 .. MaxSignals
  BY PipelineConstants DEF PipelineInv, PipelineTypeOK
<1>2. CASE SignalLauncher
  BY <1>1, <1>2, HearKeeps DEF SignalLauncher, superviseVars
<1>3. CASE SignalSupervisor
  BY <1>1, <1>3, HearKeeps DEF SignalSupervisor, launcherVars
<1>4. CASE RecordIoError
  BY <1>1, <1>4, HearKeeps DEF RecordIoError, launcherVars, boundVars
<1> QED
  BY <1>2, <1>3, <1>4

\* The supervisor.
LEMMA SuperviseKeeps == PipelineInv /\ SuperviseStep => PipelineInv'
<1> SUFFICES ASSUME PipelineInv, SuperviseStep PROVE PipelineInv'
  OBVIOUS
<1>0. PipelineTypeOK /\ Beginning /\ SeenAreGone /\ NobodyLeft /\ Following /\ ExitsMean /\ OkIsEarned
  BY DEF PipelineInv
<1> USE DEF launcherVars, superviseVars, processVars, boundVars, runVars, bridgeVars
<1>1. CASE SpawnStages
  <2>1. PICK missing \in SUBSET Missing :
       /\ leader' = [c \in Stages |-> IF c \in missing THEN "gone" ELSE "running"]
       /\ stageEnd' = [c \in Stages |-> IF c \in missing THEN NotSpawned ELSE StageExit(0)]
       /\ seen' = missing
       /\ told' = IF missing = {} THEN {} ELSE Stages \ missing
       /\ killTimer' = IF missing = {} THEN "none" ELSE "armed"
    BY <1>1 DEF SpawnStages
  <2>2. missing \subseteq Stages
    BY <2>1, PipelineConstants
  <2>3. PipelineTypeOK'
    <3>1. stageEnd' \in [Stages -> {StageExit(0), StageExit(1), BySignal, NotSpawned}]
      BY <2>1
    <3>2. /\ leader' \in [Stages -> {"unborn", "running", "gone"}]
          /\ told' \subseteq Stages /\ seen' \subseteq Stages
      BY <2>1, <2>2
    <3> QED
      BY <1>0, <1>1, <2>1, <3>1, <3>2 DEF SpawnStages, PipelineTypeOK
  <2>4. Beginning' /\ SeenAreGone' /\ NobodyLeft'
    BY <1>0, <1>1, <2>1, <2>2 DEF SpawnStages, Beginning, SeenAreGone, NobodyLeft
  <2>5. Following' /\ OkIsEarned'
    BY <1>0, <1>1 DEF SpawnStages, Beginning, Following, OkIsEarned
  <2>6. ExitsMean'
    BY <2>1, Ends DEF ExitsMean, Stages
  <2> QED
    BY <2>3, <2>4, <2>5, <2>6 DEF PipelineInv
<1>2. CASE GraceExpires
  <2>1. PipelineTypeOK'
    <3>1. stageEnd' \in [Stages -> {StageExit(0), StageExit(1), BySignal, NotSpawned}]
      BY <1>0, <1>2 DEF GraceExpires, PipelineTypeOK
    <3>2. leader' \in [Stages -> {"unborn", "running", "gone"}]
      BY <1>0, <1>2 DEF GraceExpires, PipelineTypeOK
    <3> QED
      BY <1>0, <1>2, <3>1, <3>2 DEF GraceExpires, PipelineTypeOK
  <2>2. \A c \in Stages :
          /\ leader[c] = "gone" => leader'[c] = "gone" /\ stageEnd'[c] = stageEnd[c]
          /\ leader'[c] = "gone" /\ leader[c] # "gone" => stageEnd'[c] = BySignal
    BY <1>0, <1>2 DEF GraceExpires, Running, PipelineTypeOK, Beginning
  <2>3. Beginning' /\ SeenAreGone' /\ NobodyLeft'
    BY <1>0, <1>2, <2>2 DEF GraceExpires, PipelineTypeOK, Beginning, SeenAreGone, NobodyLeft
  <2>4. Following' /\ OkIsEarned'
    BY <1>0, <1>2, <2>2 DEF GraceExpires, Following, OkIsEarned, Stages
  <2>5. ExitsMean'
    BY <1>0, <1>2, <2>2, Ends DEF GraceExpires, ExitsMean, Stages
  <2> QED
    BY <2>1, <2>3, <2>4, <2>5 DEF PipelineInv
<1>3. CASE SupervisorEnds
  <2>1. /\ supervisor = "running" /\ supervisor' = "ended" /\ seen = Stages /\ heir = "none"
        /\ UNCHANGED <<launcherVars, received, killTimer, ioError, processVars, boundVars,
                       runVars, bridgeVars>>
        /\ superviseEnd' \in {"signal", "ok", "failed"}
        /\ superviseEnd' = "ok" => PipelineExitCode = 0
    BY <1>3 DEF SupervisorEnds, Closed
  <2>2. ASSUME superviseEnd' = "ok"
        PROVE  runState \in {"finished", "queued"} /\ ~lock
    <3>1. /\ \A c \in Stages : ~stageEnd[c].signal /\ ~stageEnd[c].spawnError
          /\ stageEnd["consumer"].code = 0 /\ stageEnd["producer"].code = 0
      BY <2>1, <2>2 DEF PipelineExitCode
    <3>2. \A c \in Stages : stageEnd[c] = StageExit(0) /\ leader[c] = "gone"
      BY <1>0, <2>1, <3>1, Ends DEF PipelineTypeOK, SeenAreGone, Stages
    <3>3. delegation = "none" /\ runState \notin {"new", "fresh", "failed"}
      BY <1>0, <3>2, Ends DEF ExitsMean, Stages
    <3> QED
      BY <1>0, <3>3 DEF Following, PipelineTypeOK
  <2>3. PipelineTypeOK'
    BY <1>0, <2>1 DEF PipelineTypeOK
  <2>4. Beginning' /\ SeenAreGone' /\ NobodyLeft'
    BY <1>0, <2>1 DEF Beginning, SeenAreGone, NobodyLeft
  <2>5. Following' /\ ExitsMean'
    BY <1>0, <2>1 DEF Following, ExitsMean
  <2>6. OkIsEarned'
    BY <1>0, <2>1, <2>2 DEF OkIsEarned, Beginning
  <2> QED
    BY <2>3, <2>4, <2>5, <2>6 DEF PipelineInv
<1>4. ASSUME NEW c \in Stages, SeeExit(c) PROVE PipelineInv'
  <2>1. /\ supervisor = "running" /\ leader[c] = "gone" /\ seen' = seen \cup {c}
        /\ UNCHANGED <<launcherVars, supervisor, superviseEnd, received, ioError, leader,
                       stageEnd, boundVars, runVars, bridgeVars>>
        /\ heir' \in {"none", "alive", "told"}
        /\ killTimer' \in {"none", "armed", "fired"} /\ told' \subseteq Stages
    BY <1>0, <1>4, TerminateType DEF SeeExit, PipelineTypeOK, Stages
  <2>2. PipelineTypeOK'
    BY <1>0, <2>1 DEF PipelineTypeOK
  <2>3. Beginning' /\ SeenAreGone' /\ NobodyLeft'
    BY <1>0, <2>1 DEF Beginning, SeenAreGone, NobodyLeft
  <2>4. Following' /\ ExitsMean' /\ OkIsEarned'
    BY <1>0, <2>1 DEF Following, ExitsMean, OkIsEarned
  <2> QED
    BY <2>2, <2>3, <2>4 DEF PipelineInv
<1> QED
  BY <1>1, <1>2, <1>3, <1>4 DEF SuperviseStep

\* A stage that ends without a word of success changes nothing else.
LEMMA FailedEndKeeps ==
  ASSUME PipelineInv, NEW c \in Stages, leader[c] = "running",
         NEW how \in {StageExit(1), BySignal},
         StageEnds(c, how),
         UNCHANGED <<launcherVars, superviseVars, heir, told, seen, boundVars, runVars,
                     bridgeVars>>
  PROVE  PipelineInv'
<1> USE DEF launcherVars, superviseVars, boundVars, runVars, bridgeVars
<1>0. PipelineTypeOK /\ Beginning /\ SeenAreGone /\ NobodyLeft /\ Following /\ ExitsMean /\ OkIsEarned
  BY DEF PipelineInv
<1>1. PipelineTypeOK'
  <2>1. stageEnd' \in [Stages -> {StageExit(0), StageExit(1), BySignal, NotSpawned}]
    BY <1>0 DEF StageEnds, PipelineTypeOK
  <2>2. leader' \in [Stages -> {"unborn", "running", "gone"}]
    BY <1>0 DEF StageEnds, PipelineTypeOK
  <2> QED
    BY <1>0, <2>1, <2>2 DEF PipelineTypeOK
<1>2. /\ leader'[c] = "gone" /\ stageEnd'[c] = how /\ how # StageExit(0)
      /\ \A d \in Stages \ {c} : leader'[d] = leader[d] /\ stageEnd'[d] = stageEnd[d]
  BY <1>0, Ends DEF StageEnds, PipelineTypeOK
<1>3. Beginning' /\ SeenAreGone' /\ NobodyLeft'
  BY <1>0, <1>2 DEF Beginning, SeenAreGone, NobodyLeft, PipelineTypeOK
<1>4. Following' /\ OkIsEarned'
  BY <1>0, <1>2 DEF Following, OkIsEarned, Stages
<1>5. ExitsMean'
  BY <1>0, <1>2 DEF ExitsMean, Stages
<1> QED
  BY <1>1, <1>3, <1>4, <1>5 DEF PipelineInv

\* A process the orchestrator leaves behind begins while its leader is there, and the
\* supervisor waits for it.
LEMMA HeirKeeps == PipelineInv /\ (StartHeir \/ HeirEnds) => PipelineInv'
<1> SUFFICES ASSUME PipelineInv, StartHeir \/ HeirEnds PROVE PipelineInv'
  OBVIOUS
<1> USE DEF launcherVars, superviseVars, boundVars, runVars, bridgeVars
<1>0. PipelineTypeOK /\ Beginning /\ SeenAreGone /\ NobodyLeft /\ Following /\ ExitsMean /\ OkIsEarned
  BY DEF PipelineInv
<1>1. /\ UNCHANGED <<launcherVars, superviseVars, leader, stageEnd, told, seen, signals, runVars,
                     bridgeVars>>
      /\ heir' \in {"none", "alive"} /\ heirs' \in 0 .. MaxHeirs
      /\ heir' = "alive" => leader["producer"] = "running"
  BY <1>0, PipelineConstants DEF StartHeir, HeirEnds, PipelineTypeOK
<1>2. PipelineTypeOK'
  BY <1>0, <1>1 DEF PipelineTypeOK
<1>3. Beginning' /\ SeenAreGone' /\ NobodyLeft'
  BY <1>0, <1>1 DEF Beginning, SeenAreGone, NobodyLeft, Stages
<1>4. Following' /\ ExitsMean' /\ OkIsEarned'
  BY <1>0, <1>1 DEF Following, ExitsMean, OkIsEarned
<1> QED
  BY <1>2, <1>3, <1>4 DEF PipelineInv

\* What the phases of a run may do to it.
LEMMA OrchestrateType ==
  ASSUME PipelineInv, Orchestrate
  PROVE  /\ runState' \in {"delegated", "finished", "failed"}
         /\ delegation' \in {"none", "own", "foreign"} /\ lock' \in BOOLEAN
         /\ delegation' = "own" <=> runState' = "delegated"
         /\ delegation' # "none" => cycle < MaxCycles
         /\ runState' = "finished" => lock' = FALSE
         /\ runState' = "failed" => delegation' = "none"
BY DEF Orchestrate, PipelineInv, PipelineTypeOK

\* The orchestrator's steps keep what an exit code of 0 says of it.
LEMMA ProducerKeeps == PipelineInv /\ ProducerStep => PipelineInv'
<1> SUFFICES ASSUME PipelineInv, ProducerStep PROVE PipelineInv'
  OBVIOUS
<1> USE DEF launcherVars, superviseVars, processVars, boundVars, runVars, bridgeVars
<1>0. PipelineTypeOK /\ Beginning /\ SeenAreGone /\ NobodyLeft /\ Following /\ ExitsMean /\ OkIsEarned
  BY DEF PipelineInv
<1>1. CASE BootstrapRun \/ Produce
  <2>1. /\ leader["producer"] = "running" /\ runState \in {"new", "fresh"}
        /\ UNCHANGED <<launcherVars, superviseVars, processVars, boundVars, bridgeVars>>
        /\ runState' \in {"queued", "fresh", "delegated", "finished", "failed"}
        /\ delegation' \in {"none", "own", "foreign"} /\ lock' \in BOOLEAN
        /\ delegation' = "own" <=> runState' = "delegated"
        /\ delegation' # "none" => cycle < MaxCycles
        /\ runState' \in {"queued", "finished"} => lock' = FALSE
        /\ delegation' # delegation => leader["consumer"] = "running"
    <3>1. CASE BootstrapRun
      BY <1>0, <3>1 DEF BootstrapRun, PipelineTypeOK, Following, Beginning
    <3>2. CASE Produce
      BY <3>2, OrchestrateType DEF Produce
    <3> QED
      BY <1>1, <3>1, <3>2
  <2>2. supervisor \notin {"absent", "booting", "ended"} /\ supervisor = "running"
    BY <1>0, <2>1 DEF Beginning, NobodyLeft, PipelineTypeOK, Stages
  <2>3. PipelineTypeOK'
    <3>1. {forwarded, received, ioError, lock}' \subseteq BOOLEAN
      BY <1>0, <2>1 DEF PipelineTypeOK
    <3> QED
      BY <1>0, <2>1, <3>1 DEF PipelineTypeOK
  <2>4. Beginning' /\ SeenAreGone' /\ NobodyLeft'
    BY <1>0, <2>1, <2>2 DEF Beginning, SeenAreGone, NobodyLeft
  <2>5. Following'
    BY <1>0, <2>1 DEF Following
  <2>6. ExitsMean' /\ OkIsEarned'
    BY <1>0, <2>1, <2>2 DEF ExitsMean, OkIsEarned
  <2> QED
    BY <2>3, <2>4, <2>5, <2>6 DEF PipelineInv
<1>2. CASE ProducerExits
  <2>1. CASE runState = "failed"
    BY <1>2, <2>1, FailedEndKeeps DEF ProducerExits, Stages
  <2>2. CASE runState # "failed"
    <3>1. /\ StageEnds("producer", StageExit(0)) /\ runState \notin {"new", "fresh", "failed"}
          /\ leader["producer"] = "running"
          /\ UNCHANGED <<launcherVars, superviseVars, heir, told, seen, boundVars, runVars,
                         bridgeVars>>
      BY <1>2, <2>2 DEF ProducerExits
    <3>2. PipelineTypeOK'
      <4>1. stageEnd' \in [Stages -> {StageExit(0), StageExit(1), BySignal, NotSpawned}]
        BY <1>0, <3>1 DEF StageEnds, PipelineTypeOK
      <4>2. leader' \in [Stages -> {"unborn", "running", "gone"}]
        BY <1>0, <3>1 DEF StageEnds, PipelineTypeOK
      <4> QED
        BY <1>0, <3>1, <4>1, <4>2 DEF PipelineTypeOK
    <3>3. /\ leader'["producer"] = "gone" /\ leader'["consumer"] = leader["consumer"]
          /\ stageEnd'["consumer"] = stageEnd["consumer"]
      BY <1>0, <3>1 DEF StageEnds, PipelineTypeOK, Stages
    <3>4. Beginning' /\ SeenAreGone' /\ NobodyLeft'
      BY <1>0, <3>1, <3>3 DEF Beginning, SeenAreGone, NobodyLeft, PipelineTypeOK, Stages
    <3>5. Following' /\ ExitsMean' /\ OkIsEarned'
      BY <1>0, <3>1, <3>3 DEF Following, ExitsMean, OkIsEarned
    <3> QED
      BY <3>2, <3>4, <3>5 DEF PipelineInv
  <2> QED
    BY <2>1, <2>2
<1> QED
  BY <1>1, <1>2 DEF ProducerStep

\* The bridge follows a delegation, or ends well where there is none.
LEMMA FollowKeeps ==
  ASSUME PipelineInv, leader["consumer"] = "running", leader["producer"] = "gone",
         bridge \in {"reading", "extract"}, FollowDelegation
  PROVE  PipelineInv'
<1> USE DEF launcherVars, superviseVars, boundVars, runVars, bridgeVars
<1>0. PipelineTypeOK /\ Beginning /\ SeenAreGone /\ NobodyLeft /\ Following /\ ExitsMean /\ OkIsEarned
  BY DEF PipelineInv
<1>a. UNCHANGED <<launcherVars, superviseVars, heir, told, seen, boundVars, runVars, cycle,
                  attempt, answer>>
  BY DEF FollowDelegation
<1>b. supervisor = "running"
  BY <1>0 DEF Beginning, NobodyLeft, PipelineTypeOK, Stages
<1>1. CASE delegation = "none"
  <2>1. StageEnds("consumer", StageExit(0)) /\ UNCHANGED bridge
    BY <1>1 DEF FollowDelegation
  <2>2. PipelineTypeOK'
    <3>1. stageEnd' \in [Stages -> {StageExit(0), StageExit(1), BySignal, NotSpawned}]
      BY <1>0, <2>1 DEF StageEnds, PipelineTypeOK
    <3>2. leader' \in [Stages -> {"unborn", "running", "gone"}]
      BY <1>0, <2>1 DEF StageEnds, PipelineTypeOK
    <3> QED
      BY <1>0, <1>a, <2>1, <3>1, <3>2 DEF PipelineTypeOK
  <2>3. /\ leader'["consumer"] = "gone" /\ leader'["producer"] = "gone"
        /\ stageEnd'["producer"] = stageEnd["producer"]
    BY <1>0, <2>1 DEF StageEnds, PipelineTypeOK, Stages
  <2>4. Beginning' /\ SeenAreGone' /\ NobodyLeft'
    BY <1>0, <1>a, <1>b, <2>3 DEF Beginning, SeenAreGone, NobodyLeft, PipelineTypeOK, Stages
  <2>5. Following' /\ OkIsEarned'
    BY <1>0, <1>a, <2>1, <2>3 DEF Following, OkIsEarned
  <2>6. ExitsMean'
    BY <1>0, <1>1, <1>a, <2>3 DEF ExitsMean
  <2> QED
    BY <2>2, <2>4, <2>5, <2>6 DEF PipelineInv
<1>2. CASE delegation # "none"
  <2>1. bridge' = "manifest" /\ UNCHANGED <<leader, stageEnd>>
    BY <1>2 DEF FollowDelegation
  <2>2. PipelineTypeOK'
    BY <1>0, <1>a, <2>1 DEF PipelineTypeOK
  <2>3. Beginning' /\ SeenAreGone' /\ NobodyLeft'
    BY <1>0, <1>a, <1>b, <2>1 DEF Beginning, SeenAreGone, NobodyLeft
  <2>4. Following' /\ ExitsMean' /\ OkIsEarned'
    BY <1>0, <1>2, <1>a, <2>1 DEF Following, ExitsMean, OkIsEarned
  <2> QED
    BY <2>2, <2>3, <2>4 DEF PipelineInv
<1> QED
  BY <1>1, <1>2

\* The bridge's steps keep the account of the delegation it follows.
LEMMA BridgeKeeps == PipelineInv /\ BridgeStep => PipelineInv'
<1> SUFFICES ASSUME PipelineInv, BridgeStep PROVE PipelineInv'
  OBVIOUS
<1> USE DEF launcherVars, superviseVars, processVars, boundVars, runVars, bridgeVars
<1>0. PipelineTypeOK /\ Beginning /\ SeenAreGone /\ NobodyLeft /\ Following /\ ExitsMean /\ OkIsEarned
  BY DEF PipelineInv
<1>1. CASE LookForDelegation \/ ExtractBlocks
  BY <1>0, <1>1, FollowKeeps
     DEF LookForDelegation, ExtractBlocks, OutputEnded, BridgeAt, Following
\* Steps between the reading of the manifest and the resume.
<1>2. ASSUME leader["consumer"] = "running", bridge # "reading",
             UNCHANGED <<launcherVars, superviseVars, processVars, boundVars, runVars>>,
             bridge' \in {"jobs", "resume"}, cycle' \in 0 .. MaxCycles,
             attempt' \in [Jobs -> 0 .. 2],
             answer' \in [Jobs -> {"none", "plans", "success", "error"}]
      PROVE  PipelineInv'
  <2>1. PipelineTypeOK'
    BY <1>0, <1>2 DEF PipelineTypeOK
  <2>2. Beginning' /\ SeenAreGone' /\ NobodyLeft'
    BY <1>0, <1>2 DEF Beginning, SeenAreGone, NobodyLeft
  <2>3. Following' /\ ExitsMean' /\ OkIsEarned'
    BY <1>0, <1>2 DEF Following, ExitsMean, OkIsEarned
  <2> QED
    BY <2>1, <2>2, <2>3 DEF PipelineInv
<1>3. CASE ReadManifest
  <2>1. cycle' \in 0 .. MaxCycles
    BY <1>0, <1>3, PipelineConstants DEF ReadManifest, BridgeAt, Following, PipelineTypeOK
  <2> QED
    BY <1>2, <1>3, <2>1 DEF ReadManifest, BridgeAt
<1>4. ASSUME NEW j \in Jobs, CallLlm(j) PROVE PipelineInv'
  <2>1. /\ attempt' \in [Jobs -> 0 .. 2]
        /\ answer' \in [Jobs -> {"none", "plans", "success", "error"}]
    BY <1>0, <1>4 DEF CallLlm, PipelineTypeOK
  <2> QED
    BY <1>0, <1>2, <1>4, <2>1 DEF CallLlm, BridgeAt, PipelineTypeOK
<1>5. ASSUME NEW j \in Jobs, WriteResult(j) PROVE PipelineInv'
  <2>1. answer' \in [Jobs -> {"none", "plans", "success", "error"}]
    BY <1>0, <1>5 DEF WriteResult, PipelineTypeOK
  <2> QED
    BY <1>0, <1>2, <1>5, <2>1 DEF WriteResult, BridgeAt, PipelineTypeOK
<1>6. CASE ResumeOrchestrator
  BY <1>0, <1>2, <1>6 DEF ResumeOrchestrator, BridgeAt, PipelineTypeOK
<1>7. CASE ResumedRuns
  <2>0. /\ leader["consumer"] = "running" /\ bridge = "resume" /\ leader["producer"] = "gone"
        /\ supervisor = "running"
        /\ UNCHANGED <<launcherVars, superviseVars, heir, told, seen, boundVars, cycle,
                       attempt, answer>>
    BY <1>0, <1>7
       DEF ResumedRuns, BridgeAt, Following, Beginning, NobodyLeft, PipelineTypeOK, Stages
  <2>1. /\ runState' \in {"new", "queued", "fresh", "delegated", "finished", "failed"}
        /\ delegation' \in {"none", "own", "foreign"} /\ lock' \in BOOLEAN
        /\ delegation' = "own" <=> runState' = "delegated"
        /\ delegation' # "none" => cycle < MaxCycles
        /\ lock' => runState' \in {"fresh", "delegated", "failed"}
        /\ runState' \in {"new", "fresh"} => runState' = runState
    <3>1. CASE delegation = "own"
      BY <1>7, <3>1, OrchestrateType DEF ResumedRuns
    <3>2. CASE delegation # "own"
      BY <1>0, <1>7, <3>2 DEF ResumedRuns, PipelineTypeOK, Following
    <3> QED
      BY <3>1, <3>2
  <2>2. \/ /\ runState' = "failed"
           /\ leader' = [leader EXCEPT !["consumer"] = "gone"]
           /\ stageEnd' = [stageEnd EXCEPT !["consumer"] = StageExit(1)]
           /\ UNCHANGED bridge
        \/ runState' # "failed" /\ bridge' = "extract" /\ UNCHANGED <<leader, stageEnd>>
    BY <1>7 DEF ResumedRuns, StageEnds
  <2>3. PipelineTypeOK'
    <3>1. stageEnd' \in [Stages -> {StageExit(0), StageExit(1), BySignal, NotSpawned}]
      BY <1>0, <2>2 DEF PipelineTypeOK
    <3>2. leader' \in [Stages -> {"unborn", "running", "gone"}]
      BY <1>0, <2>2 DEF PipelineTypeOK
    <3>3. {forwarded, received, ioError, lock}' \subseteq BOOLEAN
      BY <1>0, <2>0, <2>1 DEF PipelineTypeOK
    <3>4. bridge' \in {"reading", "manifest", "jobs", "resume", "extract"}
      BY <2>0, <2>2
    <3> QED
      BY <1>0, <2>0, <2>1, <3>1, <3>2, <3>3, <3>4 DEF PipelineTypeOK
  <2>4. /\ leader'["producer"] = "gone" /\ stageEnd'["producer"] = stageEnd["producer"]
        /\ runState' = "failed" =>
             leader'["consumer"] = "gone" /\ stageEnd'["consumer"] = StageExit(1)
        /\ runState' # "failed" => leader'["consumer"] = "running"
    BY <1>0, <2>0, <2>2 DEF PipelineTypeOK, Stages
  <2>5. Beginning' /\ SeenAreGone' /\ NobodyLeft'
    BY <1>0, <2>0, <2>2, <2>4
       DEF Beginning, SeenAreGone, NobodyLeft, PipelineTypeOK, Stages
  <2>6. Following'
    BY <2>0, <2>1, <2>2, <2>4 DEF Following
  <2>7. ExitsMean'
    BY <1>0, <2>0, <2>1, <2>4, Ends DEF ExitsMean
  <2>8. OkIsEarned'
    BY <1>0, <2>0 DEF OkIsEarned
  <2> QED
    BY <2>3, <2>5, <2>6, <2>7, <2>8 DEF PipelineInv
<1> QED
  BY <1>1, <1>3, <1>4, <1>5, <1>6, <1>7 DEF BridgeStep

\* The launcher, the supervisor, both stages and what signals them keep the invariant.
LEMMA PipelineInductive == PipelineInv /\ [PipelineNext]_pipelineVars => PipelineInv'
<1> SUFFICES ASSUME PipelineInv, [PipelineNext]_pipelineVars PROVE PipelineInv'
  OBVIOUS
<1>1. CASE UNCHANGED pipelineVars
  BY <1>1
     DEF pipelineVars, launcherVars, superviseVars, processVars, boundVars, runVars,
         bridgeVars, PipelineInv, PipelineTypeOK, Beginning, SeenAreGone, NobodyLeft,
         Following, ExitsMean, OkIsEarned
<1>2. ASSUME NEW c \in Stages, DieOfSignal(c) PROVE PipelineInv'
  BY <1>2, FailedEndKeeps DEF DieOfSignal
<1>3. CASE BridgeFails
  BY <1>3, FailedEndKeeps DEF BridgeFails, BridgeAt, bridgeVars, Stages
<1> QED
  BY <1>1, <1>2, <1>3, LaunchKeeps, SuperviseKeeps, ProducerKeeps, BridgeKeeps, SignalKeeps,
     HeirKeeps DEF PipelineNext

\* The invariant of a launch holds always: its types, what an exit code of 0 says of
\* each stage, and that nobody is left once the supervisor has ended.
THEOREM PipelineInvariant == PipelineSpec => []PipelineInv
BY PipelineInitInv, PipelineInductive, PTL DEF PipelineSpec

\* Every variable of the pipeline keeps its type, the caps on delegations and on calls
\* of the LLM included.
THEOREM PipelineTypes == PipelineSpec => []PipelineTypeOK
<1>1. PipelineInv => PipelineTypeOK
  BY DEF PipelineInv
<1> QED
  BY <1>1, PipelineInvariant, PTL

\* When the supervisor has ended, no stage and no heir of one is left, whatever made
\* it end.
THEOREM NothingOutlivesSupervisor == PipelineSpec => []NobodyLeft
<1>1. PipelineInv => NobodyLeft
  BY DEF PipelineInv
<1> QED
  BY <1>1, PipelineInvariant, PTL

\* A launch that reports success has finished its run, or filed its order, and left
\* no lock behind.
THEOREM SuccessIsFinished == PipelineSpec => []OkMeansFinished
<1>1. PipelineInv => OkMeansFinished
  BY DEF PipelineInv, OkIsEarned, OkMeansFinished
<1> QED
  BY <1>1, PipelineInvariant, PTL

-----------------------------------------------------------------------------
(* Killing is thorough, answers come first, and nothing is taken back.      *)

\* After SIGKILL no stage has a leader; a stage is only spawned before the timer is
\* set.
KillLeavesNobody ==
  /\ supervisor \in {"absent", "booting"} => killTimer = "none"
  /\ killTimer = "fired" => \A c \in Stages : leader[c] = "gone"

\* The orchestrator is resumed when every job of the delegation has its result, after
\* two calls at most.
AnsweredFirst ==
  /\ bridge \in {"resume", "extract"} => AllAnswered
  /\ \A j \in Jobs : answer[j] # "none" => attempt[j] = 2

\* Who has ended has said how.
EndedHasEnd ==
  /\ supervisor = "ended" <=> superviseEnd # "none"
  /\ launcher = "ended" <=> launchEnd # "none"

FinalInv == KillLeavesNobody /\ AnsweredFirst /\ EndedHasEnd

\* Ends are final: of the launch, the supervisor and each stage; what the supervisor
\* has seen or been told of it stays, and a result stays until the next delegation.
EndsAreFinal ==
  /\ launchEnd # "none" => launchEnd' = launchEnd
  /\ superviseEnd # "none" => superviseEnd' = superviseEnd
  /\ \A c \in Stages : leader[c] = "gone" => leader'[c] = "gone" /\ stageEnd'[c] = stageEnd[c]
  /\ seen \subseteq seen' /\ (received => received') /\ (ioError => ioError')
  /\ \A j \in Jobs : answer[j] \in {"success", "error"} =>
       answer'[j] = answer[j] \/ cycle' = cycle + 1

\* The supervisor's part of the state and the bridge's, for steps that leave one of
\* them alone.
LEMMA BridgeStays ==
  ASSUME FinalInv, UNCHANGED bridgeVars
  PROVE  AnsweredFirst' /\ \A j \in Jobs : answer'[j] = answer[j]
BY DEF FinalInv, AnsweredFirst, AllAnswered, bridgeVars

\* A leader that has ended leaves the others, and a stage that runs has not been
\* killed.
LEMMA StageEndIsFinal ==
  ASSUME PipelineInv, FinalInv, NEW c \in Stages, NEW how, leader[c] = "running",
         StageEnds(c, how), UNCHANGED <<supervisor, killTimer>>
  PROVE  /\ KillLeavesNobody'
         /\ \A d \in Stages : leader[d] = "gone" =>
              leader'[d] = "gone" /\ stageEnd'[d] = stageEnd[d]
<1>1. /\ leader'[c] = "gone"
      /\ \A d \in Stages \ {c} : leader'[d] = leader[d] /\ stageEnd'[d] = stageEnd[d]
  BY DEF StageEnds, PipelineInv, PipelineTypeOK
<1> QED
  BY <1>1 DEF FinalInv, KillLeavesNobody

\* Every step keeps the invariant, and what has ended.
LEMMA StepIsFinal ==
  PipelineInv /\ FinalInv /\ [PipelineNext]_pipelineVars =>
    FinalInv' /\ [EndsAreFinal]_pipelineVars
<1> SUFFICES ASSUME PipelineInv, FinalInv, [PipelineNext]_pipelineVars
             PROVE  FinalInv' /\ [EndsAreFinal]_pipelineVars
  OBVIOUS
<1>0. /\ leader \in [Stages -> {"unborn", "running", "gone"}] /\ seen \subseteq Stages
      /\ attempt \in [Jobs -> 0 .. 2]
      /\ answer \in [Jobs -> {"none", "plans", "success", "error"}]
      /\ "producer" \in Stages /\ "consumer" \in Stages
  BY DEF PipelineInv, PipelineTypeOK, Stages
<1>1. CASE UNCHANGED pipelineVars
  BY <1>1 DEF pipelineVars, launcherVars, superviseVars, processVars, bridgeVars, FinalInv,
     KillLeavesNobody, AnsweredFirst, AllAnswered, EndedHasEnd
<1>2. CASE LaunchStep
  <2>1. /\ UNCHANGED <<received, killTimer, ioError, leader, stageEnd, seen, bridgeVars>>
        /\ EndedHasEnd'
        /\ launchEnd # "none" => launchEnd' = launchEnd
        /\ superviseEnd # "none" => superviseEnd' = superviseEnd
        /\ supervisor' \in {"absent", "booting"} => supervisor \in {"absent", "booting"}
    BY <1>2 DEF LaunchStep, RunBuildStep, StartSupervisor, LaunchEnds, superviseVars,
       processVars, FinalInv, EndedHasEnd, PipelineInv, Beginning
  <2> QED
    BY <2>1, BridgeStays DEF FinalInv, KillLeavesNobody, EndsAreFinal
<1>3. CASE SignalLauncher \/ SignalSupervisor
  <2>1. /\ UNCHANGED <<leader, stageEnd, seen, ioError, bridgeVars>>
        /\ EndedHasEnd' /\ (received => received')
        /\ launchEnd # "none" => launchEnd' = launchEnd
        /\ superviseEnd # "none" => superviseEnd' = superviseEnd
        /\ supervisor' \in {"absent", "booting"} =>
             supervisor \in {"absent", "booting"} /\ killTimer' = killTimer
        /\ killTimer' = "fired" => killTimer = "fired"
    BY <1>3 DEF SignalLauncher, SignalSupervisor, Hear, TerminateChildren, launcherVars,
       superviseVars, FinalInv, EndedHasEnd
  <2> QED
    BY <2>1, BridgeStays DEF FinalInv, KillLeavesNobody, EndsAreFinal
<1>4. CASE RecordIoError
  <2>1. /\ UNCHANGED <<launcherVars, supervisor, superviseEnd, received, leader, stageEnd,
                       seen, bridgeVars>>
        /\ supervisor = "running" /\ ioError'
        /\ killTimer' = "fired" => killTimer = "fired"
    BY <1>4 DEF RecordIoError, TerminateChildren
  <2> QED
    BY <2>1, BridgeStays DEF FinalInv, KillLeavesNobody, EndedHasEnd, EndsAreFinal,
       launcherVars
<1>5. CASE SpawnStages
  <2>1. \A c \in Stages : leader[c] = "unborn"
    BY <1>5 DEF SpawnStages, PipelineInv, Beginning
  <2>2. /\ UNCHANGED <<launcherVars, superviseEnd, received, ioError, bridgeVars>>
        /\ supervisor = "booting" /\ supervisor' = "running" /\ killTimer' # "fired"
        /\ seen = {}
    BY <1>5 DEF SpawnStages, PipelineInv, Beginning
  <2> QED
    BY <2>1, <2>2, BridgeStays DEF FinalInv, KillLeavesNobody, EndedHasEnd, EndsAreFinal,
       launcherVars
<1>6. CASE GraceExpires
  <2>1. \A c \in Stages \ seen : leader'[c] = "gone"
    BY <1>0, <1>6 DEF GraceExpires, Running
  <2>2. \A c \in seen : leader'[c] = "gone"
    BY <1>0, <1>6 DEF GraceExpires, Running, PipelineInv, SeenAreGone
  <2>3. \A c \in Stages : leader[c] = "gone" => stageEnd'[c] = stageEnd[c]
    BY <1>6 DEF GraceExpires, PipelineInv, PipelineTypeOK
  <2>4. /\ UNCHANGED <<launcherVars, supervisor, superviseEnd, received, ioError, seen,
                       bridgeVars>>
        /\ supervisor = "running"
    BY <1>6 DEF GraceExpires
  <2> QED
    BY <2>1, <2>2, <2>3, <2>4, BridgeStays
       DEF FinalInv, KillLeavesNobody, EndedHasEnd, EndsAreFinal, launcherVars
<1>7. CASE SupervisorEnds \/ (\E c \in Stages : SeeExit(c))
  <2>1. /\ UNCHANGED <<launcherVars, received, ioError, leader, stageEnd, bridgeVars>>
        /\ supervisor = "running" /\ seen \subseteq seen'
        /\ \/ supervisor' = "running" /\ superviseEnd' = superviseEnd
           \/ supervisor' = "ended" /\ superviseEnd' # "none"
        /\ killTimer' = "fired" => killTimer = "fired"
    BY <1>7 DEF SupervisorEnds, SeeExit, TerminateChildren, processVars
  <2> QED
    BY <2>1, BridgeStays DEF FinalInv, KillLeavesNobody, EndedHasEnd, EndsAreFinal,
       launcherVars
<1>8. CASE (\E c \in Stages : DieOfSignal(c)) \/ ProducerExits \/ BridgeFails
  <2>1. /\ UNCHANGED <<launcherVars, superviseVars, seen, bridgeVars>>
        /\ \E c \in Stages, how \in {BySignal, StageExit(0), StageExit(1)} :
             leader[c] = "running" /\ StageEnds(c, how)
    BY <1>0, <1>8 DEF DieOfSignal, ProducerExits, BridgeFails, BridgeAt, bridgeVars
  <2> QED
    BY <2>1, StageEndIsFinal, BridgeStays
       DEF FinalInv, EndedHasEnd, EndsAreFinal, launcherVars, superviseVars
<1>9. CASE StartHeir \/ HeirEnds \/ BootstrapRun \/ Produce
  <2>1. UNCHANGED <<launcherVars, superviseVars, leader, stageEnd, seen, bridgeVars>>
    BY <1>9 DEF StartHeir, HeirEnds, BootstrapRun, Produce, processVars
  <2> QED
    BY <2>1, BridgeStays DEF FinalInv, KillLeavesNobody, EndedHasEnd, EndsAreFinal,
       launcherVars, superviseVars
<1>10. CASE BridgeStep
  <2>1. UNCHANGED <<launcherVars, superviseVars, seen>>
    BY <1>10 DEF BridgeStep, LookForDelegation, ExtractBlocks, FollowDelegation,
       ReadManifest, ResumeOrchestrator, ResumedRuns, CallLlm, WriteResult, processVars
  <2>2. /\ KillLeavesNobody'
        /\ \A d \in Stages : leader[d] = "gone" =>
             leader'[d] = "gone" /\ stageEnd'[d] = stageEnd[d]
    <3>1. \/ UNCHANGED <<leader, stageEnd>>
          \/ leader["consumer"] = "running" /\
               \E how \in {StageExit(0), StageExit(1)} : StageEnds("consumer", how)
      BY <1>10 DEF BridgeStep, LookForDelegation, ExtractBlocks, FollowDelegation,
         ReadManifest, ResumeOrchestrator, ResumedRuns, CallLlm, WriteResult, BridgeAt,
         processVars
    <3> QED
      BY <1>0, <2>1, <3>1, StageEndIsFinal DEF FinalInv, KillLeavesNobody, superviseVars
  <2>3. AnsweredFirst' /\ \A j \in Jobs : answer[j] \in {"success", "error"} =>
                            (answer'[j] = answer[j] \/ cycle' = cycle + 1)
    <3>1. CASE LookForDelegation \/ ExtractBlocks
      BY <3>1 DEF LookForDelegation, ExtractBlocks, FollowDelegation, BridgeAt, FinalInv,
         AnsweredFirst, AllAnswered
    <3>2. CASE ReadManifest
      BY <3>2 DEF ReadManifest, AnsweredFirst
    <3>3. ASSUME NEW j \in Jobs, CallLlm(j) \/ WriteResult(j)
          PROVE  /\ AnsweredFirst'
                 /\ \A k \in Jobs : answer[k] \in {"success", "error"} => answer'[k] = answer[k]
      <4>1. /\ bridge' = "jobs" /\ answer[j] \in {"none", "plans"}
            /\ attempt' = [attempt EXCEPT ![j] = 2] \/ answer' = answer
            /\ \A k \in Jobs \ {j} : answer'[k] = answer[k] /\ attempt'[k] = attempt[k]
            /\ answer'[j] # "none" => attempt'[j] = 2
        BY <1>0, <3>3 DEF CallLlm, WriteResult, BridgeAt, FinalInv, AnsweredFirst
      <4> QED
        BY <4>1 DEF FinalInv, AnsweredFirst
    <3>4. CASE ResumeOrchestrator
      BY <3>4 DEF ResumeOrchestrator, FinalInv, AnsweredFirst, AllAnswered
    <3>5. CASE ResumedRuns
      BY <3>5 DEF ResumedRuns, BridgeAt, FinalInv, AnsweredFirst, AllAnswered
    <3> QED
      BY <1>10, <3>1, <3>2, <3>3, <3>4, <3>5 DEF BridgeStep
  <2> QED
    BY <2>1, <2>2, <2>3 DEF FinalInv, EndedHasEnd, EndsAreFinal, launcherVars, superviseVars
<1> QED
  BY <1>1, <1>2, <1>3, <1>4, <1>5, <1>6, <1>7, <1>8, <1>9, <1>10
     DEF PipelineNext, SuperviseStep, ProducerStep

\* At the start nothing has ended, been killed or been asked for.
LEMMA FinalFromTheStart == PipelineInit => FinalInv
BY DEF PipelineInit, FinalInv, KillLeavesNobody, AnsweredFirst, EndedHasEnd

\* The invariant of the ends holds always.
LEMMA FinalAlways == PipelineSpec => [](PipelineInv /\ FinalInv)
<1>1. PipelineInit => PipelineInv /\ FinalInv
  BY PipelineInitInv, FinalFromTheStart
<1>2. PipelineInv /\ FinalInv /\ [PipelineNext]_pipelineVars => (PipelineInv /\ FinalInv)'
  BY PipelineInductive, StepIsFinal
<1> QED
  BY <1>1, <1>2, PTL DEF PipelineSpec

\* The orchestrator is resumed only when every job of the delegation has its result,
\* after two calls of the LLM at most; and SIGKILL leaves no leader of a stage alive,
\* whatever each of them was doing (handleTurnlockDelegation and terminateChildren).
THEOREM AnsweredBeforeResumed == PipelineSpec => [](KillLeavesNobody /\ AnsweredFirst)
<1>1. FinalInv => KillLeavesNobody /\ AnsweredFirst
  BY DEF FinalInv
<1> QED
  BY <1>1, FinalAlways, PTL

\* The first end of the launch, of the supervisor and of each stage is its only one:
\* neither a later signal, nor the timer of SIGKILL, nor an exit that comes late takes
\* it back or changes the exit code computed from it.
THEOREM PipelineEndsAreFinal == PipelineSpec => [][EndsAreFinal]_pipelineVars
<1>1. PipelineInv /\ FinalInv /\ [PipelineNext]_pipelineVars => [EndsAreFinal]_pipelineVars
  BY StepIsFinal
<1> QED
  BY <1>1, FinalAlways, PTL DEF PipelineSpec

-----------------------------------------------------------------------------
(* The bridge runs down: what its liveness rests on.                        *)

\* How far the bridge is from the next delegation, and a job from its result.
PlacesLeft(place) == CASE place = "jobs" -> 4
                       [] place = "resume" -> 3
                       [] place \in {"reading", "extract"} -> 2
                       [] OTHER -> 1
CallsLeft(calls, result) == (2 - calls) + CASE result = "none" -> 2
                                            [] result = "plans" -> 1
                                            [] OTHER -> 0

\* A step of the bridge ends it, takes up one more of the delegations there may be,
\* goes on to a later place, or brings one job nearer to its result and leaves the
\* others as they are; a step of any other process leaves the bridge where it is.
BridgeRunsDown ==
  /\ BridgeStep =>
       \/ leader'["consumer"] = "gone"
       \/ cycle' = cycle + 1 /\ cycle' <= MaxCycles
       \/ /\ UNCHANGED <<cycle, attempt, answer>>
          /\ PlacesLeft(bridge') < PlacesLeft(bridge)
       \/ /\ UNCHANGED <<cycle, bridge>>
          /\ \E j \in Jobs :
               /\ CallsLeft(attempt'[j], answer'[j]) < CallsLeft(attempt[j], answer[j])
               /\ \A k \in Jobs \ {j} : attempt'[k] = attempt[k] /\ answer'[k] = answer[k]
  /\ ~BridgeStep => UNCHANGED bridgeVars

\* Both distances are natural numbers.
LEMMA LeftIsNat ==
  ASSUME PipelineTypeOK
  PROVE  PlacesLeft(bridge) \in Nat /\ \A j \in Jobs : CallsLeft(attempt[j], answer[j]) \in Nat
BY DEF PipelineTypeOK, PlacesLeft, CallsLeft

\* A call of the LLM, or the result that is written after the last, brings its job
\* nearer.
LEMMA JobRunsDown ==
  ASSUME PipelineInv, NEW j \in Jobs, CallLlm(j) \/ WriteResult(j)
  PROVE  /\ CallsLeft(attempt'[j], answer'[j]) < CallsLeft(attempt[j], answer[j])
         /\ \A k \in Jobs \ {j} : attempt'[k] = attempt[k] /\ answer'[k] = answer[k]
         /\ UNCHANGED <<cycle, bridge>>
<1>1. /\ attempt \in [Jobs -> 0 .. 2]
      /\ answer \in [Jobs -> {"none", "plans", "success", "error"}]
  BY DEF PipelineInv, PipelineTypeOK
<1>2. CASE CallLlm(j)
  <2>1. /\ attempt[j] < 2 /\ answer[j] = "none"
        /\ \/ attempt'[j] = attempt[j] + 1 /\ answer'[j] = "none"
           \/ attempt'[j] = 2 /\ answer'[j] \in {"none", "plans", "error"}
        /\ \A k \in Jobs \ {j} : attempt'[k] = attempt[k] /\ answer'[k] = answer[k]
        /\ UNCHANGED <<cycle, bridge>>
    BY <1>1, <1>2 DEF CallLlm
  <2> QED
    BY <1>1, <2>1 DEF CallsLeft
<1>3. CASE WriteResult(j)
  <2>1. /\ attempt[j] = 2 /\ answer[j] \in {"none", "plans"}
        /\ attempt'[j] = 2 /\ answer'[j] \in {"success", "error"}
        /\ \A k \in Jobs \ {j} : attempt'[k] = attempt[k] /\ answer'[k] = answer[k]
        /\ UNCHANGED <<cycle, bridge>>
    BY <1>1, <1>3 DEF WriteResult
  <2> QED
    BY <2>1 DEF CallsLeft
<1> QED
  BY <1>2, <1>3

\* Every step of a launch moves the bridge on or leaves it.
LEMMA StepRunsDown ==
  PipelineInv /\ PipelineInv' /\ PipelineNext => BridgeRunsDown
<1> SUFFICES ASSUME PipelineInv, PipelineInv', PipelineNext PROVE BridgeRunsDown
  OBVIOUS
<1>0. /\ PipelineTypeOK /\ cycle \in Nat /\ MaxCycles \in Nat /\ cycle' <= MaxCycles
  BY PipelineConstants DEF PipelineInv, PipelineTypeOK
<1>1. ASSUME BridgeStep
      PROVE  \/ leader'["consumer"] = "gone"
             \/ cycle' = cycle + 1 /\ cycle' <= MaxCycles
             \/ /\ UNCHANGED <<cycle, attempt, answer>>
                /\ PlacesLeft(bridge') < PlacesLeft(bridge)
             \/ /\ UNCHANGED <<cycle, bridge>>
                /\ \E j \in Jobs :
                     /\ CallsLeft(attempt'[j], answer'[j]) < CallsLeft(attempt[j], answer[j])
                     /\ \A k \in Jobs \ {j} :
                          attempt'[k] = attempt[k] /\ answer'[k] = answer[k]
  <2>1. CASE LookForDelegation \/ ExtractBlocks
    BY <1>0, <2>1 DEF LookForDelegation, ExtractBlocks, FollowDelegation, StageEnds, BridgeAt,
       PipelineTypeOK, Stages, PlacesLeft
  <2>2. CASE ReadManifest
    BY <1>0, <2>2 DEF ReadManifest
  <2>3. CASE ResumeOrchestrator
    BY <2>3 DEF ResumeOrchestrator, BridgeAt, PlacesLeft
  <2>4. CASE ResumedRuns
    BY <1>0, <2>4 DEF ResumedRuns, StageEnds, BridgeAt, PipelineTypeOK, Stages, PlacesLeft
  <2>5. ASSUME NEW j \in Jobs, CallLlm(j) \/ WriteResult(j)
        PROVE  /\ CallsLeft(attempt'[j], answer'[j]) < CallsLeft(attempt[j], answer[j])
               /\ \A k \in Jobs \ {j} : attempt'[k] = attempt[k] /\ answer'[k] = answer[k]
               /\ UNCHANGED <<cycle, bridge>>
    BY <2>5, JobRunsDown
  <2> QED
    BY <1>1, <2>1, <2>2, <2>3, <2>4, <2>5 DEF BridgeStep
<1>2. ASSUME ~BridgeStep PROVE UNCHANGED bridgeVars
  <2>1. LaunchStep => UNCHANGED bridgeVars
    BY DEF LaunchStep, RunBuildStep, StartSupervisor, LaunchEnds
  <2>2. SuperviseStep => UNCHANGED bridgeVars
    BY DEF SuperviseStep, SpawnStages, GraceExpires, SupervisorEnds, SeeExit
  <2>3. ProducerStep => UNCHANGED bridgeVars
    BY DEF ProducerStep, BootstrapRun, Produce, ProducerExits
  <2>4. SignalLauncher \/ SignalSupervisor \/ RecordIoError => UNCHANGED bridgeVars
    BY DEF SignalLauncher, SignalSupervisor, RecordIoError
  <2>5. (\E c \in Stages : DieOfSignal(c)) \/ StartHeir \/ HeirEnds \/ BridgeFails
          => UNCHANGED bridgeVars
    BY DEF DieOfSignal, StartHeir, HeirEnds, BridgeFails, bridgeVars
  <2> QED
    BY <1>2, <2>1, <2>2, <2>3, <2>4, <2>5 DEF PipelineNext
<1> QED
  BY <1>1, <1>2 DEF BridgeRunsDown

\* The bridge cannot go round for ever: each of its steps ends it, takes up one of the
\* delegations the launch may have, or comes nearer to the next, and no other process
\* sets it back (handleTurnlockDelegation with its jobs, and its further cycles).
THEOREM BridgeAlwaysRunsDown == PipelineSpec => [][BridgeRunsDown]_pipelineVars
<1>1. PipelineInv /\ PipelineInv' /\ [PipelineNext]_pipelineVars => [BridgeRunsDown]_pipelineVars
  BY StepRunsDown
<1> QED
  BY <1>1, PipelineInvariant, PTL DEF PipelineSpec
=============================================================================
