------------------------------ MODULE Pipeline ------------------------------
(***************************************************************************)
(* One launch of git-commits-push: start-node.mjs builds and starts the    *)
(* supervisor, which starts the orchestrator (the producer) and the bridge *)
(* (the consumer) in process groups of their own, pipes the one into the   *)
(* other, and ends both when it must.  The bridge reads the orchestrator's *)
(* output to its end, has the LLM answer the jobs it delegates, resumes    *)
(* the orchestrator, and does so again while it delegates.                 *)
(*                                                                         *)
(* The heir is a process the producer started, in its group and with its   *)
(* pipes (a git command).  The resumed orchestrator is in the group of the *)
(* bridge, which waits for it, and dies with it.  A delegation stands for  *)
(* its manifest and resume command; "foreign" is that of a queued order,   *)
(* which the orchestrator runs in the foreground at its end, so that what  *)
(* the order's own bridge prints is in the output of the orchestrator.     *)
(***************************************************************************)
EXTENDS Naturals, FiniteSets

CONSTANTS
  Jobs,           \* jobs of a delegation
  Missing,        \* stages whose executable may be missing
  MaxCycles,      \* bound on the delegations of a launch
  MaxSignals,     \* bound on the signals sent to it
  MaxHeirs        \* bound on the processes the producer starts

Stages == {"producer", "consumer"}

ASSUME PipelineConstants ==
  /\ IsFiniteSet(Jobs) /\ Jobs # {}
  /\ Missing \subseteq Stages
  /\ MaxCycles \in Nat /\ MaxSignals \in Nat /\ MaxHeirs \in Nat

VARIABLES
  launcher,       \* where start-node.mjs is
  launchEnd,      \* "ok", "failed" or "signal" once it ended
  forwarded,      \* it has forwarded a signal
  supervisor,     \* where the supervisor is
  superviseEnd,   \* how it ended
  received,       \* it has received a signal
  killTimer,          \* forceKillTimer, set when terminationStarted is
  ioError,
  leader,         \* of each stage: its leader
  stageEnd,         \* exit code, signal and spawn error of each stage
  heir,           \* "none", "alive", or "told" to end
  told,           \* leaders that were sent SIGTERM
  seen,           \* stages whose exit the supervisor has seen
  signals, heirs, \* signals sent, heirs started
  runState,       \* of the Turnlock run
  lock,           \* the run's running.lock exists and is fresh
  delegation,     \* the delegation in the output the bridge reads
  bridge,         \* where the bridge is
  cycle,          \* delegations it has handled
  attempt, answer \* of each job: calls of the LLM, result

launcherVars == <<launcher, launchEnd, forwarded>>
superviseVars == <<supervisor, superviseEnd, received, killTimer, ioError>>
processVars == <<leader, stageEnd, heir, told, seen>>
boundVars == <<signals, heirs>>
runVars == <<runState, lock, delegation>>
bridgeVars == <<bridge, cycle, attempt, answer>>
pipelineVars == <<launcherVars, superviseVars, processVars, boundVars, runVars,
                  bridgeVars>>

StageExit(code) == [code |-> code, signal |-> FALSE, spawnError |-> FALSE]
BySignal == [code |-> 0, signal |-> TRUE, spawnError |-> FALSE]
NotSpawned == [code |-> 1, signal |-> FALSE, spawnError |-> TRUE]

PipelineInit ==
  /\ launcher = "runtimeBuild" /\ launchEnd = "none" /\ forwarded = FALSE
  /\ supervisor = "absent" /\ superviseEnd = "none" /\ received = FALSE
  /\ killTimer = "none" /\ ioError = FALSE
  /\ leader = [c \in Stages |-> "unborn"]
  /\ stageEnd = [c \in Stages |-> StageExit(0)]
  /\ heir = "none" /\ told = {} /\ seen = {}
  /\ signals = 0 /\ heirs = 0
  /\ runState = "new" /\ lock = FALSE /\ delegation = "none"
  /\ bridge = "reading" /\ cycle = 0
  /\ attempt = [j \in Jobs |-> 0] /\ answer = [j \in Jobs |-> "none"]

-----------------------------------------------------------------------------
(* start-node.mjs.                                                          *)

\* Two builds; a failed one ends the launch.
RunBuildStep ==
  /\ launcher \in {"runtimeBuild", "skillBuild"}
  /\ \/ /\ launcher' = IF launcher = "runtimeBuild" THEN "skillBuild" ELSE "starting"
        /\ UNCHANGED launchEnd
     \/ /\ launcher' = "ended" /\ launchEnd' = "failed"
  /\ UNCHANGED <<forwarded, superviseVars, processVars, boundVars, runVars, bridgeVars>>

StartSupervisor ==
  /\ launcher = "starting"
  /\ launcher' = "waiting"
  /\ \/ supervisor' = "booting" /\ UNCHANGED superviseEnd
     \/ supervisor' = "ended" /\ superviseEnd' = "unstarted"
  /\ UNCHANGED <<launchEnd, forwarded, received, killTimer, ioError, processVars,
                 boundVars, runVars, bridgeVars>>

LaunchEnds ==
  /\ launcher = "waiting" /\ supervisor = "ended"
  /\ launcher' = "ended"
  /\ launchEnd' = IF superviseEnd # "unstarted" /\ forwarded THEN "signal"
                  ELSE IF superviseEnd = "ok" THEN "ok" ELSE "failed"
  /\ UNCHANGED <<forwarded, superviseVars, processVars, boundVars, runVars, bridgeVars>>

-----------------------------------------------------------------------------
(* The supervisor ends its stages.                                          *)

\* isRunning: the supervisor has not seen the leader of the stage exit.
Running == Stages \ seen

\* terminateChildren, once: SIGTERM to the groups of the stages that run, and a
\* killTimer for SIGKILL.
TerminateChildren(running) ==
  IF killTimer # "none" THEN UNCHANGED <<killTimer, told, heir>>
  ELSE /\ killTimer' = "armed"
       /\ told' = told \cup {c \in running : leader[c] = "running"}
       /\ heir' = IF "producer" \in running /\ heir = "alive" THEN "told" ELSE heir

GraceExpires ==
  /\ supervisor = "running" /\ killTimer = "armed"
  /\ killTimer' = "fired"
  /\ leader' = [c \in Stages |-> IF c \in Running THEN "gone" ELSE leader[c]]
  /\ stageEnd' = [c \in Stages |-> IF c \in Running /\ leader[c] = "running"
                                 THEN BySignal ELSE stageEnd[c]]
  /\ heir' = IF "producer" \in Running THEN "none" ELSE heir
  /\ UNCHANGED <<launcherVars, supervisor, superviseEnd, received, ioError, told,
                 seen, boundVars, runVars, bridgeVars>>

\* An error of a pipe that is not EPIPE.
RecordIoError ==
  /\ supervisor = "running" /\ ~ioError
  /\ ioError' = TRUE
  /\ TerminateChildren(Running)
  /\ UNCHANGED <<launcherVars, supervisor, superviseEnd, received, leader, stageEnd,
                 seen, boundVars, runVars, bridgeVars>>

\* Before its handlers are set a signal kills the supervisor.
Hear ==
  \/ /\ supervisor = "booting"
     /\ supervisor' = "ended" /\ superviseEnd' = "signal"
     /\ UNCHANGED <<received, killTimer, told, heir>>
  \/ /\ supervisor = "running"
     /\ received' = TRUE
     /\ TerminateChildren(Running)
     /\ UNCHANGED <<supervisor, superviseEnd>>

SignalSupervisor ==
  /\ signals < MaxSignals /\ signals' = signals + 1
  /\ Hear
  /\ UNCHANGED <<launcherVars, ioError, leader, stageEnd, seen, heirs, runVars,
                 bridgeVars>>

\* The launcher forwards a signal while it waits; one that comes sooner kills
\* it, and one that comes when the supervisor has ended changes only its end.
SignalLauncher ==
  /\ signals < MaxSignals /\ signals' = signals + 1
  /\ \/ /\ launcher \in {"runtimeBuild", "skillBuild", "starting"}
        /\ launcher' = "ended" /\ launchEnd' = "signal"
        /\ UNCHANGED <<forwarded, superviseVars, told, heir>>
     \/ /\ launcher = "waiting"
        /\ forwarded' = TRUE
        /\ \/ Hear
           \/ /\ supervisor = "ended"
              /\ UNCHANGED <<supervisor, superviseEnd, received, killTimer, told, heir>>
        /\ UNCHANGED <<launcher, launchEnd, ioError>>
  /\ UNCHANGED <<leader, stageEnd, seen, heirs, runVars, bridgeVars>>

-----------------------------------------------------------------------------
(* The supervisor starts its stages and waits for them.                     *)

\* A stage whose executable is missing has an error event, which ends the
\* other.
SpawnStages ==
  /\ supervisor = "booting"
  /\ supervisor' = "running"
  /\ \E missing \in SUBSET Missing :
       /\ leader' = [c \in Stages |-> IF c \in missing THEN "gone" ELSE "running"]
       /\ stageEnd' = [c \in Stages |-> IF c \in missing THEN NotSpawned ELSE StageExit(0)]
       /\ seen' = missing
       /\ told' = IF missing = {} THEN {} ELSE Stages \ missing
       /\ killTimer' = IF missing = {} THEN "none" ELSE "armed"
  /\ UNCHANGED <<launcherVars, superviseEnd, received, ioError, heir, boundVars,
                 runVars, bridgeVars>>

\* The producer's output has ended.
OutputEnded == leader["producer"] = "gone" /\ heir = "none"

\* Mutant of SeeExit: the exit of the consumer does not end the producer.
SeeExitOnly(c) ==
  /\ supervisor = "running" /\ leader[c] = "gone" /\ c \notin seen
  /\ seen' = seen \cup {c}
  /\ UNCHANGED <<launcherVars, superviseVars, leader, stageEnd, heir, told, boundVars,
                 runVars, bridgeVars>>

\* The exit of the consumer ends a producer that runs and whose output the
\* supervisor has not read to its end.
SeeExit(c) ==
  /\ supervisor = "running" /\ leader[c] = "gone" /\ c \notin seen
  /\ seen' = seen \cup {c}
  /\ \/ /\ c = "consumer" /\ "producer" \in Running
        /\ TerminateChildren({"producer"})
     \/ /\ c = "producer" \/ "producer" \in seen \/ OutputEnded
        /\ UNCHANGED <<killTimer, told, heir>>
  /\ UNCHANGED <<launcherVars, supervisor, superviseEnd, received, ioError, leader,
                 stageEnd, boundVars, runVars, bridgeVars>>

\* Mutant of Closed: the exit of a stage stands for its close.
ClosedAtExit == seen = Stages

\* Both stages have closed: they have exited and nobody holds their pipes.
Closed == seen = Stages /\ heir = "none"

\* Mutant of PipelineExitCode: the exit code of the producer is not looked at.
PipelineExitCodeOfConsumer ==
  IF \/ ioError
     \/ \E c \in Stages : stageEnd[c].spawnError \/ stageEnd[c].signal
  THEN 1 ELSE stageEnd["consumer"].code

\* resolvePipelineExitCode
PipelineExitCode ==
  IF \/ ioError
     \/ \E c \in Stages : stageEnd[c].spawnError \/ stageEnd[c].signal
  THEN 1
  ELSE IF stageEnd["consumer"].code # 0 THEN stageEnd["consumer"].code
  ELSE stageEnd["producer"].code

\* runSignalAwarePipeline returns, or dies of the signal it received.
SupervisorEnds ==
  /\ supervisor = "running" /\ Closed
  /\ supervisor' = "ended"
  /\ superviseEnd' = IF received THEN "signal"
                     ELSE IF PipelineExitCode = 0 THEN "ok" ELSE "failed"
  /\ UNCHANGED <<launcherVars, received, killTimer, ioError, processVars, boundVars,
                 runVars, bridgeVars>>

-----------------------------------------------------------------------------
(* The stages.                                                              *)

StageEnds(c, how) ==
  /\ leader' = [leader EXCEPT ![c] = "gone"]
  /\ stageEnd' = [stageEnd EXCEPT ![c] = how]

\* A leader that was told to end may take its time.
DieOfSignal(c) ==
  /\ leader[c] = "running" /\ c \in told
  /\ StageEnds(c, BySignal)
  /\ UNCHANGED <<launcherVars, superviseVars, heir, told, seen, boundVars, runVars,
                 bridgeVars>>

StartHeir ==
  /\ leader["producer"] = "running" /\ heir = "none" /\ heirs < MaxHeirs
  /\ heir' = "alive" /\ heirs' = heirs + 1
  /\ UNCHANGED <<launcherVars, superviseVars, leader, stageEnd, told, seen, signals,
                 runVars, bridgeVars>>

HeirEnds ==
  /\ heir # "none"
  /\ heir' = "none"
  /\ UNCHANGED <<launcherVars, superviseVars, leader, stageEnd, told, seen, boundVars,
                 runVars, bridgeVars>>

\* bootstrapOrchestratorRun: the run takes the lock, or its order is queued.
BootstrapRun ==
  /\ leader["producer"] = "running" /\ runState = "new"
  /\ \/ runState' = "fresh" /\ lock' = TRUE
     \/ runState' = "queued" /\ UNCHANGED lock
  /\ UNCHANGED <<launcherVars, superviseVars, processVars, boundVars, delegation,
                 bridgeVars>>

\* The phases of the run, until it delegates, finishes or fails.
Orchestrate ==
  \/ /\ cycle < MaxCycles
     /\ runState' = "delegated" /\ delegation' = "own"
     /\ UNCHANGED lock
  \/ /\ runState' = "finished"
     /\ lock' = FALSE
     /\ delegation' \in {"none"} \cup IF cycle < MaxCycles THEN {"foreign"} ELSE {}
  \/ /\ runState' = "failed" /\ delegation' = "none"
     /\ UNCHANGED lock

\* The producer runs while somebody reads its output.
Produce ==
  /\ leader["producer"] = "running" /\ runState = "fresh"
  /\ leader["consumer"] = "running"
  /\ Orchestrate
  /\ UNCHANGED <<launcherVars, superviseVars, processVars, boundVars, bridgeVars>>

ProducerExits ==
  /\ leader["producer"] = "running" /\ runState \notin {"new", "fresh"}
  /\ StageEnds("producer", StageExit(IF runState = "failed" THEN 1 ELSE 0))
  /\ UNCHANGED <<launcherVars, superviseVars, heir, told, seen, boundVars, runVars,
                 bridgeVars>>

-----------------------------------------------------------------------------
(* The bridge.                                                              *)

BridgeAt(place) == leader["consumer"] = "running" /\ bridge = place

\* The bridge fails: its entrypoint cannot be loaded; the manifest is missing
\* or malformed; the result of a job cannot be written; the resume command is
\* not that of the compiled run.
BridgeFails ==
  /\ \E place \in {"reading", "manifest", "jobs", "resume"} : BridgeAt(place)
  /\ StageEnds("consumer", StageExit(1))
  /\ UNCHANGED <<launcherVars, superviseVars, heir, told, seen, boundVars, runVars,
                 bridge, cycle, attempt, answer>>

FollowDelegation ==
  /\ IF delegation = "none"
     THEN StageEnds("consumer", StageExit(0)) /\ UNCHANGED bridge
     ELSE bridge' = "manifest" /\ UNCHANGED <<leader, stageEnd>>
  /\ UNCHANGED <<launcherVars, superviseVars, heir, told, seen, boundVars, runVars,
                 cycle, attempt, answer>>

\* The last complete block counts: of the input once it has ended, later of all
\* that the resumed orchestrator printed.
LookForDelegation == BridgeAt("reading") /\ OutputEnded /\ FollowDelegation
ExtractBlocks == BridgeAt("extract") /\ FollowDelegation

ReadManifest ==
  /\ BridgeAt("manifest")
  /\ bridge' = "jobs" /\ cycle' = cycle + 1
  /\ attempt' = [j \in Jobs |-> 0] /\ answer' = [j \in Jobs |-> "none"]
  /\ UNCHANGED <<launcherVars, superviseVars, processVars, boundVars, runVars>>

\* Two calls at most: a response that is not JSON, or no array, is asked for
\* again; an array ends the calls, and so does an error.
CallLlm(j) ==
  /\ BridgeAt("jobs") /\ answer[j] = "none" /\ attempt[j] < 2
  /\ \/ /\ attempt' = [attempt EXCEPT ![j] = @ + 1]
        /\ UNCHANGED answer
     \/ /\ attempt' = [attempt EXCEPT ![j] = 2]
        /\ answer' \in {answer, [answer EXCEPT ![j] = "plans"], [answer EXCEPT ![j] = "error"]}
  /\ UNCHANGED <<launcherVars, superviseVars, processVars, boundVars, runVars,
                 bridge, cycle>>

\* Without plans, and if they cannot be written, the result is an error.
WriteResult(j) ==
  /\ BridgeAt("jobs") /\ attempt[j] = 2 /\ answer[j] \in {"none", "plans"}
  /\ answer' \in {[answer EXCEPT ![j] = "error"]} \cup
       IF answer[j] = "plans" THEN {[answer EXCEPT ![j] = "success"]} ELSE {}
  /\ UNCHANGED <<launcherVars, superviseVars, processVars, boundVars, runVars,
                 bridge, cycle, attempt>>

AllAnswered == \A j \in Jobs : answer[j] \in {"success", "error"}

ResumeOrchestrator ==
  /\ BridgeAt("jobs") /\ AllAnswered
  /\ bridge' = "resume"
  /\ UNCHANGED <<launcherVars, superviseVars, processVars, boundVars, runVars,
                 cycle, attempt, answer>>

\* The resumed orchestrator runs to its end; the bridge fails if it does.  The
\* run of a foreign delegation has been resumed before.
ResumedRuns ==
  /\ BridgeAt("resume")
  /\ IF delegation = "own" THEN Orchestrate
     ELSE delegation' = "none" /\ UNCHANGED <<runState, lock>>
  /\ IF runState' = "failed" THEN StageEnds("consumer", StageExit(1)) /\ UNCHANGED bridge
     ELSE bridge' = "extract" /\ UNCHANGED <<leader, stageEnd>>
  /\ UNCHANGED <<launcherVars, superviseVars, heir, told, seen, boundVars, cycle,
                 attempt, answer>>

-----------------------------------------------------------------------------
LaunchStep == RunBuildStep \/ StartSupervisor \/ LaunchEnds

SuperviseStep ==
  SpawnStages \/ GraceExpires \/ SupervisorEnds \/ \E c \in Stages : SeeExit(c)

BridgeStep ==
  \/ LookForDelegation \/ ExtractBlocks \/ ReadManifest \/ ResumeOrchestrator
  \/ ResumedRuns
  \/ \E j \in Jobs : CallLlm(j) \/ WriteResult(j)

ProducerStep == BootstrapRun \/ Produce \/ ProducerExits

PipelineNext ==
  \/ LaunchStep \/ SuperviseStep \/ ProducerStep \/ BridgeStep
  \/ SignalLauncher \/ SignalSupervisor \/ RecordIoError
  \/ \E c \in Stages : DieOfSignal(c)
  \/ StartHeir \/ HeirEnds \/ BridgeFails

PipelineSpec == PipelineInit /\ [][PipelineNext]_pipelineVars

\* Once the launch is waiting, each process goes on; the LLM, git and Turnlock
\* return.  A leader need not obey SIGTERM, and no signal need be sent.
PipelineFairness ==
  /\ WF_pipelineVars(launcher = "waiting" /\ LaunchStep)
  /\ WF_pipelineVars(SuperviseStep)
  /\ WF_pipelineVars(ProducerStep)
  /\ WF_pipelineVars(BridgeStep)
  /\ WF_pipelineVars(HeirEnds)

-----------------------------------------------------------------------------
(* Properties.                                                              *)

\* Every variable keeps its type.
PipelineTypeOK ==
  /\ launcher \in {"runtimeBuild", "skillBuild", "starting", "waiting", "ended"}
  /\ launchEnd \in {"none", "ok", "failed", "signal"}
  /\ supervisor \in {"absent", "booting", "running", "ended"}
  /\ superviseEnd \in {"none", "unstarted", "ok", "failed", "signal"}
  /\ killTimer \in {"none", "armed", "fired"}
  /\ heir \in {"none", "alive", "told"}
  /\ {forwarded, received, ioError, lock} \subseteq BOOLEAN
  /\ leader \in [Stages -> {"unborn", "running", "gone"}]
  /\ stageEnd \in [Stages -> {StageExit(0), StageExit(1), BySignal, NotSpawned}]
  /\ told \subseteq Stages /\ seen \subseteq Stages
  /\ signals \in 0 .. MaxSignals /\ heirs \in 0 .. MaxHeirs
  /\ runState \in {"new", "queued", "fresh", "delegated", "finished", "failed"}
  /\ delegation \in {"none", "own", "foreign"}
  /\ bridge \in {"reading", "manifest", "jobs", "resume", "extract"}
  /\ cycle \in 0 .. MaxCycles
  /\ attempt \in [Jobs -> 0 .. 2]
  /\ answer \in [Jobs -> {"none", "plans", "success", "error"}]

\* A launch that reports success has finished its run, or filed it: every
\* delegation was answered and the orchestrator resumed, through four processes
\* each of which may fail, be missing or be ended, and two exit codes that become
\* one.
OkMeansFinished ==
  launchEnd = "ok" => runState \in {"finished", "queued"} /\ ~lock

\* When the supervisor has ended nothing it started writes to its pipes any
\* more, whatever made it end: no stage and no heir of one is left.
NobodyLeft ==
  supervisor = "ended" =>
    heir = "none" /\ \A c \in Stages : leader[c] # "running"

\* A launch ends: the consumer that dies early does not leave the producer
\* stuck on a pipe nobody reads, and a stage that does not obey SIGTERM is
\* killed.
PipelineEnds == launcher = "waiting" ~> launcher = "ended"
=============================================================================
