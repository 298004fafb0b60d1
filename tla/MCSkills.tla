------------------------------ MODULE MCSkills ------------------------------
(* Small instances of four tools that share nothing: a session of           *)
(* loop-clean, runs of the go stage harness on one directory, installers    *)
(* of the Claude Code facade, the set-up of a link.  Only the one that is   *)
(* chosen moves; the others have one initial state.                         *)
EXTENDS LoopClean, StageHarness, Facade, LinkSetup

CONSTANTS finding1, run1, run2, init1, init2, entry1, entry2, installer1, installer2

MCReviewed == {finding1}
MCSkillOf == [f \in MCReviewed |-> "coding-standards"]
MCLoopInits == {init1, init2}

\* One lockfile, and two, which is an error.
PnpmGate == [stack |-> "silent", pkg |-> "silent", locks |-> {"pnpm-lock.yaml"},
             commands |-> {"test"}]
MCGateConfigs == {PnpmGate, [PnpmGate EXCEPT !.locks = {"bun.lock", "bun.lockb"}]}

MCStageRuns == {run1, run2}
GoodInput == [identifiers |-> TRUE, repositoryRoot |-> TRUE, baseIsCommit |-> TRUE,
              outside |-> TRUE, plainCheckout |-> TRUE]
MCInputs == {GoodInput, [GoodInput EXCEPT !.plainCheckout = FALSE]}
MCIndexModes == [p \in {"main.ts"} |-> "100"]

\* A good draft, an invalid one, and a failed one with unbound metadata.
Passed == [status |-> "passed", errors |-> {}, refs |-> {"log"}, parses |-> TRUE,
           metadata |-> TRUE]
MCDrafts == {Passed, [Passed EXCEPT !.status = "failed"],
             [Passed EXCEPT !.status = "failed", !.errors = {"minor"}, !.refs = {},
                            !.metadata = FALSE]}

\* A bound: a stage changes at most two of these before it returns.
StageChanges ==
  {<<"worktree", disk # headDisk>>, <<"HEAD", headSha # 1>>, <<"index", unmerged>>,
   <<"evidence", files # {}>>, <<"output", output = StagesOwn>>}
FewChanges == Cardinality({c \in StageChanges : c[2]}) <= 2 + linger

\* The source of the second entry is missing.
MCManifest == {entry1, entry2}
MCSources == {entry1}
MCInstallers == {installer1, installer2}

VARIABLE chosen

MCVars == <<chosen, loopVars, stageVars, facadeVars, setupVars>>

MCInit ==
  /\ chosen \in {"loop", "stage", "facade", "setup"}
  /\ LoopInit
  /\ \A p \in Ledgers : work[p] = base[p]
  /\ chosen # "loop" => gateConfig = PnpmGate /\ work = base
  /\ StageInit
  /\ chosen # "stage" => /\ runInput = [r \in StageRuns |-> GoodInput]
                         /\ headDisk = [p \in Tracked |-> "plain"]
  /\ FacadeInit
  /\ destination[entry2] = "absent"
  /\ chosen # "facade" => /\ destination = [e \in Manifest |-> "absent"]
                          /\ installMode = [i \in Installers |-> "install"]
  /\ SetupInit
  /\ chosen # "setup" => linkPath = Nowhere /\ physical = Nowhere /\ ~fileLike

\* Inits, and runs, are alike: the first to claim, or to make the directory, is
\* called init1, or run1.
FirstInit == ~Claimed => initPc'[init2] # "claimed"
FirstRun == owner = {} => run2 \notin owner'

MCNext ==
  \/ chosen = "loop" /\ LoopNext /\ FirstInit
     /\ UNCHANGED <<chosen, stageVars, facadeVars, setupVars>>
  \/ chosen = "stage" /\ StageNext /\ FewChanges' /\ FirstRun
     /\ UNCHANGED <<chosen, loopVars, facadeVars, setupVars>>
  \/ chosen = "facade" /\ FacadeNext
     /\ UNCHANGED <<chosen, loopVars, stageVars, setupVars>>
  \/ chosen = "setup" /\ SetupNext
     /\ UNCHANGED <<chosen, loopVars, stageVars, facadeVars>>

MCSpec == MCInit /\ [][MCNext]_MCVars /\ LoopFairness /\ StageFairness

=============================================================================
