# A TLA+ development of dotagents

This directory holds TLA+ models of the programs of the `dotagents` repository
that have state and concurrency, the TLC configurations that check them on small
instances, and proofs, checked by TLAPS, for instances of every size.  Paths
below are relative to the root of the repository.

## Inventory

| Component | State it keeps | Operations | What is hard |
|---|---|---|---|
| **Order queue and lock** (`skills/git-commits-push/src/utils/lock-manager.ts`, `modules/orders/`, `utils/cli-bootstrap.ts`, `utils/runtime-launch.ts`) | `running.lock` (owner, mtime), the directory of `order-*.json` files, the runs' environments | acquire or queue, heartbeat, take over a stale lock, release, hand over to the oldest order, exit hooks | separate processes, every file-system call is a step; liveness judged by mtime; parents blocked in `spawnSync`; deaths anywhere |
| **Commit and push phase** (`phases/step1`, `phases/step2`, `modules/core/queue-retry.ts`, `error-classifier.ts`, `fallback-model.ts`, `validators/`, `modules/git/publisher.ts`, `push.ts`, `diff.ts`) | `RepoState` persisted between processes, the git repository | validate, stage, scan, delegate to the LLM, judge its plans, commit them, push, classify errors, retry | budgets per kind of error, one of them restarted; partial commits; the worktree moves under the run |
| **Delegation protocol** (`entrypoints/turnlock-orchestrator.ts`, `turnlock-to-llm-bridge.ts`) | blocks on standard output, result files of jobs | emit a delegation, run jobs, write results, resume the orchestrator | nested output of spawned runs; errors of single jobs |
| **Pipeline supervisor** (`entrypoints/node-supervisor.ts`, `scripts/start-node.mjs`) | two children and their pipes, one grace timer | spawn, pipe, abort, terminate, kill, combine exit codes | signals, exits and I/O errors in any order |
| **Process runner** (`packages/node-runtime/src/run-process.ts`, `process-tree.ts`) | one child, captured output, first reason for termination | run, time out, abort, limit output, fail on I/O | five events race for one outcome |
| **Discovery and git helpers** (`modules/core/discovery.ts`, `utils/git-utils.ts`, `modules/git/git-exec.ts`) | none | list dirty repositories, children before parents; stage; take diffs | a submodule and its parent in one run |
| **Secret scanner, commit message validator** | none | verdicts on text | regular expressions |
| **Credentials, settings, state schema** | none | parse and validate | - |
| **Reporting and telemetry** (`reporter.ts`, `feedback-formatter.ts`, `telemetry/stats-logger.ts`) | an event sink | log, report | throws where it must not |
| **Node cutover** (`utils/node-cutover-preflight.ts`, `scripts/`) | none; reads runs, locks, orders and the closure ledger | check whether anything stands in the way of the migration | reads several files, without a lock, of a system at work |
| **go stage harness** (`skills/go/src/stage-harness/`) | artefact directory of a stage | check the input, claim the directory, call the stage, take a snapshot, validate, persist by rename | partial failure, a second run on the same directory, a process the stage leaves behind |
| **loop-clean** (`skills/loop-clean/`) | session marker, baseline, registry of deferred findings, files of each iteration | init, capture the scope, review, gate, collect, decide, route, finalize | concurrent inits; edits during the review; termination; findings that get lost |
| **git-commits-push enforcer** (`agent-enforcers/git-commits-push-enforcer/`) | one-shot tokens with a time to live of 30 s | grant, validate and burn | read then unlink |
| **Permission enforcer** (`agent-enforcers/permission-enforcer/`) | one file with the scopes of every session | grant, revoke, consult | read-modify-write without a lock |
| **Path guard, command validator** | none | verdicts on text | - |
| **claude facade** (`scripts/claude-facade/`) | symbolic links in a home directory | examine, create, replace by rename, check | check then act, several installers, deaths |
| **Link set-up** (`skills/create-symlink-for-dot-folders/scripts/create-symlink.mjs`) | a path, its physical target, a copy in `/tmp` | copy, remove, link, move back | a failure at any call, and the script run again |
| **Coding standards tools, documentation and scaffolding skills, asset copy, YAML** | none | sequential file generation | - |
| **External**: Turnlock, the LLM runtime, git and the remote, the operating system, the repositories' owner | | appear as the steps the code depends on | |

How they interact: `start-node.mjs` runs the supervisor, which pipes the
orchestrator into the bridge.  The orchestrator bootstraps through the lock
manager; if another run holds the lock it files its order and exits.  Otherwise
it runs step 1, which delegates one job per repository to the LLM and ends the
process; the bridge performs the jobs, writes their results and resumes the
orchestrator, which runs step 2: judge, commit, push, or queue a retry, which is a
new delegation.  When nothing is left to retry, step 2 logs, releases the lock and
spawns the whole pipeline for the oldest queued order.  The other tools share
nothing with it or with each other; the process runner is their common library.

What makes each component correct: the queue excludes, loses nothing, is fair and
does not block for ever; a repository's run commits what was planned and nothing
else, remembers what it committed, and ends after a bounded number of LLM calls;
a run over several repositories reports the fate of each; the supervisor and the
process runner leave no child behind and report the first cause; the cutover check
misses nothing that stands in the way; a stage publishes a whole and true output or
none; a clean verdict of loop-clean is about what was reviewed and checked; the
facade replaces links only; the link set-up loses no content.

`PROJECT.json` lists the places where these can go wrong ("hazards"), each at its
line, with the properties that cover it.

## Plan

| # | Module | Status |
|---|---|---|
| 1 | `OrderQueue`, abstract specification `OrderService`, `OrderQueueProofs` | done |
| 2 | `RepoPublish`, `RepoPublishProofs` | done |
| 3 | `Pipeline`: launcher, supervisor, orchestrator and bridge of one launch | done |
| 4 | `RunProcess`, `RunProcessProofs` | done |
| 5 | `RepoBatch`: a run over several repositories and their submodules | done |
| 6 | `Cutover`: the preflight check beside runs that move | done |
| 7 | `StageHarness`: runs of a stage on one artefact directory | done |
| 8 | `LoopClean`: a session of loop-clean | done |
| 9 | `Facade`, `LinkSetup`: links in a home directory | done |
| 10 | `LinksProofs`, `StageHarnessProofs`, `CutoverProofs`, `PipelineProofs`, `LoopCleanProofs` | done |
| 11 | The safety properties of `OrderQueue` and `RepoBatch`, and the refinement of `OrderService` | done |
| 12 | The abstract run `RepositoryRuns`, kept by `RepoPublish` and `RepoBatch` (`RepoContract`) | done |
| 13 | What no step takes back, and the measures that every step lowers, of each concurrent component | done |

Every safety property of the passing runs is a theorem, the two refinements
included.  What is left to the model checker alone is liveness; for each component
that has a liveness property a theorem gives the part of its argument that does not
need fairness, see Proofs.

**Composite instances.**  `MCRepoBatch`, `MCRunProcess`, `MCQueueCutover` and
`MCSkills` check several independent modules in one run.  The variable `chosen` says
which of them moves in a behaviour; the others stay in one initial state and are
left unchanged, so the state space is the sum and not the product of theirs.

## Module 1: the order queue

`OrderQueue.tla` models every run of the skill that shares one lock directory.  A
step is one call on the file system, because between two calls any other process
may act: `CheckLock`, `ReadLock`, `StatStale`, `StatActive`, `TakeOver`, `Purge`,
`WriteLock`, `Enqueue`, `Position` are the calls of `checkAndAcquireLock` in its
order; `CheckOwner`, `Unlink`, `ListNext`, `Dequeue`, `Spawn`, `Reap` those of
`releaseLockAndTriggerNext`.  `Delegate` and `Resume` are the moments when the
bridge, and not the orchestrator, keeps the heartbeat.  `Beat` and `Tick` are the
two things a heartbeat period may bring: the lock is touched, or ages.

Identifiers are model values and stamps are ranks.  A fresh run or order is chosen
by `CHOOSE`: which one is of no consequence.

The constant `Adversity` says what the environment may do: interleave the short
file-system sections of two runs ("race"), starve the heartbeat timer behind
synchronous code ("starve"), kill or interrupt processes and make a spawn fail
("kill"), make a phase throw ("abort"), make telemetry throw ("telemetry").  A run
without an adversity is a statement about executions in which that does not happen,
and the README says so for each.

| Run | Adversity | Shows |
|---|---|---|
| `queue_quiet` (5 runs, 3 orders) | none | the queue implements `OrderService` (one order at a time, each once), hands on first come first served, strands no order, and serves every accepted one |
| `queue_deaths` (4 runs, 3 orders) | kill, abort | exclusion, a holder's lock is in the file and fresh, a lock is removed only by right, no order is taken up by two runs, the lock of a dead run expires |
| `queue_adverse` (4 runs, 2 orders) | all | no orderly end leaves a lock behind; every run ends, those blocked on a child included |
| `queue_starved` | starve | *violated*: two runs work at once after a heartbeat was missed for 40 s |
| `queue_orphan` | race | *violated*: an order filed after the owner listed the queue is nobody's |
| `queue_telemetry` | telemetry | *violated*: a telemetry error at the end keeps the lock |

Three orders are enough for one to overtake another; five runs let two of them be
filed, spawned and, in part, filed again.  `StaleAfter` is 4 (40 s in periods of
10 s).  One delegation per run suffices to have both kinds of heartbeat.

Fairness (`FairSpec`): each run's own steps and the clock are weakly fair.  The
operating system schedules processes; commands and LLM calls have time limits
(`settings.ts`); the number of delegations is bounded (module 2).  Nothing obliges
a user to submit or a fault to happen.

## Module 2: one repository

`RepoPublish.tla` follows one repository from validation to its final status,
through any number of processes: `status`, `attempts`, `fallbackAttempted`,
`diffHash`, `lastPlan`, `committedShas` are the fields of `RepoState`
(`types.ts:157-193`); `work`, `index`, `head`, `ahead`, `landed` are the git
repository.  A content is a version number; a diff is the set of its changes and
stands for its hash; a plan is the set of its paths; what the LLM answers is a list
of plans and a wording.

`Validated` and `Rejected` are step 1 (`processRepoValidationAndDiff`);
`LlmRejected` to `Accept` are the head of step 2, including `shouldUseFallback` and
the reset of the validation budget; `DuplicateFile` to `CleanupFails` are the
branches of `executeMultiCommitAndPush` in its order; `NoPush`, `Push`, `PushFails`
are `executePush`; `Retry` and `GiveUp` are the classification of the error and
`QueueRetry`, the operator all retries share: loop detection, reconstruction of the
remaining diff, the new delegation.  `Edit` and `Stage` are the repository's owner.

| Run | Instance | Shows |
|---|---|---|
| `publish_retries` | 2 files, all settings (without `autoPush` the remote makes no difference); with pushing and without fallback also two edits or stagings by the owner at any time | at most ten delegations; commits that landed stay on record; a commit changes only files of its plan; with `autoPush` and a remote a success leaves nothing to push, unless it is the "empty" answer of the LLM after partial commits, which leaves them unpushed; every repository ends |
| `publish_scan` | one edit | *violated*: contents that never went through the secret scan are committed |
| `publish_unreachable` | owner idle | *violated*: after a push that found no remote the LLM is asked to plan an empty diff; the push is not retried |

Two files are enough for two commits, a partial commit and a file in two plans; the
lists of plans in `MCRepoPublish` are the ones that tell the branches of the
publisher apart.  The budgets are those of the code, not bounds of the model; only
the owner's steps are bounded (`MaxMeddling`).

Fairness: `WF_vars(Run)`.  The processes are scheduled, and the LLM answers or the
bridge reports an error.

## Module 3: one launch

`Pipeline.tla` follows one launch from `start-node.mjs` to its exit code.
`RunBuildStep`, `StartSupervisor`, `LaunchEnds`, `SignalLauncher` are the launcher;
`SpawnStages`, `SeeExit`, `TerminateChildren`, `GraceExpires`, `RecordIoError`,
`SignalSupervisor`, `SupervisorEnds` are `node-supervisor.ts`, with `seen` what it
knows of its children and `killTimer` both `terminationStarted` and
`forceKillTimer`; `BootstrapRun`, `Produce`, `ProducerExits` are the orchestrator;
`LookForDelegation` to `ExtractBlocks` the bridge.  `leader` and `heir` are the
process groups: the heir is a process the orchestrator started, with its pipes.
`close` of a stage comes when its leader has exited and nobody else holds the pipes
(`Closed`).

`process_races` chooses between a call of `RunProcess` and a launch with one job,
two cycles of delegation, one signal and one heir, where either stage may be
missing.  It shows that a launch that reports success has finished its run or
filed it, and has released its lock; that when the supervisor has ended no stage
and no heir is left; and that a launch ends.  Two cycles reach a retry and, by a
nested order, a delegation that is not the launch's own ("foreign").

Fairness (`PipelineFairness`): once the launch waits for its supervisor each process
goes on; the LLM, git and Turnlock return.  A leader need not obey SIGTERM, and no
signal need be sent.

## Module 4: one process

`RunProcess.tla` follows one call of `runProcess`.  `finished`, `reason`,
`failure`, `terminating` are the locals `processFinished`, `requestedTermination`,
`ioState`, `terminationStarted`; `grace` and `timer` are the two timers, `task` and
`input` the three promises of the streams, `captured` the length of
`CapturedOutput`.  `alive`, `doomed` and `pipe` are the operating system's: the
process group, who has received a signal that ends it, and unread output.

`BeginTermination`, `RequestTermination` and `RecordIoFailure` are the closures of
the same names, used by the actions that call them: `Abort`, `Timeout`,
`HandleChunk` (the limit), `OutputFails`, `InputBreaks`, `InputThrows`.  `ReadChunk`
and `HandleChunk` are the two halves of a turn of `monitorOutput`, with the `await`
of the handler between them.  `CloseEvent` waits for every holder of the pipes, not
for the loops that read them; `Settle` waits for the loops.  `Fork`, `Write`, `End`
and `Die` are the group.

| Run | Instance | Shows |
|---|---|---|
| `process_races` | a child, one descendant that ignores SIGTERM and holds the pipes, limit 1 byte, 2 bytes per stream | the reported reason is what was done; all output up to the limit is in the result; a call that must end settles |

One byte fits and two do not, so the limit is passed in one chunk or in two; one
descendant is enough to outlive the child and keep the streams open.  A reason to
end that comes before the end, after it, or between the close event and the last
handler is reached in every order.

Fairness (`Fairness`): the kernel delivers signals, node serves its timers, streams
and events, and handlers of output return.  Writing the input is only obliged to
end once the child is dead, when node destroys the stream.  Nothing makes a process
end of itself, so a call without a time-out, an abort or a failure need not settle.

## Module 5: a run over several repositories

`RepoBatch.tla` has repositories inside repositories.  `Discover` tests each for
changes, as git sees them: its own files, and the HEADs of its submodules (`links`).
The later phases take the deepest first (`Deepest`).  `Validate` stages everything in it and inside
it (`StageInside`) and takes the diff; `DelegateBatch` sends what is valid to the
LLM; `PublishSucceeds`, `PublishGivesUp`, `PublishIsRetried` are the outcomes that
`RepoPublish` has in detail, here with the files and gitlinks that each commit
takes (`Taking`); `DelegateRetries` is a further round, `ReportAll` and `End` the
verdict of the run.

`RepositoryRuns.tla` is what the phase promises of each repository, seen from outside:
it is decided once and not before it was tried, its commits of the run only grow, and
it is a success only with a commit.  `RepoContract` maps both views to it: `OneRun` the
detailed life of one repository in `RepoPublish`, `EachRun` the outcomes of all in
`RepoBatch`.  `ContractKept`, that both implement it, is what justifies that
`RepoBatch` replaces that life by three outcomes.

| Run | Instance | Shows |
|---|---|---|
| `publish_retries` (chosen "one" and "all") | the instance of module 2, and the one below | `ContractKept` |
| `publish_retries` (chosen "all") | a repository, its submodule and a submodule of that, 2 rounds, one edit of the owner | the verdict is "done" only if every repository with changes has a commit since, and "failed" only for one that failed, with all others decided |
| `batch_submodules` | the same | *violated*: a parent published with its submodule records the commit the submodule had before the run |

Three levels are the least in which the parent of a submodule is a submodule; two
rounds let a repository be retried after its parent has succeeded.

## Module 6: the cutover check

`Cutover.tla` models what a run leaves on disk (`TakeQueueLock` to `EndRun`, and
`RunDies` anywhere) and the preflight, one file-system read per step:
`ReadClosureLedger`, `ListRuns`, `InspectTurnlockLock`, `InspectRun`,
`ListOrderState`, `InspectQueueLock`.  `standing` is a history variable: what stood
in the way ever since the preflight began.  `queue_quiet` (chosen "cutover", two
runs, one order) shows that a check that says "ready" has missed nothing that was
there throughout.  It can miss what moves, see Differences.

## Module 7: a stage of go

`StageHarness.tla` follows `runStage` for two runs that were given the same artefact
directory: `Preflight`, `CreateDirectory`, `InvokeStage`, the three reads of git
(`CollectHead`, `CollectTrackedHash`, `CollectClean`), `Validate`, `Assemble`,
`WriteTemporary`, `RenameOutput`.  `StageWorks` is all that the stage has done when it
returns a draft or throws: changes in the worktree, a commit, unmerged entries,
evidence, reserved files (`Streams`, and an `output.json` of its own), any of them
together.  `Linger` is a process it left behind, which makes one change at a time
(`OneChange`); `GitMissing`, `PersistenceFails` and `StageKilled` fail or end a run
at any step.

## Module 8: a session of loop-clean

`LoopClean.tla` has one action per command of `loop-clean.sh` or per read of the
worktree within one: `InitReadsHead`, `InitReadsIndex`, `InitPublish`, `InitClaim`,
or `InitRefused`, for each of two processes that begin the same session;
`ReadStatus`, `ReadContents`; `Review` for each skill; `GateStarts`, `RunChecks`,
`GateEnds` or `GateDisturbed`; `CollectFindings`, `Decide`, `Fix`, `AcceptRouting`,
`ReadHead`, `Finalize`; and each command's failure.  The agents are the environment: a reviewer reports any finding of its own
or an unusable file, the router writes any routing.  They follow the order that
`agents/loop-clean-orchestrator.md` prescribes (`After`).  `EditPath`, `StagePaths`
and `CommitAll` are other people; a commit of what was staged already changes HEAD
and not the index.  HEAD and index are read one after the other, when the baseline is
captured and when it is verified, so a commit between the two reads of `finalize` may
go unnoticed; `lateCommits` counts these, and `ReportIsTrue` says that nothing else
does.

## Module 9: links

`Facade.tla` has installers that go through the manifest (`Look`, `DecideEntry`,
`Create`, `LinkTemporary`, `PublishLink`, `PublishFails`), any of which may die
(`InstallerDies`), and an owner who changes a destination.  `LinkSetup.tla` has the
steps of `create-symlink.mjs`, any of which may throw (`SetupFails`), after which
the script is run again (`SetupAgain`); each content is known by its name and by
where it was at first, so that it can be told whether it survives.

| Run `tools`, chosen | Instance | Shows |
|---|---|---|
| "stage" | 2 runs, a tracked path, three drafts, one evidence file, `stdout.txt`; a stage that changes up to two things (worktree, HEAD, index, evidence, `output.json`) before it returns, in any combination, and one step of the process left behind | one run at most works in the directory; `output.json` is whole and says what its run saw; every run ends |
| "loop" | 2 inits, one semantic finding and one check with a command, a source and a ledger, two package configurations, 2 iterations, one touch by others | one init wins; a clean or handled verdict was reviewed and checked; a check that ever failed was routed to be fixed, and passes; no finding is forgotten; a report without an error means that no command failed, and that HEAD and index are untouched but for late commits; the session ends |
| "facade" | 2 installers, 2 entries of which one has no source, both modes, one change by the owner | what an installer changes becomes the right link at once, and was absent or a link that is not right, unless the owner has put something else there since the installer looked, which may be a real file; what is reported as installed checks as OK |
| "setup" | 2 names, one that of the path, 2 runs of the script | each content is at the path, at the target or in `/tmp`, whatever fails |

The inits, and the runs of a stage, are alike, so the first to claim the session or to
make the directory is called the first (`FirstInit`, `FirstRun` in `MCSkills`); two
changes of a stage are enough for each of what is validated and read to be disturbed
together with any other (`FewChanges`).  Two iterations are enough for a finding to be fixed, deferred, found again and
compared with the round before; the ceiling is `MAX_ITERATIONS`, 10 in the code.
The session begins with a ledger that is as in HEAD.

Fairness: `LoopFairness` - the orchestrator carries on, and its commands and skills
return; nobody has to begin a session.  `StageFairness` - a run that has begun is
served by Node, and its stage returns or throws.  The facade and the link set-up
have safety properties only.

## Proofs

Each proof module extends the modules it is about.  Assumptions are their named
`ASSUME`s only: types of the constants; that absent values are absent (`NoRun` is no
run, `"none"` and `"stage"` are no runs of a stage); that the sets of orders, jobs and
findings are finite; `OwnName \in Names`; that there is room for one run of a script,
one round, one job.  `Cutover` needs none.  Every inductive invariant was checked by
TLC on the instance of its component before it was proved.

`OrderQueueProofs`:

- `TypeCorrect` and `NoLockIsLeaked` hold under any adversity.
- `OneRunWorks` (mutual exclusion) and `LockOnlyRemovedByRight` hold when sections
  do not interleave and no heartbeat is starved.  Exclusion is not inductive: that a
  run in `write` may take the lock rests on what it read several calls earlier.
  `LockInv` adds that a holder's lock is in the file with age 0 (`HeldLockIsFresh`),
  that one run at a time is in a section (`SectionAlone`), and that what a
  bootstrapping run learnt is still true (`KnowsLock`).  `LockIsKept` proves it,
  and `HeldLockStaysFresh` draws the first of these from it.
- `QueuedOrdersAreCaredFor` (no orphan) holds when sections do not interleave and
  nobody dies or throws; heartbeats may be starved.  Then two runs may work at once,
  so the argument is not exclusion: the lock in the file, whoever wrote it, is that of
  a run that will release it (`OwnerHolds`), without a lock somebody is between two
  holders (`HandedOver`), and a run whose lock was taken over is still at work while
  the queue is purged (`PurgeIsSeen`).  The run `queue_orphan` shows that the first
  hypothesis is needed.
- `FirstQueuedIsFirst` holds whatever dies, as long as sections do not interleave:
  nobody files or deletes an order between the listing and the deletion
  (`OldestListed`).
- `QueueImplementsService`: without adversity the queue refines `OrderService`.  The
  mapping gives each order the status of the runs that carry it, so the proof needs
  that an order is in one place (`EachOrderOnce`): in the queue, in the hands of a
  run about to spawn its carrier, or with one run that has not just filed it.  With
  that and `LockInv` each action is a step of the service or a stutter: `Submit`
  accepts (`SubmitAccepts`), `WriteLock` begins (`WriteLockBegins`), `Unlink`
  finishes (`UnlinkFinishes`), all others stutter (`SpawnStutters`, `NobodyMoves`).
- `OrdersTakenUpOnce`: with kills, failures and starved heartbeats, but without
  interleaved sections, an order is still in one place at most (`OnceInv`), because its
  file is deleted before its carrier is spawned; so no order is taken up twice.  What a
  kill costs is that it may be taken up by nobody.
- `NoRunGoesBack` and `NobodyWaitsInACircle` hold under any adversity.  A step of a run
  uses up a delegation or leads to a later stage (`StagesLeft`).  Of any runs that are
  blocked in `spawnSync` one waits for a started child that is not among them
  (`WaitsUnwind`); its inductive form, `Descent`, says that a run has one child at most,
  and that every set of runs has a member without a child in it.

The hypotheses on `Adversity` are about executions, not about the code: two sections,
each some milliseconds long, do not overlap; a heartbeat is not missed for 40 s; no
process dies.  Where a theorem has one, a violated run or a line under "Differences"
says what happens without it.

`RepoPublishProofs`, for all files, plans, wordings and settings and any number of
steps of the owner:

- `TypesHold`: types need `LocalsInHand`, what the phase holds where it uses it.
- `BudgetHolds`: at most ten delegations.  Every delegation but the first is paid
  for by an attempt or by the escalation, which itself pays for three
  (`DelegationsPaid`); the attempts are bounded by `MAX_ATTEMPTS_BY_KIND`.
- `NoCommitIsForgotten`: `RecordedSoFar` adds the commits still in the publisher's
  local variable.
- `PlansAreRespected`: `IndexFollowsPlan` says the index is clean between two commits
  and differs from HEAD only in files of the plan before one.
- `WhatSuccessPushes`: a success with unpushed commits is the "empty" answer after
  partial commits, and only that (`DoneInv`); every other one has pushed the commits of
  all attempts.
- `UndisturbedIsScanned`: until the owner edits or stages something, what is committed
  has been scanned, through all retries (`ScannedSoFar`: index and worktree hold
  nothing that is neither committed nor scanned).  So the interference that
  `publish_scan` finds is the only way round the scan.
- `RepoKeepsContract` and `BatchKeepsContract`: both specifications refine
  `RepositoryRuns`, and so (`BothKeepContract`) `ContractKept` holds of both.  The first
  needs that a repository is RUNNING from its validation to its end and is pushed only
  with a commit (`LifeSoFar`); the second that what is pending or to be retried is
  undecided (`Undecided`).
- `EveryStepDescends`: each step of the run lowers a lexicographic measure of natural
  numbers - delegations that the budgets still allow, stage of the phase, plans still to
  be committed - and no step of the owner changes it.
- `VerdictHolds`, for every nesting of repositories in `RepoBatch`: HEAD never goes back
  (`SuccessHasCommits`), and a repository is decided or among those that the phase or
  the next delegation handles (`NoneIsLost`).

`RunProcessProofs`, for every set of descendants, whichever of them ignore SIGTERM
or give up their pipes, every limit and any amount of output:

- `CaptureIsBounded`: types, with what is known of where the call stands
  (`CallInv`).
- `OutcomeIsTrue`: `ReasonInv` adds that a time-out or an abort is only recorded when
  it terminates, and that nothing else than a reason or a failure terminates.
- `NothingIsLost`: `LoopInv` keeps account of every byte of a stream whose loop has
  not failed (unread, with the handler, captured, or dropped with a reason), and
  `ReturnInv` says that nobody can write after a call has returned.
- `FirstReasonStays`: reason, failure, exit and result are never replaced; after the
  exit only the limit on output may still become the reason.
- `GroupWindsDown`: from the SIGKILL of the group, or the close event, on nobody forks
  or writes, and each turn of a stream's loop leaves less to do (`PumpWork`).
  `KilledInv` says that the SIGKILL has reached all who are left.

`PipelineProofs`, for every set of jobs, whichever executables are missing, and any
number of delegations, signals and heirs:

- `PipelineInvariant`; from it `PipelineTypes`, `NothingOutlivesSupervisor` and
  `SuccessIsFinished`.  That a launch reports success is two exit codes that became
  one; `ExitsMean` says what an exit code of 0 says of the run in each stage, and
  that a producer that left a failed run with 0 has a bridge that ended with 1;
  `Following` that the bridge follows a delegation only when the producer has gone;
  `SeenAreGone` that what the supervisor has seen of its children is true.
- `AnsweredBeforeResumed` and `PipelineEndsAreFinal`, from `FinalInv`: all jobs have
  results, after two calls each at most, before the orchestrator is resumed; SIGKILL
  leaves no stage; ends and exit codes are final, although signals, the timer and exits
  come in any order.
- `BridgeAlwaysRunsDown`: a step of the bridge ends it, takes up one of the `MaxCycles`
  delegations, goes on to a later place (`PlacesLeft`) or brings one job nearer to its
  result (`CallsLeft`); the other processes leave it where it is.

`CutoverProofs`, for every set of runs and orders:

- `PreflightMissesNothing`, from `CutInvariant`: as long as nothing is reported, what
  has stood in the way since the first read is of a kind, or in a run, that the
  preflight has still to read (`StillToCome`), which must know that a Turnlock lock
  lies in a run's directory (`LocksHaveRuns`) and that the ledger that was read is a
  part of what is closed (`LedgerStays`).

`StageHarnessProofs`, for any number of runs, inputs, drafts and evidence:

- `StageInvariant`; from it `StageTypesHold`, `DirectoryHasOneOwner` and `OutputIsTrue`.
  A run that is in the directory or has left anything there is the one whose `mkdir`
  succeeded (`OwnsWhatItTouches`); what was validated is what the stage returned; what
  was assembled stays the candidate; unless a process was left behind, what was read
  of git is still so (`SeenIsTrue`).
- `OnlyLeftoversReplaceOutput`: an `output.json` that a run published is replaced by no
  run, failure or death; a process that the stage left running is not held off, and it
  alone can replace it.  `StageRunsDescend`: a step of a run brings it
  nearer to its end and moves no other run.

`LoopCleanProofs`, for every set of paths, findings and inits, and every ceiling:

- `LoopInvariant`; from it `LoopTypesHold`, `OneInitClaims`, `CleanHasBeenEarned`,
  `NoCheckEscapes`, `NoFindingForgotten` and `ReportsAreTrue`.  The crux is
  `ReadAsNamed`: versions only grow, so a reviewer that read something else than the
  manifest names has seen a version that the gate will find too high; the gate
  passes only if all were faithful, and compares again after the checks.  `InOrder`
  orders the decisions on file, `FoundIsKept` follows a finding from the collection to
  its fix or the registry, and `ChecksAreKept` a failed check to its fix: that needs no
  assumption about losing inits, since a check never enters the registry that they may
  replace.  `ReportHolds` relates what `finalize` has read of HEAD to what HEAD is.
- `SessionRunsDown`: a command leads to a later place of the iteration or to the next
  iteration below the ceiling, whatever the reviewers find and others edit.
  `SessionFileIsFinal`: the marker of a claimed session, report, error and terminal
  decisions stay; the registry loses entries only when an init publishes one.
- Proving `LoopInvariant` corrected the model: `Verdict` was a CASE whose guards overlap, and a CASE
  may take any arm that is true, while `loop-clean.sh` takes the first.  TLC takes the
  first as well and had not noticed.

`LinksProofs`, for every manifest, set of sources and of installers, and every set of
names and number of runs of the script:

- `FacadeInvariant`; from it `InstalledAsReported` and the action property
  `ReplacesWhatItSaw`.  While the owner leaves the destinations alone, a link that an
  installer saw is a link still and a right one still right (`SeenStays`), whatever
  the other installers do.  What the owner puts there between the look and the rename
  is overwritten, a real file too; the theorem does not say otherwise.
- `SetupInvariant`; from it `NoContentLost`.  A run removes what is at the path only
  when its own copy is whole (`CopyInHand`); `NothingLost` and `FirstRun` follow each
  content through failures and further runs.

Model-checked only:

- the liveness properties (`EveryRunEnds`, `EveryOrderServed`, `DeadLockExpires`,
  `EveryRepoEnds`, `TerminationSettles`, `PipelineEnds`, `SessionEnds`,
  `StageRunsEnd`), which need reasoning under fairness that the prover does not support.
  Their core is proved: `NoRunGoesBack` and `NobodyWaitsInACircle` for the runs of the
  queue, `EveryStepDescends`, `GroupWindsDown`, `BridgeAlwaysRunsDown`,
  `SessionRunsDown` and `StageRunsDescend`.  What the model checker adds is that a step
  is enabled until the end, and that fairness takes it;
- the violated runs, which are counterexamples.

## Differences between documents and code

The six violated runs are listed under "findings" with the sentence each refutes.
Others, met while modelling and not expressed as runs:

- `types.ts:105-109` scopes retry counters to a `diffHash`; they are never reset
  except by the escalation to the fallback model.
- `README.md:120` of the skill speaks of one final attempt for the fallback model;
  the reset budget gives it three delegations.
- `README.md:74` promises that plans cover all files; coverage is not checked.
- `README.md:91-93`: commits that landed before a `PushError` or a `GitExecError`
  are missing from the report, which carries only `PartialCommitError`s.
- `README.md:95` of the skill says "After all commits for a repo succeed, `git push`
  runs", and `:194` that `autoPush` is "Whether to `git push` after committing".  When
  some commits of a repository have landed and the LLM then answers a retry with an empty
  plan, the repository ends as SUCCESS without a push (`step2-commit-push.ts:73-88`), and
  its commits stay local: `UnpushedOnlyIfEmpty` says that this is the one such case.
- The order file is written twice (`lock-manager.ts:213`, `:219`); the second write
  can recreate a file that was dequeued in between.
- The result of `spawnSync` is ignored (`lock-manager.ts:339`), and `statSync` of a
  vanished lock throws (`:180`): either way the order is lost.
- A child that ends well without reading its input may be reported as an I/O error
  (`run-process.ts:207-213`): EPIPE is only expected once the close event has come.
- `docs/migrations/node-pnpm/git-commits-push-launch-resume-contract.md:45` wants
  descendants terminated "without leaving a live lock"; the supervisor sends SIGTERM
  (`node-supervisor.ts:138`), and the lock manager releases on SIGINT and on uncaught
  exceptions only (`lock-manager.ts:400`), so the lock stays for up to 40 s.
- Taking over the lock of a dead run deletes the queued orders of live users too
  (`lock-manager.ts:187`, as `specs/order.md:50-52` has it), and a resumed
  orchestrator refreshes the lock without looking whose it is (`cli-bootstrap.ts:141`).
- A resumed orchestrator runs the next queued order with inherited output
  (`lock-manager.ts:339`), so that order's delegation appears in the outer bridge's
  input, which handles it a second time (`turnlock-to-llm-bridge.ts:441`).
- The supervisor does not signal the group of a leader that has exited
  (`node-supervisor.ts:138`, `:142`): it waits for a descendant however long it lives.
- A block that begins again is not cleared in `main` of the bridge, though it is in
  `extractTurnlockBlocks`; in both the last complete block wins.
- A parent whose only change is inside its submodule is discovered, has nothing to
  stage and fails the run.  A detached submodule is skipped by discovery but staged
  by its parent's validation; that validation also restages submodules whose hash was
  taken before.  A submodule that is retried commits after its parent.
- The cutover check reads runs before orders: a run that holds the queue lock and has
  no directory yet when the runs are listed, and releases before the orders are, is
  missed.
- The facade promises never to overwrite a real file (`facade.ts:193`); one that
  appears between the look and the rename (`facade.ts:220-266`) is.  A temporary link
  stays after a death, and EEXIST in `create` aborts the whole installation.
- `create-symlink.mjs:76` takes a path whose last part ends in a dot and letters for a
  file, which a dot folder such as `~/.agents` is: where a directory of that name is
  to be moved an empty file is made as the target, restoring throws, and the contents
  stay in `/tmp`.  A move from `/tmp` to another device throws likewise, and the
  second run then says "Doing nothing".

## Abstractions

- Module 1: contents of orders and locks are their identifiers and stamps; `Submit`
  takes a fresh run; a process that dies does not come back.
- Module 2: one repository without submodules; the run does not crash (what it
  leaves behind would be seen by a later discovery, commits that were not pushed
  excepted); `git rev-parse HEAD` after a
  commit succeeds; `git add` in `queueRetry` fails only on a path that does not
  exist; tests, staging and scan of step 1 are one step; the wording of prompts,
  feedback and reports is left out.
- Module 4: malformed arguments (`validateInvocation`) and platforms without process
  groups are left out; a process ends at the moment node reports it; a descendant
  that has given up the pipes does not write; signalling a group is permitted.
- Module 3: the resumed orchestrator dies with the group of the bridge; the staleness
  of the lock is left to module 1; what the blocks say is one of three delegations.
- Module 5: a repository's own files are one version number; worktrees of git are
  repositories of their own; push is part of the outcome; the commits of one answer
  are one step.
- Module 6: the several ways in which a file can be malformed or unreadable are one.
- Module 7: commits that change paths or modes, untracked files and differences that
  are only staged are left out.
- Module 8: an edit never restores an earlier content; the runtime gate reads the
  scope in one step; the five categories that defer are one;
  a report is its set of findings or unusable; one agent drives the session; the
  removal of old sessions is left out.
- Module 9: sources exist or not, for good; the places of a link set-up are changed by
  nobody else meanwhile, names at the target are files, and two runs within one
  millisecond (whose copies would share a name) are left out.

## Not modelled

- Secret scanner, message validation, settings, credentials, the coding standards
  tools, YAML, the documentation skills and the build: sequential functions of text
  or of files, without state between calls.  Where the modelled parts use a verdict of
  theirs it is a nondeterministic choice.
- Telemetry beyond the fact that it may throw: the contents of events.  (A repository
  that succeeds, or that fails validation, has no `repo_outcome` event, and `run_end`
  counts the loops of the last process only.)
- The enforcers, path guard and command validator are access policies: verdicts on
  the text of commands, and the stores of what was granted.  They take no part in what
  the modelled programs do.
