---------------------------- MODULE RepoPublish ----------------------------
(***************************************************************************)
(* The life of one repository in a run of skills/git-commits-push: staged, *)
(* scanned, sent to the LLM, its plans committed one by one and pushed,    *)
(* with the retries, the fallback model and the loop detection of the      *)
(* commit-and-push phase.  The repository's owner goes on editing and      *)
(* staging files meanwhile.                                                *)
(*                                                                         *)
(* The content of a file is a version number, 0 the one of the HEAD the    *)
(* run started from; a diff is the set of the changes it shows, and stands *)
(* for its hash.  A plan is the set of paths of one commit; an answer of   *)
(* the LLM is a list of plans and the wording of its messages.             *)
(***************************************************************************)
EXTENDS Naturals, Sequences, FiniteSets

CONSTANTS
  Files,        \* the files of the repository
  Ghost,        \* a path the LLM may name that does not exist
  MaxMeddling,  \* bound on the owner's edits and stagings during the run
  PlanLists,    \* the lists of plans the LLM may propose
  Wordings,     \* the commit messages it may give them ...
  ValidWordings,\* ... and those that are Conventional Commits
  Configs       \* [autoPush, remote, fallback: BOOLEAN] settings to consider

Paths == Files \cup {Ghost}

Proposals == [plans : PlanLists, wording : Wordings]

\* The bridge turns an empty array into an error: no answer has no plan.
NoProposal == [plans |-> <<>>, wording |-> "none"]

Kinds == {"validation", "structural", "race", "git", "network"}

\* planHash: what is hashed of an answer is its plans, whatever their order.
PlanHash(p) ==
  [plans |-> {p.plans[i] : i \in DOMAIN p.plans}, wording |-> p.wording]

\* lastPlanHash of a repository that has not been retried.
NoHash == [plans |-> {}, wording |-> "unhashed"]

\* MAX_ATTEMPTS_BY_KIND
MaxAttempts == [k \in Kinds |-> IF k = "validation" THEN 2 ELSE 1]

ASSUME PublishConstants ==
  /\ Ghost \notin Files
  /\ MaxMeddling \in Nat
  /\ PlanLists \subseteq Seq(SUBSET Paths)
  /\ <<>> \notin PlanLists
  /\ ValidWordings \subseteq Wordings
  /\ Configs \subseteq [autoPush : BOOLEAN, remote : BOOLEAN, fallback : BOOLEAN]

VARIABLES
  \* the repository
  work, index, head,   \* content of each file in the worktree, index and HEAD
  ahead,               \* HEAD has commits the remote has not
  landed,              \* the commits made by this run, oldest first
  \* RepoState, as persisted between the processes of a run
  status, attempts, fallbackAttempted, diffHash, lastPlan, committedShas,
  \* the phase function and the publisher
  pc,                  \* where the run is with this repository
  config,              \* the settings
  proposal,            \* the answer of the LLM
  cursor,              \* index of the plan being committed
  fresh,               \* committedShas of this call of the publisher
  failure,             \* the error that was thrown: kind, retry, pendingFiles
  \* history
  delegations,         \* jobs sent to the LLM for this repository
  scanned,             \* contents that passed the secret scan
  pushes,              \* calls of git push
  unreached,           \* some push failed on a transient error
  meddling,            \* steps of the repository's owner so far
  disturbed            \* somebody staged a file in the middle of a commit

gitVars == <<work, index, head, ahead, landed>>
stateVars == <<status, attempts, fallbackAttempted, diffHash, lastPlan,
               committedShas>>
runVars == <<config, proposal, cursor, fresh, failure>>
history == <<delegations, scanned, pushes, unreached, meddling, disturbed>>
vars == <<gitVars, stateVars, pc, runVars, history>>

\* git diff --cached, with idx as the index.
DiffOf(idx) == {<<f, head[f], idx[f]>> : f \in {g \in Files : idx[g] # head[g]}}

NoFailure == [kind |-> "none", retry |-> FALSE, pending |-> {}]

Init ==
  /\ head = [f \in Files |-> 0]
  /\ work \in [Files -> {0, 1}]
  /\ index = head
  /\ work # head
  /\ ahead = FALSE
  /\ landed = <<>>
  /\ status = "PENDING"
  /\ attempts = [k \in Kinds |-> 0]
  /\ fallbackAttempted = FALSE
  /\ diffHash = {}
  /\ lastPlan = NoHash
  /\ committedShas = {}
  /\ pc = "validate"
  /\ config \in Configs
  /\ proposal = NoProposal
  /\ cursor = 0
  /\ fresh = {}
  /\ failure = NoFailure
  /\ delegations = 0
  /\ scanned = {}
  /\ pushes = 0
  /\ unreached = FALSE
  /\ meddling = 0
  /\ disturbed = FALSE

-----------------------------------------------------------------------------
(* The owner of the repository.                                             *)

Edit(f) ==
  /\ pc # "end"
  /\ meddling < MaxMeddling
  /\ work' = [work EXCEPT ![f] = @ + 1]
  /\ meddling' = meddling + 1
  /\ UNCHANGED <<index, head, ahead, landed, stateVars, pc, runVars, delegations,
                 scanned, pushes, unreached, disturbed>>

Stage(f) ==
  /\ pc # "end"
  /\ meddling < MaxMeddling
  /\ index[f] # work[f]
  /\ meddling' = meddling + 1
  /\ index' = [index EXCEPT ![f] = work[f]]
  /\ disturbed' = (disturbed \/ pc \in {"add", "commit"})
  /\ UNCHANGED <<work, head, ahead, landed, stateVars, pc, runVars, delegations,
                 scanned, pushes, unreached>>

-----------------------------------------------------------------------------
(* Step 1: tests, git add -A, diff, secret scan, first delegation.          *)

Validated ==
  /\ pc = "validate"
  /\ DiffOf(work) # {}
  /\ index' = work
  /\ diffHash' = DiffOf(work)
  /\ scanned' = {<<f, work[f]>> : f \in {g \in Files : work[g] # head[g]}}
  /\ status' = "RUNNING"
  /\ delegations' = 1
  /\ pc' = "infer"
  /\ UNCHANGED <<work, head, ahead, landed, attempts, fallbackAttempted,
                 lastPlan, committedShas, runVars, pushes, unreached, meddling,
                 disturbed>>

\* A test fails, or there is nothing to commit or a secret in what has just
\* been staged.
Rejected(idx) ==
  /\ pc = "validate"
  /\ index' = idx
  /\ status' = "FAILED"
  /\ pc' = "end"
  /\ UNCHANGED <<work, head, ahead, landed, attempts, fallbackAttempted,
                 diffHash, lastPlan, committedShas, runVars, history>>

-----------------------------------------------------------------------------
(* queueRetry.                                                              *)

\* The files of the commits in committedShas: those of their plans.
FilesOf(shas) == UNION {landed[i].files : i \in shas}

\* Reconstructing the diff resets the index, provided that some pending file
\* is as in the worktree; then what is left is staged: the pending files that
\* no recorded commit has, or everything.
Restaged(idx, todo) ==
  LET base == IF \E f \in todo : work[f] = idx[f] THEN head ELSE idx
  IN  IF todo = {} THEN work
      ELSE [f \in Files |-> IF f \in todo THEN work[f] ELSE base[f]]

\* Naming a path that does not exist stages nothing: the diff that is left is
\* then the one of the worktree.
IndexLeft(idx, todo) == IF Ghost \in todo THEN idx ELSE Restaged(idx, todo)

Remaining(idx, todo) ==
  IF Ghost \in todo
  THEN {<<f, idx[f], work[f]>> : f \in {g \in todo \cap Files : work[g] # idx[g]}}
  ELSE DiffOf(Restaged(idx, todo))

\* The list of plans that has just failed is proposed a second time.
Loops(failed) == lastPlan = PlanHash(failed)

\* idx: the index on entry; bumped, fallback, shas: the RepoState passed in.
\* The locals of the phase and of the publisher end with the delegation.
QueueRetry(idx, pending, failed, bumped, fallback, shas) ==
  LET todo == pending \ FilesOf(shas)
  IN  /\ index' = IndexLeft(idx, todo)
      /\ attempts' = bumped
      /\ fallbackAttempted' = fallback
      /\ committedShas' = shas
      /\ lastPlan' = PlanHash(failed)
      /\ \/ /\ Loops(failed)
            /\ status' = "FAILED"
            /\ pc' = "end"
            /\ UNCHANGED <<diffHash, delegations>>
         \/ /\ ~Loops(failed)
            /\ diffHash' = Remaining(idx, todo)
            /\ delegations' = delegations + 1
            /\ pc' = "infer"
            /\ UNCHANGED status
      /\ proposal' = NoProposal
      /\ cursor' = 0
      /\ fresh' = {}
      /\ failure' = NoFailure
      /\ UNCHANGED <<work, head, ahead, landed, config, scanned, pushes,
                     unreached, meddling, disturbed>>

Bumped(kind) == [attempts EXCEPT ![kind] = @ + 1]

\* Mutant of MayRetry: one retry too many.
MayRetryOnceMore(kind) == attempts[kind] <= MaxAttempts[kind]

MayRetry(kind) == attempts[kind] < MaxAttempts[kind]

FailRepo ==
  /\ status' = "FAILED"
  /\ pc' = "end"
  /\ UNCHANGED <<gitVars, attempts, fallbackAttempted, diffHash, lastPlan,
                 committedShas, runVars, history>>

-----------------------------------------------------------------------------
(* Step 2: the result of the LLM.                                           *)

\* The bridge reports an error that says "validation rejected".
LlmRejected ==
  /\ pc = "infer"
  /\ MayRetry("validation")
  /\ QueueRetry(index, {}, NoProposal, Bumped("validation"), fallbackAttempted,
                committedShas)

LlmRejectedTooOften ==
  /\ pc = "infer"
  /\ ~MayRetry("validation")
  /\ FailRepo

\* Any other error fails the repository, one that says "empty" excepted when
\* commits have landed: that is taken for the end of the work.
LlmFails ==
  /\ pc = "infer"
  /\ FailRepo

LlmEmpty ==
  /\ pc = "infer"
  /\ committedShas # {}
  /\ status' = "SUCCESS"
  /\ pc' = "end"
  /\ proposal' = NoProposal
  /\ UNCHANGED <<gitVars, attempts, fallbackAttempted, diffHash, lastPlan,
                 committedShas, config, cursor, fresh, failure, history>>

LlmProposes(p) ==
  /\ pc = "infer"
  /\ proposal' = p
  /\ pc' = "judge"
  /\ UNCHANGED <<gitVars, stateVars, config, cursor, fresh, failure, history>>

ValidMessages == proposal.wording \in ValidWordings

JudgeRetry ==
  /\ pc = "judge"
  /\ ~ValidMessages
  /\ MayRetry("validation")
  /\ QueueRetry(index, {}, proposal, Bumped("validation"), fallbackAttempted,
                committedShas)

\* shouldUseFallback
ShouldUseFallback ==
  config.fallback /\ attempts["validation"] >= 2 /\ ~fallbackAttempted

\* Mutant of JudgeFallback: the escalation is not remembered.
JudgeFallbackForgotten ==
  /\ pc = "judge"
  /\ ~ValidMessages
  /\ ~MayRetry("validation")
  /\ ShouldUseFallback
  /\ QueueRetry(index, {}, proposal, [attempts EXCEPT !["validation"] = 0],
                fallbackAttempted, committedShas)

\* One escalation, which restarts the validation budget.
JudgeFallback ==
  /\ pc = "judge"
  /\ ~ValidMessages
  /\ ~MayRetry("validation")
  /\ ShouldUseFallback
  /\ QueueRetry(index, {}, proposal, [attempts EXCEPT !["validation"] = 0], TRUE,
                committedShas)

\* Mutant of JudgeFail: the case of a fallback that failed as well is missing.
JudgeFailWithoutFallback ==
  /\ pc = "judge"
  /\ ~ValidMessages
  /\ ~MayRetry("validation")
  /\ ~config.fallback
  /\ FailRepo

JudgeFail ==
  /\ pc = "judge"
  /\ ~ValidMessages
  /\ ~MayRetry("validation")
  /\ ~ShouldUseFallback
  /\ FailRepo

Accept ==
  /\ pc = "judge"
  /\ ValidMessages
  /\ pc' = "guard"
  /\ fresh' = {}
  /\ UNCHANGED <<gitVars, stateVars, config, proposal, cursor, failure, history>>

-----------------------------------------------------------------------------
(* executeMultiCommitAndPush.                                               *)

\* Mutant of Throw: the commits of earlier attempts are not merged.
ThrowForgets(kind, retry, pending, shas) ==
  /\ failure' = [kind |-> kind, retry |-> retry, pending |-> pending]
  /\ committedShas' = shas
  /\ pc' = "error"

\* An error leaves the publisher; shas are the commits its context carries.
Throw(kind, retry, pending, shas) ==
  /\ failure' = [kind |-> kind, retry |-> retry, pending |-> pending]
  /\ committedShas' = committedShas \cup shas
  /\ pc' = "error"

Plans == proposal.plans

Duplicates == \E i, j \in DOMAIN Plans : i # j /\ Plans[i] \cap Plans[j] # {}

\* The guard is skipped for the hash of the empty diff.
Raced == diffHash # {} /\ DiffOf(index) # diffHash

DuplicateFile ==
  /\ pc = "guard"
  /\ Duplicates
  /\ Throw("structural", TRUE, {}, {})
  /\ UNCHANGED <<gitVars, status, attempts, fallbackAttempted, diffHash,
                 lastPlan, config, proposal, cursor, fresh, history>>

HashMismatch ==
  /\ pc = "guard"
  /\ ~Duplicates
  /\ Raced
  /\ Throw("race", TRUE, {}, {})
  /\ UNCHANGED <<gitVars, status, attempts, fallbackAttempted, diffHash,
                 lastPlan, config, proposal, cursor, fresh, history>>

GuardPasses ==
  /\ pc = "guard"
  /\ ~Duplicates
  /\ ~Raced
  /\ pc' = "reset"
  /\ UNCHANGED <<gitVars, stateVars, runVars, history>>

\* Mutant of ResetIndex: the plans are committed from the index as it is.
ResetIndexSkipped ==
  /\ pc = "reset"
  /\ cursor' = 1
  /\ pc' = "add"
  /\ UNCHANGED <<gitVars, stateVars, config, proposal, fresh, failure, history>>

ResetIndex ==
  /\ pc = "reset"
  /\ index' = head
  /\ cursor' = 1
  /\ pc' = "add"
  /\ UNCHANGED <<work, head, ahead, landed, stateVars, config, proposal, fresh,
                 failure, history>>

\* Any git command may fail for a reason of its own; outside the commit loop
\* the error is raw and is not retried.
GitFails ==
  /\ \/ pc = "reset"
     \/ pc = "push" /\ config.autoPush
  /\ Throw("git", FALSE, {}, {})
  /\ UNCHANGED <<gitVars, status, attempts, fallbackAttempted, diffHash,
                 lastPlan, config, proposal, cursor, fresh, history>>

\* The files of the plan that failed and of those after it.
Pending == UNION {Plans[i] : i \in cursor .. Len(Plans)}

\* A plan that cannot be committed: its context counts when commits landed.
PlanError ==
  /\ index' = head
  /\ Throw("structural", TRUE, IF fresh = {} THEN {} ELSE Pending, fresh)
  /\ UNCHANGED <<work, head, ahead, landed, status, attempts, fallbackAttempted,
                 diffHash, lastPlan, config, proposal, cursor, fresh, history>>

AddPlan ==
  /\ pc = "add"
  /\ Ghost \notin Plans[cursor]
  /\ index' = [f \in Files |-> IF f \in Plans[cursor] THEN work[f] ELSE index[f]]
  /\ pc' = "commit"
  /\ UNCHANGED <<work, head, ahead, landed, stateVars, runVars, history>>

NonexistentFile ==
  /\ pc = "add"
  /\ Ghost \in Plans[cursor]
  /\ PlanError

NothingToCommit ==
  /\ pc = "commit"
  /\ index = head
  /\ PlanError

\* git commit takes the whole index; then rev-parse and reset HEAD.
Commit ==
  /\ pc = "commit"
  /\ index # head
  /\ head' = index
  /\ ahead' = TRUE
  /\ landed' = Append(landed,
                 [files |-> Plans[cursor],
                  changed |-> {<<f, index[f]>> : f \in {g \in Files :
                                                        index[g] # head[g]}}])
  /\ fresh' = fresh \cup {Len(landed) + 1}
  /\ cursor' = cursor + 1
  /\ pc' = IF cursor < Len(Plans) THEN "add" ELSE "push"
  /\ UNCHANGED <<work, index, stateVars, config, proposal, failure, history>>

\* The commit fails for another reason; the index is reset.
PartialCommit ==
  /\ pc \in {"add", "commit"}
  /\ index' = head
  /\ Throw("git", TRUE, Pending, fresh)
  /\ UNCHANGED <<work, head, ahead, landed, status, attempts, fallbackAttempted,
                 diffHash, lastPlan, config, proposal, cursor, fresh, history>>

\* The commit fails, and so does the reset that follows: GitExecError.
CleanupFails ==
  /\ pc \in {"add", "commit"}
  /\ Throw("git", FALSE, {}, {})
  /\ UNCHANGED <<gitVars, status, attempts, fallbackAttempted, diffHash,
                 lastPlan, config, proposal, cursor, fresh, history>>

Succeed ==
  /\ committedShas' = committedShas \cup fresh
  /\ status' = "SUCCESS"
  /\ pc' = "end"
  /\ UNCHANGED <<work, index, head, landed, attempts, fallbackAttempted,
                 diffHash, lastPlan, runVars, delegations, scanned, unreached,
                 meddling, disturbed>>

\* executePush returns at once without autoPush or without a remote.
NoPush ==
  /\ pc = "push"
  /\ ~config.autoPush \/ ~config.remote
  /\ UNCHANGED <<ahead, pushes>>
  /\ Succeed

Push ==
  /\ pc = "push"
  /\ config.autoPush /\ config.remote
  /\ ahead' = FALSE
  /\ pushes' = pushes + 1
  /\ Succeed

\* Mutant of PushFails: a transient failure is logged and left at that.
PushFailsSilently(transient) ==
  /\ pc = "push"
  /\ config.autoPush /\ config.remote
  /\ pushes' = pushes + 1
  /\ ahead' = ahead
  /\ Succeed

\* git push, or git push -u, fails: the commits of this call are not recorded.
PushFails(transient) ==
  /\ pc = "push"
  /\ config.autoPush /\ config.remote
  /\ pushes' = pushes + 1
  /\ unreached' = (unreached \/ transient)
  /\ Throw("network", transient, {}, {})
  /\ UNCHANGED <<gitVars, status, attempts, fallbackAttempted, diffHash,
                 lastPlan, config, proposal, cursor, fresh, delegations,
                 scanned, meddling, disturbed>>

-----------------------------------------------------------------------------
(* Step 2: classification of the error.                                     *)

\* The index is reset first; if that fails it is queued as it is.
Retry ==
  /\ pc = "error"
  /\ failure.retry
  /\ MayRetry(failure.kind)
  /\ \E idx \in {head, index} :
       QueueRetry(idx, failure.pending, proposal, Bumped(failure.kind),
                  fallbackAttempted, committedShas)

GiveUp ==
  /\ pc = "error"
  /\ ~failure.retry \/ ~MayRetry(failure.kind)
  /\ FailRepo

-----------------------------------------------------------------------------
Validation == Validated \/ Rejected(index) \/ Rejected(work)

Answer ==
  \/ LlmRejected \/ LlmRejectedTooOften \/ LlmFails \/ LlmEmpty
  \/ \E p \in Proposals : LlmProposes(p)

Judge == JudgeRetry \/ JudgeFallback \/ JudgeFail \/ Accept

Publish ==
  \/ DuplicateFile \/ HashMismatch \/ GuardPasses \/ ResetIndex \/ GitFails
  \/ AddPlan \/ NonexistentFile \/ NothingToCommit \/ Commit \/ PartialCommit
  \/ CleanupFails \/ NoPush \/ Push
  \/ \E transient \in BOOLEAN : PushFails(transient)

Settle == Retry \/ GiveUp

Owner == \E f \in Files : Edit(f) \/ Stage(f)

Run == Validation \/ Answer \/ Judge \/ Publish \/ Settle

Next == Run \/ Owner

Spec == Init /\ [][Next]_vars

\* The run's processes are scheduled and the LLM answers, if with an error.
FairSpec == Spec /\ WF_vars(Run)

-----------------------------------------------------------------------------
(* Properties.                                                              *)

\* Every variable keeps its type.
TypeOK ==
  /\ work \in [Files -> Nat]
  /\ index \in [Files -> Nat]
  /\ head \in [Files -> Nat]
  /\ ahead \in BOOLEAN
  /\ landed \in Seq([files : SUBSET Paths, changed : SUBSET (Files \X Nat)])
  /\ status \in {"PENDING", "RUNNING", "SUCCESS", "FAILED"}
  /\ attempts \in [Kinds -> 0 .. 2]
  /\ \A k \in Kinds : attempts[k] <= MaxAttempts[k]
  /\ fallbackAttempted \in BOOLEAN
  /\ diffHash \subseteq Files \X Nat \X Nat
  /\ lastPlan \in {NoHash} \cup {PlanHash(p) : p \in Proposals \cup {NoProposal}}
  /\ committedShas \subseteq DOMAIN landed
  /\ pc \in {"validate", "infer", "judge", "guard", "reset", "add", "commit",
             "push", "error", "end"}
  /\ config \in Configs
  /\ proposal \in Proposals \cup {NoProposal}
  /\ cursor \in Nat
  /\ fresh \subseteq DOMAIN landed
  /\ failure.kind \in Kinds \cup {"none"}
  /\ failure.retry \in BOOLEAN
  /\ failure.pending \subseteq Paths
  /\ delegations \in Nat
  /\ scanned \subseteq Files \X Nat
  /\ pushes \in Nat
  /\ unreached \in BOOLEAN
  /\ meddling \in 0 .. MaxMeddling
  /\ disturbed \in BOOLEAN

\* Every delegation but the first is paid for by an attempt of some kind; the
\* escalation to the fallback model is paid for by itself and gives back two.
DelegationsPaid ==
  delegations <= 1 + attempts["validation"] + attempts["structural"]
                   + attempts["race"] + attempts["git"] + attempts["network"]
                   + (IF fallbackAttempted THEN 3 ELSE 0)

\* A repository is sent to the LLM at most ten times, whatever fails and in
\* whatever order: the budgets are per kind and one of them is restarted.
MaxDelegations == 10
DelegationBudget == delegations <= MaxDelegations

\* With autoPush and a remote a success leaves commits unpushed in one case, and
\* always in that: an "empty" answer of the LLM after commits had landed is taken
\* for the end of the work (step2-commit-push.ts:73-88).  Every other success has
\* pushed all commits, those of earlier attempts and failed pushes included.
UnpushedOnlyIfEmpty ==
  status = "SUCCESS" /\ config.autoPush /\ config.remote =>
    (ahead <=> proposal = NoProposal)

\* What landed is on record: outside the publisher, and unless a push or a
\* cleanup failed, committedShas holds every commit of the run, those of
\* earlier attempts included.
LandedAreRecorded ==
  /\ pc \in {"infer", "judge", "guard", "end"}
  /\ pushes = 0
  /\ ~(failure.kind = "git" /\ ~failure.retry)
  => committedShas = DOMAIN landed

\* "The skill respects the plan exactly" (README.md:84): a commit changes no
\* file its plan does not name, unless somebody stages it at that moment.
CommitsOnlyPlannedFiles ==
  ~disturbed =>
    \A i \in DOMAIN landed :
      \A c \in landed[i].changed : c[1] \in landed[i].files

\* Retries end: every repository gets a final status.
EveryRepoEnds == <>(pc = "end" /\ status \in {"SUCCESS", "FAILED"})

\* "If it changed ..., the repo is re-validated from scratch" (README.md:88):
\* no content is committed that has not been through the secret scan.
OnlyScannedIsCommitted ==
  \A i \in DOMAIN landed : landed[i].changed \subseteq scanned

\* "If the push fails with a network error, it's retried automatically"
\* (README.md:95): until the push that found no remote has been called again,
\* no plan is found faulty and no race is seen; only git itself may fail.
PushIsRetried ==
  pc = "error" /\ unreached /\ pushes = 1 => failure.kind \in {"network", "git"}

-----------------------------------------------------------------------------
(* Inductive strengthenings, used by the proofs.                            *)

Publishing == {"guard", "reset", "add", "commit", "push"}

\* The run is between two errors: none is being handled.
Untroubled == {"validate", "infer", "judge"} \cup Publishing

\* What the phase holds in hand where it uses it: an answer, the index of one
\* of its plans, an error of a known kind.
LocalsInHand ==
  /\ pc \in {"judge", "error"} \cup Publishing => proposal \in Proposals
  /\ pc \in {"add", "commit"} => cursor \in 1 .. Len(Plans)
  /\ pc = "error" => failure.kind \in Kinds
  /\ pc \in Untroubled => failure = NoFailure
  /\ pc \in {"guard", "reset"} => fresh = {}

TypeInv == TypeOK /\ LocalsInHand

\* Why ten delegations are enough.
BudgetInv == TypeInv /\ DelegationsPaid

\* The commits of this call of the publisher are in fresh until it ends.
RecordedSoFar ==
  pushes = 0 /\ ~(failure.kind = "git" /\ ~failure.retry) =>
    DOMAIN landed = IF pc \in {"add", "commit", "push"}
                    THEN committedShas \cup fresh ELSE committedShas

RecordInv == TypeInv /\ RecordedSoFar

\* Between two commits the index is clean, and before a commit it differs
\* from HEAD in files of the plan only.
IndexFollowsPlan ==
  ~disturbed =>
    /\ pc = "add" => index = head
    /\ pc = "commit" =>
         \A f \in Files : index[f] # head[f] => f \in Plans[cursor]

PlanInv == TypeInv /\ IndexFollowsPlan /\ CommitsOnlyPlannedFiles
=============================================================================
