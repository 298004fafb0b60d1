----------------------------- MODULE RepoBatch -----------------------------
(***************************************************************************)
(* One run of git-commits-push over all repositories, submodules included: *)
(* discovery, validation of one repository after the other, one delegation *)
(* for those that are valid, and the commit phase, which goes through the  *)
(* answers and delegates again what it may retry.  What becomes of one     *)
(* repository between its answer and its commits is in RepoPublish; here   *)
(* it commits or not, and then succeeds, is retried or fails.              *)
(*                                                                         *)
(* A repository is its path.  Its own files are one version number, HEAD   *)
(* is the number of its commits, and a gitlink the HEAD it names.          *)
(***************************************************************************)
EXTENDS Naturals, Sequences
LOCAL INSTANCE SequencesExt

CONSTANTS
  Repositories,   \* paths of the repositories under searchPaths
  MaxRounds,      \* bound on the delegations of the run
  MaxEdits        \* bound on the edits of the owner during the run

ASSUME BatchConstants ==
  /\ Repositories \subseteq Seq(STRING) \ {<<>>}
  /\ MaxRounds \in Nat \ {0} /\ MaxEdits \in Nat

VARIABLES
  worktree,       \* the files of each repository,
  staged, tree,   \* its index and the tree of HEAD: files and gitlinks,
  commits,        \* HEAD,
  onBranch,       \* and whether HEAD is a branch that can be read
  phase,          \* where the run is
  pending,        \* repositories the phase has still to handle
  found, foundAt, \* what discovery returned, and HEAD of each then
  repoStatus, repoHash,  \* state.repos: status and diffHash
  retryJobs,
  round,          \* delegations so far
  verdict,        \* how the run ended
  edits

gitState == <<worktree, staged, tree, commits, onBranch, edits>>
repoState == <<repoStatus, repoHash, retryJobs, round, verdict>>
batchVars == <<gitState, phase, pending, found, foundAt, repoState>>

\* The repositories inside r, and those that are submodules of r itself.
Inside(r) == {s \in Repositories : IsStrictPrefix(r, s)}
Submodules(r) == {s \in Inside(r) : \A t \in Inside(r) : ~IsStrictPrefix(t, s)}

\* The deepest paths come first.
Deepest == {r \in pending : \A s \in pending : Len(s) <= Len(r)}

Clean(r) == [files |-> 0, links |-> [s \in Submodules(r) |-> 0]]

BatchInit ==
  /\ worktree \in [Repositories -> {0, 1}]
  /\ tree = [r \in Repositories |-> Clean(r)]
  /\ staged = tree
  /\ commits = [r \in Repositories |-> 0]
  /\ onBranch \in [Repositories -> BOOLEAN]
  /\ edits = 0
  /\ phase = "discovery" /\ pending = Repositories
  /\ found = {} /\ foundAt = commits
  /\ repoStatus = [r \in Repositories |-> "none"]
  /\ repoHash = [r \in Repositories |-> <<>>]
  /\ retryJobs = {} /\ round = 0 /\ verdict = "none"

OwnerEdits(r) ==
  /\ edits < MaxEdits /\ verdict = "none"
  /\ edits' = edits + 1
  /\ worktree' = [worktree EXCEPT ![r] = @ + 1]
  /\ UNCHANGED <<staged, tree, commits, onBranch, phase, pending, found, foundAt,
                 repoState>>

-----------------------------------------------------------------------------
(* git.                                                                     *)

\* The index after git add -A: a gitlink moves only if the submodule's HEAD did.
AllOf(r) ==
  [files |-> worktree[r], links |-> [s \in Submodules(r) |-> commits[s]]]

\* git status is not empty: so it is if anything inside has changed.
Changes(r) == AllOf(r) # staged[r] \/ staged[r] # tree[r]
HasLocalChanges(r) == \E s \in {r} \cup Inside(r) : Changes(s)

\* extractDiff; its hash stands for it.
StagedDiff(r) == <<tree[r], staged[r]>>

-----------------------------------------------------------------------------
(* runDiscovery.                                                            *)

Discover(r) ==
  /\ phase = "discovery" /\ r \in pending
  /\ pending' = pending \ {r}
  /\ found' = IF onBranch[r] /\ HasLocalChanges(r) THEN found \cup {r} ELSE found
  /\ foundAt' = [foundAt EXCEPT ![r] = commits[r]]
  /\ UNCHANGED <<gitState, phase, repoState>>

\* Without changes anywhere the run is done.
EndDiscovery ==
  /\ phase = "discovery" /\ pending = {}
  /\ IF found = {}
     THEN phase' = "end" /\ verdict' = "done" /\ UNCHANGED pending
     ELSE phase' = "validation" /\ pending' = found /\ UNCHANGED verdict
  /\ UNCHANGED <<gitState, found, foundAt, repoStatus, repoHash, retryJobs, round>>

-----------------------------------------------------------------------------
(* processRepoValidationAndDiff.                                            *)

\* git add -A in all submodules, then in the repository.
StageInside(r) ==
  [s \in Repositories |-> IF s \in {r} \cup Inside(r) THEN AllOf(s) ELSE staged[s]]

Validating(r) ==
  /\ phase = "validation" /\ r \in Deepest
  /\ pending' = pending \ {r}
  /\ UNCHANGED <<worktree, tree, commits, onBranch, edits, phase, found, foundAt,
                 retryJobs, round, verdict>>

\* Mutant of Validate: a repository with nothing staged is passed over.
ValidateSomething(r) ==
  /\ Validating(r)
  /\ staged' = StageInside(r)
  /\ IF staged'[r] = tree[r] THEN UNCHANGED <<repoStatus, repoHash>>
     ELSE /\ repoStatus' = [repoStatus EXCEPT ![r] = "PENDING"]
          /\ repoHash' = [repoHash EXCEPT ![r] = StagedDiff(r)']

\* "No changes found after staging" fails the repository.
Validate(r) ==
  /\ Validating(r)
  /\ staged' = StageInside(r)
  /\ repoStatus' = [repoStatus EXCEPT ![r] =
                      IF staged'[r] = tree[r] THEN "FAILED" ELSE "PENDING"]
  /\ repoHash' = [repoHash EXCEPT ![r] = StagedDiff(r)']

\* So do its tests, git, or a secret in the diff; what is staged stays so.
ValidationFails(r) ==
  /\ Validating(r)
  /\ staged' \in {staged, StageInside(r)}
  /\ repoStatus' = [repoStatus EXCEPT ![r] = "FAILED"]
  /\ UNCHANGED repoHash

\* All valid repositories are delegated in one batch, in the order of
\* validation; the results come in that order.
DelegateBatch ==
  /\ phase = "validation" /\ pending = {}
  /\ \E r \in found : repoStatus[r] = "PENDING"
  /\ pending' = {r \in found : repoStatus[r] = "PENDING"}
  /\ repoStatus' = [r \in Repositories |->
                      IF r \in pending' THEN "RUNNING" ELSE repoStatus[r]]
  /\ phase' = "publish"
  /\ round' = round + 1
  /\ UNCHANGED <<gitState, found, foundAt, repoHash, retryJobs, verdict>>

-----------------------------------------------------------------------------
(* runCommitAndPushPhase.                                                   *)

\* What the diff shown to the LLM contains, and what a plan may name; r stands
\* for its own files.
Shown(r) ==
  LET before == repoHash[r][1]
      after == repoHash[r][2]
  IN  (IF after.files # before.files THEN {r} ELSE {})
        \cup {s \in Submodules(r) : after.links[s] # before.links[s]}

\* HEAD with these paths as they are now: of a submodule git add takes HEAD.
Taking(r, paths) ==
  [files |-> IF r \in paths THEN worktree[r] ELSE tree[r].files,
   links |-> [s \in Submodules(r) |-> IF s \in paths THEN commits[s]
                                      ELSE tree[r].links[s]]]

Handling(r) ==
  /\ phase = "publish" /\ r \in Deepest
  /\ pending' = pending \ {r}
  /\ UNCHANGED <<worktree, onBranch, edits, phase, found, foundAt, round, verdict>>

\* The hash guard passes, the index is reset, and the commits of a plan land.
Lands(r) ==
  /\ repoHash[r] = StagedDiff(r)
  /\ \E plan \in SUBSET Shown(r) \ {{}} :
       tree' = [tree EXCEPT ![r] = Taking(r, plan)]
  /\ commits' = [commits EXCEPT ![r] = @ + 1]

\* The plans are committed and pushed; or the answer is empty after commits of
\* an earlier attempt, which is taken for the end of the work.
PublishSucceeds(r) ==
  /\ Handling(r)
  /\ \/ Lands(r) /\ staged' = [staged EXCEPT ![r] = tree'[r]]
     \/ commits[r] > foundAt[r] /\ UNCHANGED <<staged, tree, commits>>
  /\ repoStatus' = [repoStatus EXCEPT ![r] = "SUCCESS"]
  /\ UNCHANGED <<repoHash, retryJobs>>

\* The LLM, the guard, a plan or git fails before a commit lands, or the push
\* after it: for good ...
PublishGivesUp(r) ==
  /\ Handling(r)
  /\ \/ Lands(r) /\ staged' = [staged EXCEPT ![r] = tree'[r]]
     \/ /\ UNCHANGED <<tree, commits>>
        /\ staged' \in {staged, [staged EXCEPT ![r] = tree[r]]}
  /\ repoStatus' = [repoStatus EXCEPT ![r] = "FAILED"]
  /\ UNCHANGED <<repoHash, retryJobs>>

\* ... or for a retry, with the pending paths, or all changes, staged anew.
PublishIsRetried(r) ==
  /\ Handling(r)
  /\ round < MaxRounds
  /\ Lands(r) \/ UNCHANGED <<tree, commits>>
  /\ \E todo \in SUBSET Shown(r) :
       staged' = [staged EXCEPT ![r] = IF todo = {} THEN AllOf(r)
                                       ELSE Taking(r, todo)']
  /\ repoHash' = [repoHash EXCEPT ![r] = StagedDiff(r)']
  /\ retryJobs' = retryJobs \cup {r}
  /\ UNCHANGED repoStatus

\* Mutant of DelegateRetries: the batch is that of the whole run again.
DelegateRetriesOfAll ==
  /\ phase = "publish" /\ pending = {} /\ retryJobs # {}
  /\ pending' = {r \in found : repoStatus[r] \in {"RUNNING", "SUCCESS"}}
  /\ retryJobs' = {}
  /\ round' = round + 1
  /\ UNCHANGED <<gitState, phase, found, foundAt, repoStatus, repoHash, verdict>>

\* The repositories to be retried are the next batch.
DelegateRetries ==
  /\ phase = "publish" /\ pending = {} /\ retryJobs # {}
  /\ pending' = retryJobs
  /\ retryJobs' = {}
  /\ round' = round + 1
  /\ UNCHANGED <<gitState, phase, found, foundAt, repoStatus, repoHash, verdict>>

\* printReport, the release of the lock, and io.done or io.fail.
End ==
  /\ verdict' = IF \E r \in found : repoStatus[r] = "FAILED" THEN "failed" ELSE "done"
  /\ phase' = "end"
  /\ UNCHANGED <<gitState, pending, found, foundAt, repoStatus, repoHash, retryJobs,
                 round>>

NothingValid ==
  /\ phase = "validation" /\ pending = {}
  /\ ~\E r \in found : repoStatus[r] = "PENDING"
  /\ End

ReportAll == phase = "publish" /\ pending = {} /\ retryJobs = {} /\ End

-----------------------------------------------------------------------------
BatchNext ==
  \/ EndDiscovery \/ DelegateBatch \/ DelegateRetries \/ NothingValid
  \/ ReportAll
  \/ \E r \in Repositories :
       \/ OwnerEdits(r) \/ Discover(r) \/ Validate(r) \/ ValidationFails(r)
       \/ PublishSucceeds(r) \/ PublishGivesUp(r) \/ PublishIsRetried(r)

BatchSpec == BatchInit /\ [][BatchNext]_batchVars

-----------------------------------------------------------------------------
(* Properties.                                                              *)

\* The outcome of the run is that of its repositories, through validation and
\* any number of delegations: it is done only if each repository that had
\* changes has a commit since, and it fails only for one that failed, with the
\* fate of every other decided as well.
VerdictIsTrue ==
  /\ verdict = "done" =>
       \A r \in found : repoStatus[r] = "SUCCESS" /\ commits[r] > foundAt[r]
  /\ verdict = "failed" =>
       /\ \E r \in found : repoStatus[r] = "FAILED"
       /\ \A r \in found : repoStatus[r] \in {"SUCCESS", "FAILED"}

\* "Order submodules before their parents so that submodule commits land
\* first. The parent diff will then include the updated SHA"
\* (discovery.ts:83-84): where both were published, HEAD of the parent names
\* HEAD of the submodule.
ParentRecordsSubmodule ==
  verdict # "none" /\ edits = 0 =>
    \A r \in found : \A s \in Submodules(r) \cap found :
      repoStatus[r] = "SUCCESS" /\ repoStatus[s] = "SUCCESS" =>
        tree[r].links[s] = commits[s]
=============================================================================
