------------------------- MODULE RepoPublishProofs -------------------------
(***************************************************************************)
(* Proofs about RepoPublish, for every set of files, every list of plans   *)
(* and every wording the LLM may propose, every setting, and any number of *)
(* edits and stagings by the owner of the repository; and about RepoBatch, *)
(* for every nesting of repositories and any number of delegations.        *)
(***************************************************************************)
EXTENDS RepoContract, TLAPS

Contents == [Files -> Nat]

Answers == Proposals \cup {NoProposal}

\* What a diff of the index shows is made of contents.
LEMMA DiffType ==
  ASSUME TypeOK, NEW idx \in Contents
  PROVE  DiffOf(idx) \subseteq Files \X Nat \X Nat
BY DEF TypeOK, DiffOf, Contents

\* Staging what is left yields an index, whatever is left.
LEMMA IndexLeftType ==
  ASSUME TypeOK, NEW idx \in Contents, NEW todo
  PROVE  IndexLeft(idx, todo) \in Contents
<1>1. Restaged(idx, todo) \in Contents
  BY DEF TypeOK, Restaged, Contents
<1> QED
  BY <1>1 DEF IndexLeft

\* What is left to do is a diff.
LEMMA RemainingType ==
  ASSUME TypeOK, NEW idx \in Contents, NEW todo
  PROVE  Remaining(idx, todo) \subseteq Files \X Nat \X Nat
<1>1. Restaged(idx, todo) \in Contents
  BY DEF TypeOK, Restaged, Contents
<1>2. CASE Ghost \in todo
  BY <1>2 DEF TypeOK, Remaining, Contents
<1>3. CASE Ghost \notin todo
  BY <1>1, <1>3, DiffType DEF Remaining
<1> QED
  BY <1>2, <1>3

\* The initial states have the right types.
LEMMA InitType == Init => TypeInv
<1> SUFFICES ASSUME Init PROVE TypeInv
  OBVIOUS
<1>1. head \in [Files -> Nat] /\ work \in [Files -> Nat] /\ index \in [Files -> Nat]
  BY DEF Init
<1>2. attempts \in [Kinds -> 0 .. 2] /\ \A k \in Kinds : attempts[k] <= MaxAttempts[k]
  BY DEF Init, MaxAttempts
<1>3. landed = <<>> /\ committedShas = {} /\ fresh = {}
  BY DEF Init
<1>4. {ahead, fallbackAttempted, unreached, disturbed, failure.retry} \subseteq BOOLEAN
  BY DEF Init, NoFailure
<1>5. /\ failure.kind \in Kinds \cup {"none"} /\ failure.pending \subseteq Paths
      /\ scanned \subseteq Files \X Nat /\ diffHash \subseteq Files \X Nat \X Nat
      /\ landed \in Seq([files : SUBSET Paths, changed : SUBSET (Files \X Nat)])
  BY DEF Init, NoFailure
<1>6. lastPlan \in {NoHash} \cup {PlanHash(p) : p \in Answers} /\ proposal \in Answers
  BY DEF Init, Answers
<1>7. TypeOK
  BY <1>1, <1>2, <1>3, <1>4, <1>5, <1>6, PublishConstants DEF Init, TypeOK, Answers
<1>8. LocalsInHand
  BY DEF Init, LocalsInHand, Untroubled, Publishing
<1> QED
  BY <1>7, <1>8 DEF TypeInv

\* queueRetry keeps the types, whoever calls it and with whatever budget left.
LEMMA QueueRetryType ==
  ASSUME TypeInv, NEW idx \in Contents, NEW paths, NEW failed \in Answers,
         NEW bumped \in [Kinds -> 0 .. 2],
         \A k \in Kinds : bumped[k] <= MaxAttempts[k],
         NEW fallback \in BOOLEAN, NEW shas \in SUBSET DOMAIN landed,
         QueueRetry(idx, paths, failed, bumped, fallback, shas)
  PROVE  TypeInv'
<1> DEFINE todo == paths \ FilesOf(shas)
<1>1. index' \in Contents
  BY IndexLeftType DEF TypeInv, QueueRetry
<1>2. diffHash' \subseteq Files \X Nat \X Nat
  <2>1. diffHash \subseteq Files \X Nat \X Nat
    BY DEF TypeInv, TypeOK
  <2>2. Remaining(idx, todo) \subseteq Files \X Nat \X Nat
    BY RemainingType DEF TypeInv
  <2> QED
    BY <2>1, <2>2 DEF QueueRetry
<1>3. lastPlan' \in {NoHash} \cup {PlanHash(p) : p \in Answers}
  BY DEF QueueRetry
<1>4. pc' \in {"infer", "end"} /\ status' \in {"RUNNING", "FAILED", status}
  BY DEF QueueRetry
<1>5. delegations' \in Nat
  BY DEF TypeInv, TypeOK, QueueRetry
<1>6. TypeOK'
  BY <1>1, <1>2, <1>3, <1>4, <1>5
     DEF TypeInv, TypeOK, QueueRetry, Contents, Answers, NoFailure
<1>7. LocalsInHand'
  BY <1>4 DEF QueueRetry, LocalsInHand, Untroubled, Publishing
<1> QED
  BY <1>6, <1>7 DEF TypeInv

\* A retry within the budget of its kind stays within the budget.
LEMMA BumpedType ==
  ASSUME TypeOK, NEW kind \in Kinds, MayRetry(kind)
  PROVE  /\ Bumped(kind) \in [Kinds -> 0 .. 2]
         /\ \A k \in Kinds : Bumped(kind)[k] <= MaxAttempts[k]
<1>1. /\ attempts \in [Kinds -> 0 .. 2]
      /\ \A k \in Kinds : attempts[k] <= MaxAttempts[k]
  BY DEF TypeOK
<1>2. \A k \in Kinds : MaxAttempts[k] \in 1 .. 2
  BY DEF MaxAttempts
<1> QED
  BY <1>1, <1>2 DEF MayRetry, Bumped

\* Step 1 keeps the types.
LEMMA ValidationType == TypeInv /\ Validation => TypeInv'
<1> SUFFICES ASSUME TypeInv, Validation PROVE TypeInv'
  OBVIOUS
<1> USE DEF TypeInv, TypeOK, LocalsInHand, Untroubled, Publishing, Plans,
            runVars, history
<1>1. CASE Validated
  <2>1. diffHash' \subseteq Files \X Nat \X Nat
    BY <1>1, DiffType DEF Validated, Contents
  <2>2. scanned' \subseteq Files \X Nat
    BY <1>1 DEF Validated
  <2> QED
    BY <1>1, <2>1, <2>2 DEF Validated
<1>2. ASSUME NEW idx \in {index, work}, Rejected(idx) PROVE TypeInv'
  BY <1>2 DEF Rejected
<1> QED
  BY <1>1, <1>2 DEF Validation

\* Taking the result of the LLM keeps the types.
LEMMA AnswerType == TypeInv /\ Answer => TypeInv'
<1> SUFFICES ASSUME TypeInv, Answer PROVE TypeInv'
  OBVIOUS
<1>a. /\ index \in Contents /\ committedShas \in SUBSET DOMAIN landed
      /\ fallbackAttempted \in BOOLEAN /\ proposal \in Answers
      /\ NoProposal \in Answers /\ "validation" \in Kinds /\ TypeOK
  BY DEF TypeInv, TypeOK, Contents, Answers, Kinds
<1>1. CASE LlmRejected
  BY <1>1, <1>a, BumpedType, QueueRetryType DEF LlmRejected
<1> USE DEF TypeInv, TypeOK, LocalsInHand, Untroubled, Publishing, Plans,
            gitVars, stateVars, runVars, history
<1>2. CASE LlmRejectedTooOften
  BY <1>2 DEF LlmRejectedTooOften, FailRepo
<1>3. CASE LlmFails
  BY <1>3 DEF LlmFails, FailRepo
<1>4. CASE LlmEmpty
  BY <1>4 DEF LlmEmpty
<1>5. ASSUME NEW p \in Proposals, LlmProposes(p) PROVE TypeInv'
  BY <1>5 DEF LlmProposes
<1> QED
  BY <1>1, <1>2, <1>3, <1>4, <1>5 DEF Answer

\* Judging the messages keeps the types.
LEMMA JudgeType == TypeInv /\ Judge => TypeInv'
<1> SUFFICES ASSUME TypeInv, Judge PROVE TypeInv'
  OBVIOUS
<1>a. /\ index \in Contents /\ committedShas \in SUBSET DOMAIN landed
      /\ fallbackAttempted \in BOOLEAN /\ proposal \in Answers
      /\ NoProposal \in Answers /\ "validation" \in Kinds /\ TypeOK
  BY DEF TypeInv, TypeOK, Contents, Answers, Kinds
<1>1. CASE JudgeRetry
  BY <1>1, <1>a, BumpedType, QueueRetryType DEF JudgeRetry
<1>2. CASE JudgeFallback
  <2>1. /\ [attempts EXCEPT !["validation"] = 0] \in [Kinds -> 0 .. 2]
        /\ \A k \in Kinds :
              [attempts EXCEPT !["validation"] = 0][k] <= MaxAttempts[k]
    <3>1. /\ attempts \in [Kinds -> 0 .. 2]
          /\ \A k \in Kinds : attempts[k] <= MaxAttempts[k]
      BY DEF TypeInv, TypeOK
    <3>2. \A k \in Kinds : MaxAttempts[k] \in 1 .. 2
      BY DEF MaxAttempts
    <3> QED
      BY <3>1, <3>2 DEF Kinds
  <2> QED
    BY <1>2, <2>1, <1>a, QueueRetryType DEF JudgeFallback
<1> USE DEF TypeInv, TypeOK, LocalsInHand, Untroubled, Publishing, Plans,
            gitVars, stateVars, runVars, history
<1>3. CASE JudgeFail
  BY <1>3 DEF JudgeFail, FailRepo
<1>4. CASE Accept
  BY <1>4 DEF Accept
<1> QED
  BY <1>1, <1>2, <1>3, <1>4 DEF Judge

\* The files still to be committed are paths.
LEMMA PendingType ==
  ASSUME TypeInv, pc \in {"add", "commit"}
  PROVE  Pending \subseteq Paths
<1>1. Plans \in Seq(SUBSET Paths) /\ cursor \in 1 .. Len(Plans)
  BY PublishConstants DEF TypeInv, LocalsInHand, Publishing, Plans, Proposals
<1>2. \A i \in cursor .. Len(Plans) : Plans[i] \subseteq Paths
  BY <1>1
<1> QED
  BY <1>2 DEF Pending

\* Throwing an error keeps the types.
LEMMA ThrowType ==
  ASSUME TypeInv, NEW kind \in Kinds, NEW retry \in BOOLEAN,
         NEW paths \in SUBSET Paths, NEW shas \in SUBSET DOMAIN landed,
         pc \in Publishing, Throw(kind, retry, paths, shas),
         index' \in Contents, pushes' \in Nat, unreached' \in BOOLEAN,
         UNCHANGED <<work, head, ahead, landed, status, attempts,
                     fallbackAttempted, diffHash, lastPlan, config, proposal,
                     cursor, fresh, delegations, scanned, meddling, disturbed>>
  PROVE  TypeInv'
<1>1. TypeOK'
  BY DEF TypeInv, TypeOK, Throw, Contents
<1>2. LocalsInHand'
  BY DEF TypeInv, LocalsInHand, Untroubled, Publishing, Throw
<1> QED
  BY <1>1, <1>2 DEF TypeInv

\* The publisher keeps the types: in particular a commit it records is one it
\* made, and the plan it works on is one of the answer's.
LEMMA PublishType == TypeInv /\ Publish => TypeInv'
<1> SUFFICES ASSUME TypeInv, Publish PROVE TypeInv'
  OBVIOUS
<1>a. /\ index \in Contents /\ head \in Contents /\ pushes \in Nat
      /\ unreached \in BOOLEAN /\ fresh \in SUBSET DOMAIN landed
  BY DEF TypeInv, TypeOK, Contents
<1>b. /\ {"structural", "race", "git", "network"} \subseteq Kinds
      /\ {} \in SUBSET Paths /\ {} \in SUBSET DOMAIN landed
  BY DEF Kinds
<1>1. CASE DuplicateFile
  BY <1>1, <1>a, <1>b, ThrowType DEF DuplicateFile, Publishing, gitVars, history
<1>2. CASE HashMismatch
  BY <1>2, <1>a, <1>b, ThrowType DEF HashMismatch, Publishing, gitVars, history
<1>3. CASE GitFails
  BY <1>3, <1>a, <1>b, ThrowType DEF GitFails, Publishing, gitVars, history
<1>4. CASE CleanupFails
  BY <1>4, <1>a, <1>b, ThrowType DEF CleanupFails, Publishing, gitVars, history
<1>5. CASE PartialCommit
  BY <1>5, <1>a, <1>b, PendingType, ThrowType
     DEF PartialCommit, Publishing, history
<1>6. ASSUME pc \in {"add", "commit"}, PlanError PROVE TypeInv'
  <2>1. (IF fresh = {} THEN {} ELSE Pending) \in SUBSET Paths
    BY <1>6, PendingType
  <2> QED
    BY <1>6, <1>a, <1>b, <2>1, ThrowType DEF PlanError, Publishing, history
<1>7. ASSUME NEW transient \in BOOLEAN, PushFails(transient) PROVE TypeInv'
  BY <1>7, <1>a, <1>b, ThrowType DEF PushFails, Publishing, gitVars
<1>8. CASE Commit
  <2>1. Plans \in Seq(SUBSET Paths) /\ cursor \in 1 .. Len(Plans)
    BY <1>8, PublishConstants
       DEF Commit, TypeInv, LocalsInHand, Publishing, Plans, Proposals
  <2> DEFINE made == [files |-> Plans[cursor],
                      changed |-> {<<f, index[f]>> : f \in {g \in Files :
                                                            index[g] # head[g]}}]
             Commits == [files : SUBSET Paths, changed : SUBSET (Files \X Nat)]
  <2>2. made \in Commits
    BY <2>1, <1>a DEF Contents
  <2>3. landed \in Seq(Commits) /\ landed' = Append(landed, made)
    BY <1>8 DEF Commit, TypeInv, TypeOK
  <2> HIDE DEF made, Commits
  <2>4. /\ landed' \in Seq(Commits)
        /\ DOMAIN landed' = DOMAIN landed \cup {Len(landed) + 1}
    BY <2>2, <2>3
  <2>5. fresh' \subseteq DOMAIN landed' /\ committedShas' \subseteq DOMAIN landed'
    BY <1>8, <2>4, <1>a DEF Commit, TypeInv, TypeOK, stateVars
  <2>6. ahead' \in BOOLEAN /\ cursor' \in Nat /\ head' \in [Files -> Nat]
    BY <1>8, <2>1, <1>a DEF Commit, Contents
  <2>7. pc' \in {"add", "push"}
    BY <1>8 DEF Commit
  <2>8. TypeOK'
    BY <1>8, <2>4, <2>5, <2>6, <2>7
       DEF Commit, TypeInv, TypeOK, stateVars, history, Commits
  <2>9. LocalsInHand'
    BY <1>8, <2>1 DEF Commit, TypeInv, LocalsInHand, Untroubled, Publishing, Plans
  <2> QED
    BY <2>8, <2>9 DEF TypeInv
<1>9. CASE ResetIndex
  <2>1. 1 \in 1 .. Len(Plans)
    <3>1. Plans \in Seq(SUBSET Paths) /\ Plans # <<>>
      BY <1>9, PublishConstants
         DEF ResetIndex, TypeInv, LocalsInHand, Publishing, Plans, Proposals
    <3> QED
      BY <3>1
  <2> QED
    BY <1>9, <2>1 DEF ResetIndex, TypeInv, TypeOK, LocalsInHand, Untroubled,
                      Publishing, Plans, stateVars, history
<1> USE DEF TypeInv, TypeOK, LocalsInHand, Untroubled, Publishing, Plans,
            gitVars, stateVars, runVars, history
<1>10. CASE GuardPasses
  BY <1>10 DEF GuardPasses
<1>11. CASE AddPlan
  BY <1>11 DEF AddPlan
<1>12. CASE NoPush
  BY <1>12 DEF NoPush, Succeed
<1>13. CASE Push
  <2>1. ahead' \in BOOLEAN
    BY <1>13 DEF Push
  <2> QED
    BY <1>13, <2>1 DEF Push, Succeed
<1> QED
  BY <1>1, <1>2, <1>3, <1>4, <1>5, <1>6, <1>7, <1>8, <1>9, <1>10, <1>11, <1>12,
     <1>13 DEF Publish, NonexistentFile, NothingToCommit

\* Handling an error keeps the types.
LEMMA SettleType == TypeInv /\ Settle => TypeInv'
<1> SUFFICES ASSUME TypeInv, Settle PROVE TypeInv'
  OBVIOUS
<1>1. ASSUME Retry PROVE TypeInv'
  <2>1. failure.kind \in Kinds /\ proposal \in Answers
    BY <1>1 DEF Retry, TypeInv, TypeOK, LocalsInHand, Answers
  <2>2. /\ index \in Contents /\ head \in Contents
        /\ fallbackAttempted \in BOOLEAN /\ committedShas \in SUBSET DOMAIN landed
    BY DEF TypeInv, TypeOK, Contents
  <2>3. TypeOK /\ MayRetry(failure.kind)
    BY <1>1 DEF Retry, TypeInv
  <2>4. PICK idx \in {head, index} :
          QueueRetry(idx, failure.pending, proposal, Bumped(failure.kind),
                     fallbackAttempted, committedShas)
    BY <1>1 DEF Retry
  <2>5. /\ Bumped(failure.kind) \in [Kinds -> 0 .. 2]
        /\ \A k \in Kinds : Bumped(failure.kind)[k] <= MaxAttempts[k]
    BY <2>1, <2>3, BumpedType
  <2> QED
    BY <2>1, <2>2, <2>4, <2>5, QueueRetryType
<1>2. CASE GiveUp
  BY <1>2 DEF GiveUp, FailRepo, TypeInv, TypeOK, LocalsInHand, Untroubled,
              Publishing, Plans, gitVars, stateVars, runVars, history
<1> QED
  BY <1>1, <1>2 DEF Settle

\* The owner of the repository keeps the types.
LEMMA OwnerType == TypeInv /\ Owner => TypeInv'
<1> SUFFICES ASSUME TypeInv, NEW f \in Files, Edit(f) \/ Stage(f) PROVE TypeInv'
  BY DEF Owner
<1> USE PublishConstants DEF TypeInv, TypeOK, LocalsInHand, Plans, stateVars, runVars
<1>1. CASE Edit(f)
  BY <1>1 DEF Edit
<1>2. CASE Stage(f)
  BY <1>2 DEF Stage
<1> QED
  BY <1>1, <1>2

\* Every step keeps the types.
LEMMA StepType == TypeInv /\ [Next]_vars => TypeInv'
<1> SUFFICES ASSUME TypeInv, [Next]_vars PROVE TypeInv'
  OBVIOUS
<1>1. CASE Run
  BY <1>1, ValidationType, AnswerType, JudgeType, PublishType, SettleType DEF Run
<1>2. CASE Owner
  BY <1>2, OwnerType
<1>3. CASE UNCHANGED vars
  BY <1>3 DEF vars, gitVars, stateVars, runVars, history, TypeInv, TypeOK,
              LocalsInHand, Plans
<1> QED
  BY <1>1, <1>2, <1>3 DEF Next

\* Every variable keeps its type: in particular no counter of retries passes
\* MAX_ATTEMPTS_BY_KIND, and committedShas names commits that were made.
THEOREM TypesHold == Spec => []TypeOK
<1>1. TypeInv => TypeOK
  BY DEF TypeInv
<1> QED
  BY InitType, StepType, <1>1, PTL DEF Spec

-----------------------------------------------------------------------------
(* The retry budgets.                                                       *)

\* A retry that spends an attempt pays for its delegation.
LEMMA BumpPays ==
  ASSUME TypeInv, DelegationsPaid, NEW kind \in Kinds,
         attempts' = Bumped(kind), fallbackAttempted' = fallbackAttempted,
         delegations' \in {delegations, delegations + 1}
  PROVE  DelegationsPaid'
<1>1. attempts \in [Kinds -> 0 .. 2] /\ delegations \in Nat
  BY DEF TypeInv, TypeOK
<1>2. /\ attempts'[kind] = attempts[kind] + 1
      /\ \A k \in Kinds \ {kind} : attempts'[k] = attempts[k]
  BY <1>1 DEF Bumped
<1>3. \A k \in Kinds : attempts[k] \in 0 .. 2
  BY <1>1
<1> QED
  BY <1>1, <1>2, <1>3 DEF DelegationsPaid, Kinds

\* No step delegates without paying for it.
LEMMA StepPays ==
  ASSUME TypeInv, DelegationsPaid, [Next]_vars
  PROVE  DelegationsPaid'
<1>a. /\ \A k \in Kinds : attempts[k] \in 0 .. 2 /\ attempts[k] <= MaxAttempts[k]
      /\ attempts \in [Kinds -> 0 .. 2] /\ delegations \in Nat
  BY DEF TypeInv, TypeOK
<1>1. ASSUME UNCHANGED <<attempts, fallbackAttempted, delegations>>
      PROVE  DelegationsPaid'
  BY <1>1 DEF DelegationsPaid
<1>2. CASE Validated
  BY <1>2, <1>a DEF Validated, DelegationsPaid, Kinds
<1>3. CASE LlmRejected \/ JudgeRetry
  <2>1. "validation" \in Kinds
    BY DEF Kinds
  <2> QED
    BY <1>3, <2>1, BumpPays DEF LlmRejected, JudgeRetry, QueueRetry
<1>4. CASE JudgeFallback
  <2>1. /\ attempts["validation"] = 2 /\ ~fallbackAttempted
        /\ fallbackAttempted' = TRUE
        /\ delegations' \in {delegations, delegations + 1}
    BY <1>4, <1>a DEF JudgeFallback, ShouldUseFallback, QueueRetry, MaxAttempts, Kinds
  <2>2. /\ attempts' = [attempts EXCEPT !["validation"] = 0]
    BY <1>4 DEF JudgeFallback, QueueRetry
  <2>3. /\ attempts'["validation"] = 0
        /\ \A k \in Kinds \ {"validation"} : attempts'[k] = attempts[k]
    BY <2>2, <1>a DEF Kinds
  <2> QED
    BY <2>1, <2>3, <1>a DEF DelegationsPaid, Kinds
<1>5. CASE Retry
  <2>1. failure.kind \in Kinds
    BY <1>5 DEF Retry, TypeInv, LocalsInHand
  <2> QED
    BY <1>5, <2>1, BumpPays DEF Retry, QueueRetry
<1>6. CASE \/ Rejected(index) \/ Rejected(work) \/ LlmRejectedTooOften \/ LlmFails
           \/ LlmEmpty \/ (\E p \in Proposals : LlmProposes(p)) \/ JudgeFail
           \/ Accept \/ GiveUp
  BY <1>6, <1>1 DEF Rejected, LlmRejectedTooOften, LlmFails, LlmEmpty, LlmProposes,
                    JudgeFail, Accept, GiveUp, FailRepo, stateVars, history
<1>7. CASE Publish
  BY <1>7, <1>1 DEF Publish, DuplicateFile, HashMismatch, GuardPasses, ResetIndex,
                    GitFails, AddPlan, NonexistentFile, NothingToCommit, PlanError,
                    Commit, PartialCommit, CleanupFails, NoPush, Push, Succeed,
                    PushFails, stateVars, history
<1>8. CASE Owner \/ UNCHANGED vars
  BY <1>8, <1>1 DEF Owner, Edit, Stage, vars, stateVars, history
<1> QED
  BY <1>2, <1>3, <1>4, <1>5, <1>6, <1>7, <1>8
     DEF Next, Run, Validation, Answer, Judge, Settle

\* The budgets bound the work: whatever fails and in whatever order, a
\* repository is delegated at most ten times.
THEOREM BudgetHolds == Spec => []DelegationBudget
<1>1. Init => BudgetInv
  <2>1. Init => DelegationsPaid
    BY DEF Init, DelegationsPaid, Kinds
  <2> QED
    BY <2>1, InitType DEF BudgetInv
<1>2. BudgetInv /\ [Next]_vars => BudgetInv'
  BY StepType, StepPays DEF BudgetInv
<1>3. BudgetInv => DelegationBudget
  <2> SUFFICES ASSUME BudgetInv PROVE DelegationBudget
    OBVIOUS
  <2>1. \A k \in Kinds : attempts[k] \in 0 .. 2 /\ attempts[k] <= MaxAttempts[k]
    BY DEF BudgetInv, TypeInv, TypeOK
  <2>2. /\ attempts["validation"] \in 0 .. 2 /\ attempts["structural"] \in 0 .. 1
        /\ attempts["race"] \in 0 .. 1 /\ attempts["git"] \in 0 .. 1
        /\ attempts["network"] \in 0 .. 1
    BY <2>1 DEF Kinds, MaxAttempts
  <2>3. delegations \in Nat
    BY DEF BudgetInv, TypeInv, TypeOK
  <2> QED
    BY <2>2, <2>3 DEF BudgetInv, DelegationsPaid, DelegationBudget, MaxDelegations
<1> QED
  BY <1>1, <1>2, <1>3, PTL DEF Spec

-----------------------------------------------------------------------------
(* What is on record.                                                       *)

\* No step makes a commit and forgets it, unless a push or a cleanup fails.
LEMMA StepRecords ==
  ASSUME TypeInv, RecordedSoFar, [Next]_vars
  PROVE  RecordedSoFar'
<1>a. pushes \in Nat /\ (pc \in Untroubled => failure = NoFailure)
  BY DEF TypeInv, TypeOK, LocalsInHand
<1>b. pc \in {"guard", "reset"} => fresh = {}
  BY DEF TypeInv, LocalsInHand
<1>c. NoFailure.kind # "git"
  BY DEF NoFailure
<1> USE DEF RecordedSoFar
<1>1. ASSUME UNCHANGED <<landed, committedShas, fresh, failure, pushes>>,
             pc' \notin {"add", "commit", "push"}, pc \notin {"add", "commit", "push"}
      PROVE  RecordedSoFar'
  BY <1>1
<1>2. ASSUME UNCHANGED <<landed, committedShas, pushes>>, failure' = NoFailure,
             pc' \notin {"add", "commit", "push"}, pc \notin {"add", "commit", "push"},
             ~(failure.kind = "git" /\ ~failure.retry)
      PROVE  RecordedSoFar'
  BY <1>2
<1>3. CASE Validation
  BY <1>3, <1>1 DEF Validation, Validated, Rejected, runVars, history
<1>4. CASE LlmRejected \/ JudgeRetry \/ JudgeFallback
  BY <1>4, <1>2, <1>a, <1>c
     DEF LlmRejected, JudgeRetry, JudgeFallback, QueueRetry, Untroubled
<1>5. CASE Retry
  BY <1>5, <1>2 DEF Retry, QueueRetry
<1>6. CASE LlmRejectedTooOften \/ LlmFails \/ JudgeFail \/ GiveUp
  BY <1>6, <1>1 DEF LlmRejectedTooOften, LlmFails, JudgeFail, GiveUp, FailRepo,
                    gitVars, runVars, history
<1>7. CASE LlmEmpty \/ (\E p \in Proposals : LlmProposes(p))
  BY <1>7, <1>1 DEF LlmEmpty, LlmProposes, gitVars, stateVars, history
<1>8. CASE Accept
  BY <1>8 DEF Accept, gitVars, stateVars, history
<1>9. CASE DuplicateFile \/ HashMismatch
  BY <1>9, <1>a, <1>c DEF DuplicateFile, HashMismatch, Throw, Untroubled, Publishing,
                    gitVars, history
<1>10. CASE GuardPasses
  BY <1>10, <1>1 DEF GuardPasses, gitVars, stateVars, runVars, history
<1>11. CASE ResetIndex
  BY <1>11, <1>b DEF ResetIndex, stateVars, history
<1>12. CASE GitFails \/ CleanupFails
  <2>1. failure'.kind = "git" /\ ~failure'.retry
    BY <1>12 DEF GitFails, CleanupFails, Throw
  <2> QED
    BY <2>1
<1>13. CASE AddPlan
  BY <1>13 DEF AddPlan, stateVars, runVars, history
<1>14. CASE PartialCommit \/ NonexistentFile \/ NothingToCommit
  <2>1. /\ UNCHANGED <<landed, pushes>> /\ pc \in {"add", "commit"} /\ pc' = "error"
        /\ committedShas' = committedShas \cup fresh
    BY <1>14 DEF PartialCommit, NonexistentFile, NothingToCommit, PlanError, Throw,
                 history
  <2>2. ~(failure.kind = "git" /\ ~failure.retry)
    BY <2>1, <1>a, <1>c DEF Untroubled, Publishing
  <2> QED
    BY <2>1, <2>2
<1>15. CASE Commit
  <2>1. landed \in Seq([files : SUBSET Paths, changed : SUBSET (Files \X Nat)])
    BY DEF TypeInv, TypeOK
  <2>2. DOMAIN landed' = DOMAIN landed \cup {Len(landed) + 1}
    <3>1. PICK made : landed' = Append(landed, made)
      BY <1>15 DEF Commit
    <3> QED
      BY <2>1, <3>1
  <2>3. /\ fresh' = fresh \cup {Len(landed) + 1} /\ pc = "commit"
        /\ pc' \in {"add", "push"} /\ UNCHANGED <<committedShas, failure, pushes>>
    BY <1>15 DEF Commit, stateVars, history
  <2> QED
    BY <2>2, <2>3
<1>16. CASE NoPush
  BY <1>16 DEF NoPush, Succeed, runVars
<1>17. CASE Push \/ (\E transient \in BOOLEAN : PushFails(transient))
  <2>1. pushes' = pushes + 1
    BY <1>17 DEF Push, PushFails
  <2> QED
    BY <2>1, <1>a
<1>18. CASE Owner \/ UNCHANGED vars
  BY <1>18 DEF Owner, Edit, Stage, vars, gitVars, stateVars, runVars, history
<1> QED
  BY <1>3, <1>4, <1>5, <1>6, <1>7, <1>8, <1>9, <1>10, <1>11, <1>12, <1>13, <1>14,
     <1>15, <1>16, <1>17, <1>18
     DEF Next, Run, Validation, Answer, Judge, Publish, Settle

\* Across retries no commit is forgotten: unless a push or a cleanup failed,
\* committedShas holds every commit of the run.
THEOREM NoCommitIsForgotten == Spec => []LandedAreRecorded
<1>1. Init => RecordInv
  <2>1. Init => RecordedSoFar
    BY DEF Init, RecordedSoFar
  <2> QED
    BY <2>1, InitType DEF RecordInv
<1>2. RecordInv /\ [Next]_vars => RecordInv'
  BY StepType, StepRecords DEF RecordInv
<1>3. RecordInv => LandedAreRecorded
  BY DEF RecordInv, RecordedSoFar, LandedAreRecorded
<1> QED
  BY <1>1, <1>2, <1>3, PTL DEF Spec

-----------------------------------------------------------------------------
(* What is committed.                                                       *)

\* No step of the run but git add puts anything in the index between two
\* commits, and git add only the files of the plan.
LEMMA StepStages ==
  ASSUME TypeInv, IndexFollowsPlan, [Next]_vars
  PROVE  IndexFollowsPlan'
<1> USE DEF IndexFollowsPlan
<1>1. ASSUME pc' \notin {"add", "commit"} PROVE IndexFollowsPlan'
  BY <1>1
<1>2. CASE Validation \/ Answer \/ Judge \/ Settle
  BY <1>2, <1>1 DEF Validation, Validated, Rejected, Answer, LlmRejected,
                    LlmRejectedTooOften, LlmFails, LlmEmpty, LlmProposes, Judge,
                    JudgeRetry, JudgeFallback, JudgeFail, Accept, Settle, Retry,
                    GiveUp, QueueRetry, FailRepo
<1>3. CASE \/ DuplicateFile \/ HashMismatch \/ GuardPasses \/ GitFails \/ NoPush
           \/ Push \/ NonexistentFile \/ NothingToCommit \/ PartialCommit
           \/ CleanupFails \/ (\E transient \in BOOLEAN : PushFails(transient))
  BY <1>3, <1>1 DEF DuplicateFile, HashMismatch, GuardPasses, GitFails, NoPush, Push,
                    Succeed, NonexistentFile, NothingToCommit, PlanError,
                    PartialCommit, CleanupFails, PushFails, Throw
<1>4. CASE ResetIndex
  BY <1>4 DEF ResetIndex
<1>5. CASE AddPlan
  <2>1. /\ pc = "add" /\ pc' = "commit"
        /\ index' = [f \in Files |-> IF f \in Plans[cursor] THEN work[f] ELSE index[f]]
        /\ UNCHANGED <<head, proposal, cursor, disturbed>>
    BY <1>5 DEF AddPlan, runVars, history
  <2> QED
    BY <2>1 DEF Plans
<1>6. CASE Commit
  BY <1>6 DEF Commit, history
<1>7. ASSUME NEW f \in Files, Edit(f) PROVE IndexFollowsPlan'
  BY <1>7 DEF Edit, runVars, Plans
<1>8. ASSUME NEW f \in Files, Stage(f) PROVE IndexFollowsPlan'
  BY <1>8, <1>1 DEF Stage
<1>9. CASE UNCHANGED vars
  BY <1>9 DEF vars, gitVars, runVars, history, Plans
<1> QED
  BY <1>2, <1>3, <1>4, <1>5, <1>6, <1>7, <1>8, <1>9 DEF Next, Run, Publish, Owner

\* A new commit changes files of its plan only, the others are as they were.
LEMMA StepCommits ==
  ASSUME TypeInv, IndexFollowsPlan, CommitsOnlyPlannedFiles, [Next]_vars
  PROVE  CommitsOnlyPlannedFiles'
<1>2. CASE Commit
  <2> SUFFICES ASSUME ~disturbed
               PROVE  \A i \in DOMAIN landed' :
                        \A c \in landed'[i].changed : c[1] \in landed'[i].files
    BY <1>2 DEF Commit, history, CommitsOnlyPlannedFiles
  <2> DEFINE made == [files |-> Plans[cursor],
                      changed |-> {<<f, index[f]>> : f \in {g \in Files :
                                                            index[g] # head[g]}}]
  <2>1. \A c \in made.changed : c[1] \in made.files
    BY <1>2 DEF Commit, IndexFollowsPlan
  <2>2. /\ landed \in Seq([files : SUBSET Paths, changed : SUBSET (Files \X Nat)])
        /\ landed' = Append(landed, made)
    BY <1>2 DEF Commit, TypeInv, TypeOK
  <2> HIDE DEF made
  <2>3. \A i \in DOMAIN landed' :
          (i \in DOMAIN landed /\ landed'[i] = landed[i]) \/ landed'[i] = made
    BY <2>2
  <2> QED
    BY <2>1, <2>3 DEF CommitsOnlyPlannedFiles
<1>3. CASE Validation \/ Answer \/ Judge \/ Settle
  BY <1>3 DEF CommitsOnlyPlannedFiles, Validation, Validated, Rejected, Answer,
              LlmRejected, LlmRejectedTooOften, LlmFails, LlmEmpty, LlmProposes,
              Judge, JudgeRetry, JudgeFallback, JudgeFail, Accept, Settle, Retry,
              GiveUp, QueueRetry, FailRepo, gitVars, history
<1>4. CASE Publish /\ ~Commit
  <2>1. landed' = landed /\ disturbed' = disturbed
    BY <1>4 DEF Publish, DuplicateFile, HashMismatch, GuardPasses, ResetIndex,
                GitFails, AddPlan, NonexistentFile, NothingToCommit, PlanError,
                PartialCommit, CleanupFails, NoPush, Push, Succeed, PushFails,
                gitVars, history
  <2> QED
    BY <2>1 DEF CommitsOnlyPlannedFiles
<1>5. CASE Owner \/ UNCHANGED vars
  BY <1>5 DEF CommitsOnlyPlannedFiles, Owner, Edit, Stage, vars, gitVars, history
<1> QED
  BY <1>2, <1>3, <1>4, <1>5 DEF Next, Run

\* The plan is respected: whatever the owner edits and stages, a commit
\* changes only files its plan names, unless somebody stages in its midst.
THEOREM PlansAreRespected == Spec => []CommitsOnlyPlannedFiles
<1>1. Init => PlanInv
  <2>1. Init => IndexFollowsPlan /\ CommitsOnlyPlannedFiles
    BY DEF Init, IndexFollowsPlan, CommitsOnlyPlannedFiles
  <2> QED
    BY <2>1, InitType DEF PlanInv
<1>2. PlanInv /\ [Next]_vars => PlanInv'
  BY StepType, StepStages, StepCommits DEF PlanInv
<1>3. PlanInv => CommitsOnlyPlannedFiles
  BY DEF PlanInv
<1> QED
  BY <1>1, <1>2, <1>3, PTL DEF Spec

-----------------------------------------------------------------------------
(* What a success says.                                                     *)

\* A repository has its status for good; until it has one, what has landed is not
\* pushed, and a plan is in hand where a push may come.
DoneInv ==
  /\ UnpushedOnlyIfEmpty
  /\ status = "SUCCESS" => pc = "end"
  /\ pc # "end" /\ landed # <<>> => ahead

\* No step makes a success false.
LEMMA StepSucceeds == TypeInv /\ DoneInv /\ [Next]_vars => DoneInv'
<1> SUFFICES ASSUME TypeInv, DoneInv, [Next]_vars PROVE DoneInv'
  OBVIOUS
<1> USE DEF DoneInv, UnpushedOnlyIfEmpty
<1>1. ASSUME status' # "SUCCESS", pc' # "end" /\ landed' # <<>> => ahead' PROVE DoneInv'
  BY <1>1
<1>2. CASE Validation
  BY <1>2, <1>1 DEF Validation, Validated, Rejected
<1>3. CASE \/ LlmRejected \/ LlmRejectedTooOften \/ LlmFails \/ Judge \/ Settle
           \/ (\E p \in Proposals : LlmProposes(p))
  BY <1>3, <1>1 DEF LlmRejected, LlmRejectedTooOften, LlmFails, LlmProposes, Judge,
                    JudgeRetry, JudgeFallback, JudgeFail, Accept, Settle, Retry,
                    GiveUp, QueueRetry, FailRepo, gitVars, stateVars
<1>4. CASE LlmEmpty
  <2>1. landed # <<>> /\ pc # "end"
    BY <1>4 DEF LlmEmpty, TypeInv, TypeOK
  <2>2. ahead' /\ proposal' = NoProposal /\ pc' = "end"
    BY <1>4, <2>1 DEF LlmEmpty, gitVars
  <2> QED
    BY <2>2
<1>5. CASE NoPush
  BY <1>5 DEF NoPush, Succeed, runVars
<1>6. CASE Push
  <2>1. proposal # NoProposal
    BY <1>6, PublishConstants DEF Push, TypeInv, LocalsInHand, Publishing, Proposals, NoProposal
  <2>2. ahead' = FALSE /\ proposal' = proposal /\ pc' = "end"
    BY <1>6 DEF Push, Succeed, runVars
  <2> QED
    BY <2>1, <2>2
<1>7. CASE Publish /\ ~NoPush /\ ~Push
  <2>1. status' = status /\ pc # "end"
    BY <1>7 DEF Publish, DuplicateFile, HashMismatch, GuardPasses, ResetIndex,
                GitFails, AddPlan, NonexistentFile, NothingToCommit, PlanError,
                Commit, PartialCommit, CleanupFails, PushFails, stateVars
  <2>2. ahead' \/ (landed' = landed /\ ahead' = ahead)
    BY <1>7 DEF Publish, DuplicateFile, HashMismatch, GuardPasses, ResetIndex,
                GitFails, AddPlan, NonexistentFile, NothingToCommit, PlanError,
                Commit, PartialCommit, CleanupFails, PushFails, gitVars
  <2> QED
    BY <2>1, <2>2, <1>1
<1>8. CASE Owner \/ UNCHANGED vars
  BY <1>8 DEF Owner, Edit, Stage, vars, gitVars, stateVars, runVars, history
<1> QED
  BY <1>2, <1>3, <1>4, <1>5, <1>6, <1>7, <1>8 DEF Next, Run, Answer

\* With autoPush and a remote, a success has pushed every commit of the run,
\* whichever attempts they are of, unless it was declared upon an empty answer
\* after a partial commit: then its commits are unpushed, always.
THEOREM WhatSuccessPushes == Spec => []UnpushedOnlyIfEmpty
<1>1. Init => DoneInv
  BY DEF Init, DoneInv, UnpushedOnlyIfEmpty
<1>2. DoneInv => UnpushedOnlyIfEmpty
  BY DEF DoneInv
<1>3. Spec => []TypeInv
  BY InitType, StepType, PTL DEF Spec
<1> QED
  BY <1>1, <1>2, <1>3, StepSucceeds, PTL DEF Spec

-----------------------------------------------------------------------------
(* What has been scanned.                                                   *)

\* Every content of the worktree that is not committed has been scanned, and the
\* index holds no other.
StagedIsScanned ==
  \A f \in Files :
    /\ index[f] \in {head[f], work[f]}
    /\ work[f] # head[f] => <<f, work[f]>> \in scanned

\* As long as the owner leaves the repository alone, what is in hand and what has
\* been committed is what the one scan of the run has seen.
ScannedSoFar ==
  /\ pc = "validate" => landed = <<>>
  /\ meddling = 0 =>
       /\ pc = "validate" => index = head
       /\ pc \notin {"validate", "end"} => StagedIsScanned
       /\ OnlyScannedIsCommitted

\* A retry stages contents of the worktree, whatever is left to do.
LEMMA RetryScanned ==
  ASSUME TypeInv, StagedIsScanned, NEW idx \in {head, index}, NEW paths, NEW failed,
         NEW bumped, NEW fallback, NEW shas,
         QueueRetry(idx, paths, failed, bumped, fallback, shas)
  PROVE  StagedIsScanned'
<1> DEFINE todo == paths \ FilesOf(shas)
<1>1. /\ index' = IndexLeft(idx, todo)
      /\ UNCHANGED <<work, head, scanned>>
  BY DEF QueueRetry
<1>2. \A f \in Files : idx[f] \in {head[f], work[f]}
  BY DEF StagedIsScanned
<1>3. \A f \in Files : Restaged(idx, todo)[f] \in {head[f], work[f]}
  BY <1>2 DEF TypeInv, TypeOK, Restaged
<1>4. \A f \in Files : index'[f] \in {head[f], work[f]}
  BY <1>1, <1>2, <1>3 DEF IndexLeft
<1> QED
  BY <1>1, <1>4 DEF StagedIsScanned

\* No step of the run stages, or commits, what has not been scanned.
LEMMA StepScans ==
  ASSUME TypeInv, ScannedSoFar, [Next]_vars
  PROVE  ScannedSoFar'
<1>0. /\ work \in [Files -> Nat] /\ index \in [Files -> Nat] /\ head \in [Files -> Nat]
      /\ landed \in Seq([files : SUBSET Paths, changed : SUBSET (Files \X Nat)])
      /\ meddling \in Nat
  BY PublishConstants DEF TypeInv, TypeOK
<1>1. CASE Owner
  <2>1. meddling' = meddling + 1 /\ meddling' # 0 /\ UNCHANGED <<pc, landed>>
    BY <1>0, <1>1 DEF Owner, Edit, Stage
  <2> QED
    BY <2>1 DEF ScannedSoFar
<1>2. CASE UNCHANGED vars
  BY <1>2 DEF vars, gitVars, history, ScannedSoFar, StagedIsScanned, OnlyScannedIsCommitted
<1>3. ASSUME pc # "validate", pc' # "validate", UNCHANGED <<landed, scanned, meddling>>,
             pc' # "end" /\ meddling = 0 /\ StagedIsScanned => StagedIsScanned',
             pc # "end"
      PROVE  ScannedSoFar'
  BY <1>3 DEF ScannedSoFar, OnlyScannedIsCommitted
<1>4. CASE Validated
  <2>1. /\ pc = "validate" /\ pc' = "infer" /\ index' = work /\ UNCHANGED <<work, head, landed>>
        /\ scanned' = {<<f, work[f]>> : f \in {g \in Files : work[g] # head[g]}}
    BY <1>4 DEF Validated
  <2>2. landed' = <<>>
    BY <2>1 DEF ScannedSoFar
  <2>3. OnlyScannedIsCommitted'
    BY <2>2 DEF OnlyScannedIsCommitted
  <2>4. StagedIsScanned'
    BY <2>1 DEF StagedIsScanned
  <2> QED
    BY <2>1, <2>3, <2>4 DEF ScannedSoFar
<1>5. CASE Rejected(index) \/ Rejected(work)
  BY <1>5 DEF Rejected, history, ScannedSoFar, OnlyScannedIsCommitted
<1>6. CASE LlmRejected \/ JudgeRetry \/ JudgeFallback \/ Retry
  <2>1. /\ pc \in {"infer", "judge", "error"} /\ pc' \in {"infer", "end"}
        /\ UNCHANGED <<landed, scanned, meddling>>
    BY <1>6 DEF LlmRejected, JudgeRetry, JudgeFallback, Retry, QueueRetry
  <2>2. StagedIsScanned => StagedIsScanned'
    BY <1>6, RetryScanned DEF LlmRejected, JudgeRetry, JudgeFallback, Retry
  <2> QED
    BY <1>3, <2>1, <2>2
<1>7. CASE \/ LlmRejectedTooOften \/ LlmFails \/ LlmEmpty \/ JudgeFail \/ Accept \/ GiveUp
           \/ \E p \in Proposals : LlmProposes(p)
  <2>1. /\ pc \in {"infer", "judge", "error"} /\ pc' \in {"judge", "guard", "end"}
        /\ UNCHANGED <<work, index, head, landed, scanned, meddling>>
    BY <1>7 DEF LlmRejectedTooOften, LlmFails, LlmEmpty, JudgeFail, Accept, GiveUp,
                LlmProposes, FailRepo, gitVars, history
  <2> QED
    BY <1>3, <2>1 DEF StagedIsScanned
<1>8. CASE \/ DuplicateFile \/ HashMismatch \/ GuardPasses \/ GitFails \/ CleanupFails
           \/ NoPush \/ Push \/ \E transient \in BOOLEAN : PushFails(transient)
  <2>1. /\ pc \in Publishing /\ pc' \in {"reset", "error", "end"}
        /\ UNCHANGED <<work, index, head, landed, scanned, meddling>>
    BY <1>8 DEF DuplicateFile, HashMismatch, GuardPasses, GitFails, CleanupFails, NoPush,
                Push, PushFails, Succeed, Throw, Publishing, gitVars, history
  <2> QED
    BY <1>3, <2>1 DEF StagedIsScanned, Publishing
<1>9. CASE ResetIndex \/ NonexistentFile \/ NothingToCommit \/ PartialCommit
  <2>1. /\ pc \in Publishing /\ pc' \in {"add", "error"} /\ index' = head
        /\ UNCHANGED <<work, head, landed, scanned, meddling>>
    BY <1>9 DEF ResetIndex, NonexistentFile, NothingToCommit, PartialCommit, PlanError,
                Throw, Publishing, history
  <2> QED
    BY <1>3, <2>1 DEF StagedIsScanned, Publishing
<1>10. CASE AddPlan
  <2>1. /\ pc = "add" /\ pc' = "commit" /\ UNCHANGED <<work, head, landed, scanned, meddling>>
        /\ index' = [f \in Files |-> IF f \in Plans[cursor] THEN work[f] ELSE index[f]]
    BY <1>10 DEF AddPlan, history
  <2> QED
    BY <1>3, <2>1 DEF StagedIsScanned
<1>11. CASE Commit
  <2> DEFINE made == [files |-> Plans[cursor],
                      changed |-> {<<f, index[f]>> : f \in {g \in Files :
                                                            index[g] # head[g]}}]
  <2>1. /\ pc = "commit" /\ pc' \in {"add", "push"} /\ head' = index
        /\ landed' = Append(landed, made) /\ UNCHANGED <<work, index, scanned, meddling>>
    BY <1>11 DEF Commit, history
  <2>2. ASSUME StagedIsScanned PROVE StagedIsScanned' /\ made.changed \subseteq scanned
    BY <2>1, <2>2 DEF StagedIsScanned
  <2> HIDE DEF made
  <2>3. \A i \in DOMAIN landed' :
          (i \in DOMAIN landed /\ landed'[i] = landed[i]) \/ landed'[i] = made
    BY <1>0, <2>1
  <2>4. StagedIsScanned /\ OnlyScannedIsCommitted => OnlyScannedIsCommitted'
    BY <2>1, <2>2, <2>3 DEF OnlyScannedIsCommitted
  <2> QED
    BY <2>1, <2>2, <2>4 DEF ScannedSoFar
<1> QED
  BY <1>1, <1>2, <1>4, <1>5, <1>6, <1>7, <1>8, <1>9, <1>10, <1>11
     DEF Next, Run, Validation, Answer, Judge, Publish, Settle

\* What the commits of a run contain has been through the secret scan as long as the
\* owner neither edits nor stages: the meddling that the code does not notice
\* (publisher.ts:100-107 stages what is there by then) is all that can get round it.
THEOREM UndisturbedIsScanned == Spec => [](meddling = 0 => OnlyScannedIsCommitted)
<1>1. Init => ScannedSoFar
  BY DEF Init, ScannedSoFar, OnlyScannedIsCommitted
<1>2. ScannedSoFar => (meddling = 0 => OnlyScannedIsCommitted)
  BY DEF ScannedSoFar
<1> QED
  BY <1>1, <1>2, InitType, StepType, StepScans, PTL DEF Spec

-----------------------------------------------------------------------------
(* The batch: what the verdict of a run says of its repositories.           *)

BatchTypes ==
  /\ commits \in [Repositories -> Nat] /\ foundAt \in [Repositories -> Nat]
  /\ repoStatus \in [Repositories -> {"none", "PENDING", "RUNNING", "SUCCESS", "FAILED"}]
  /\ found \subseteq Repositories
  /\ phase \in {"discovery", "validation", "publish", "end"}

\* HEAD never goes back, and a repository that succeeded has moved on.
SuccessHasCommits ==
  \A r \in Repositories :
    /\ commits[r] >= foundAt[r]
    /\ repoStatus[r] = "SUCCESS" => commits[r] > foundAt[r]

\* A repository is decided, or among those that a phase has still to handle.
NoneIsLost ==
  /\ phase = "discovery" => \A r \in Repositories : repoStatus[r] = "none"
  /\ phase = "validation" =>
       \A r \in found \ pending : repoStatus[r] \in {"PENDING", "FAILED"}
  /\ phase = "publish" =>
       \A r \in found : r \in pending \cup retryJobs \/ repoStatus[r] \in {"SUCCESS", "FAILED"}

BatchInv ==
  /\ BatchTypes /\ SuccessHasCommits /\ NoneIsLost
  /\ phase # "end" => verdict = "none"
  /\ VerdictIsTrue

\* Nothing is discovered, shown or committed at first.
LEMMA BatchInitInv == BatchInit => BatchInv
BY DEF BatchInit, BatchInv, BatchTypes, SuccessHasCommits, NoneIsLost, VerdictIsTrue

\* Handling a repository decides it, or queues it again; a decision for success
\* is taken on a commit.
LEMMA HandlingKeeps ==
  ASSUME BatchInv, NEW r \in Repositories, Handling(r),
         \/ repoStatus' = repoStatus /\ r \in retryJobs'
         \/ \E st \in {"SUCCESS", "FAILED"} : repoStatus' = [repoStatus EXCEPT ![r] = st],
         retryJobs \subseteq retryJobs',
         commits' = commits \/ commits' = [commits EXCEPT ![r] = @ + 1],
         repoStatus'[r] = "SUCCESS" /\ repoStatus' # repoStatus => commits'[r] > foundAt[r]
  PROVE  BatchInv'
<1>0. BatchTypes /\ SuccessHasCommits /\ NoneIsLost /\ verdict = "none"
  BY DEF BatchInv, Handling
<1>1. /\ phase = "publish" /\ pending' = pending \ {r}
      /\ UNCHANGED <<phase, found, foundAt, verdict>>
  BY DEF Handling
<1>2. commits' \in [Repositories -> Nat] /\ \A s \in Repositories : commits'[s] >= commits[s]
  BY <1>0 DEF BatchTypes
<1>3. /\ repoStatus' \in [Repositories -> {"none", "PENDING", "RUNNING", "SUCCESS", "FAILED"}]
      /\ \A s \in Repositories \ {r} : repoStatus'[s] = repoStatus[s]
      /\ repoStatus'[r] \in {"SUCCESS", "FAILED"} \/ r \in retryJobs'
  BY <1>0 DEF BatchTypes
<1>4. BatchTypes'
  BY <1>0, <1>1, <1>2, <1>3 DEF BatchTypes
<1>5. SuccessHasCommits'
  BY <1>0, <1>1, <1>2, <1>3 DEF SuccessHasCommits, BatchTypes
<1>6. NoneIsLost'
  BY <1>0, <1>1, <1>3 DEF NoneIsLost, BatchTypes
<1> QED
  BY <1>0, <1>1, <1>4, <1>5, <1>6 DEF BatchInv, VerdictIsTrue

\* Discovery, validation, delegation, each outcome and the owner's edits keep the
\* invariant of a run over several repositories.
LEMMA BatchInductive == BatchInv /\ [BatchNext]_batchVars => BatchInv'
<1> SUFFICES ASSUME BatchInv, [BatchNext]_batchVars PROVE BatchInv'
  OBVIOUS
<1>0. /\ BatchTypes /\ SuccessHasCommits /\ NoneIsLost /\ VerdictIsTrue
      /\ phase # "end" => verdict = "none"
  BY DEF BatchInv
<1> DEFINE Same == UNCHANGED <<commits, foundAt, repoStatus, found, phase, pending,
                               retryJobs, verdict>>
<1>1. CASE Same
  BY <1>0, <1>1 DEF BatchInv, BatchTypes, SuccessHasCommits, NoneIsLost, VerdictIsTrue
<1>2. CASE UNCHANGED batchVars
  BY <1>1, <1>2 DEF batchVars, gitState, repoState
<1>3. CASE EndDiscovery
  BY <1>0, <1>3 DEF EndDiscovery, BatchInv, BatchTypes, SuccessHasCommits, NoneIsLost,
     VerdictIsTrue, gitState
<1>4. CASE DelegateBatch
  <2>1. /\ pending' = {r \in found : repoStatus[r] = "PENDING"}
        /\ repoStatus' = [r \in Repositories |->
                            IF r \in pending' THEN "RUNNING" ELSE repoStatus[r]]
        /\ phase = "validation" /\ pending = {} /\ phase' = "publish"
        /\ UNCHANGED <<commits, found, foundAt, retryJobs, verdict>>
    BY <1>4 DEF DelegateBatch, gitState
  <2>2. BatchTypes'
    BY <1>0, <2>1 DEF BatchTypes
  <2>3. SuccessHasCommits' /\ NoneIsLost'
    BY <1>0, <2>1 DEF SuccessHasCommits, NoneIsLost, BatchTypes
  <2> QED
    BY <1>0, <2>1, <2>2, <2>3 DEF BatchInv, VerdictIsTrue
<1>5. CASE DelegateRetries
  BY <1>0, <1>5 DEF DelegateRetries, BatchInv, BatchTypes, SuccessHasCommits, NoneIsLost,
     VerdictIsTrue, gitState
<1>6. CASE NothingValid \/ ReportAll
  <2>1. /\ \A r \in found : repoStatus[r] \in {"SUCCESS", "FAILED"}
        /\ verdict' = IF \E r \in found : repoStatus[r] = "FAILED" THEN "failed" ELSE "done"
        /\ phase' = "end"
        /\ UNCHANGED <<commits, found, foundAt, repoStatus>>
    BY <1>0, <1>6 DEF NothingValid, ReportAll, End, NoneIsLost, gitState
  <2>2. VerdictIsTrue'
    BY <1>0, <2>1 DEF VerdictIsTrue, SuccessHasCommits, BatchTypes
  <2>3. BatchTypes' /\ SuccessHasCommits' /\ NoneIsLost'
    BY <1>0, <2>1 DEF BatchTypes, SuccessHasCommits, NoneIsLost
  <2> QED
    BY <2>1, <2>2, <2>3 DEF BatchInv
<1>7. ASSUME NEW r \in Repositories,
             \/ OwnerEdits(r) \/ Discover(r) \/ Validate(r) \/ ValidationFails(r)
             \/ PublishSucceeds(r) \/ PublishGivesUp(r) \/ PublishIsRetried(r)
      PROVE  BatchInv'
  <2>1. CASE OwnerEdits(r)
    BY <1>1, <2>1 DEF OwnerEdits, repoState
  <2>2. CASE Discover(r)
    <3>1. /\ phase = "discovery" /\ foundAt' = [foundAt EXCEPT ![r] = commits[r]]
          /\ found' \in {found, found \cup {r}}
          /\ UNCHANGED <<commits, phase, repoStatus, verdict>>
      BY <2>2 DEF Discover, gitState, repoState
    <3>2. BatchTypes'
      BY <1>0, <3>1 DEF BatchTypes
    <3>3. SuccessHasCommits' /\ NoneIsLost'
      BY <1>0, <3>1 DEF SuccessHasCommits, NoneIsLost, BatchTypes
    <3> QED
      BY <1>0, <3>1, <3>2, <3>3 DEF BatchInv, VerdictIsTrue
  <2>3. CASE Validate(r) \/ ValidationFails(r)
    <3>1. PICK st \in {"PENDING", "FAILED"} : repoStatus' = [repoStatus EXCEPT ![r] = st]
      BY <2>3 DEF Validate, ValidationFails
    <3>2. /\ phase = "validation" /\ pending' = pending \ {r}
          /\ UNCHANGED <<commits, phase, found, foundAt, verdict>>
      BY <2>3 DEF Validate, ValidationFails, Validating
    <3>3. BatchTypes'
      BY <1>0, <3>1, <3>2 DEF BatchTypes
    <3>4. SuccessHasCommits' /\ NoneIsLost'
      BY <1>0, <3>1, <3>2 DEF SuccessHasCommits, NoneIsLost, BatchTypes
    <3> QED
      BY <1>0, <3>2, <3>3, <3>4 DEF BatchInv, VerdictIsTrue
  <2>4. CASE PublishSucceeds(r)
    <3>1. /\ Handling(r) /\ retryJobs' = retryJobs
          /\ repoStatus' = [repoStatus EXCEPT ![r] = "SUCCESS"]
          /\ \/ commits' = [commits EXCEPT ![r] = @ + 1]
             \/ commits[r] > foundAt[r] /\ commits' = commits
      BY <2>4 DEF PublishSucceeds, Lands
    <3>2. commits'[r] > foundAt[r]
      BY <1>0, <3>1 DEF BatchTypes, SuccessHasCommits
    <3> QED
      BY <3>1, <3>2, HandlingKeeps
  <2>5. CASE PublishGivesUp(r)
    <3>1. /\ Handling(r) /\ retryJobs' = retryJobs
          /\ repoStatus' = [repoStatus EXCEPT ![r] = "FAILED"]
          /\ commits' = commits \/ commits' = [commits EXCEPT ![r] = @ + 1]
      BY <2>5 DEF PublishGivesUp, Lands
    <3>2. repoStatus'[r] = "FAILED"
      BY <1>0, <3>1 DEF BatchTypes
    <3> QED
      BY <3>1, <3>2, HandlingKeeps
  <2>6. CASE PublishIsRetried(r)
    <3>1. /\ Handling(r) /\ retryJobs' = retryJobs \cup {r} /\ repoStatus' = repoStatus
          /\ commits' = commits \/ commits' = [commits EXCEPT ![r] = @ + 1]
      BY <2>6 DEF PublishIsRetried, Lands
    <3> QED
      BY <3>1, HandlingKeeps
  <2> QED
    BY <1>7, <2>1, <2>2, <2>3, <2>4, <2>5, <2>6
<1> QED
  BY <1>2, <1>3, <1>4, <1>5, <1>6, <1>7 DEF BatchNext

\* A run that ends as done has a commit in every repository that had changes, and
\* one that ends as failed has decided every repository and failed one
\* (printReport and io.done or io.fail of the commit and push phase).
THEOREM VerdictHolds == BatchSpec => []VerdictIsTrue
<1>1. BatchInv => VerdictIsTrue
  BY DEF BatchInv
<1> QED
  BY BatchInitInv, BatchInductive, <1>1, PTL DEF BatchSpec

-----------------------------------------------------------------------------
(* Why a repository ends: what every step of the run uses up.               *)

\* The retries and the escalation that are left, whatever their kind.
Left ==
  (2 - attempts["validation"]) + (1 - attempts["structural"])
    + (1 - attempts["race"]) + (1 - attempts["git"]) + (1 - attempts["network"])
    + (IF fallbackAttempted THEN 0 ELSE 3)

\* How far an attempt has still to go.
Rank ==
  [validate |-> 9, infer |-> 8, judge |-> 7, guard |-> 6, reset |-> 5, add |-> 4,
   commit |-> 4, push |-> 2, error |-> 1, end |-> 0]

\* The plans that have still to be added and committed.
InLoop ==
  IF pc \in {"add", "commit"}
  THEN 2 * (Len(Plans) - cursor) + (IF pc = "add" THEN 1 ELSE 0)
  ELSE 0

Measure == <<Left, Rank[pc], InLoop>>

\* The measure goes down in its lexicographic order, which is well-founded on
\* natural numbers.
Descends ==
  /\ {Left, Rank[pc], InLoop} \subseteq Nat
  /\ \/ Left' < Left
     \/ Left' = Left /\ Rank[pc]' < Rank[pc]
     \/ Left' = Left /\ Rank[pc]' = Rank[pc] /\ InLoop' < InLoop

\* The measure is made of natural numbers.
LEMMA MeasureType ==
  ASSUME TypeInv
  PROVE  Left \in 0 .. 9 /\ Rank[pc] \in 0 .. 9 /\ InLoop \in Nat
<1>1. \A k \in Kinds : attempts[k] \in 0 .. 2 /\ attempts[k] <= MaxAttempts[k]
  BY DEF TypeInv, TypeOK
<1>2. /\ attempts["validation"] \in 0 .. 2 /\ attempts["structural"] \in 0 .. 1
      /\ attempts["race"] \in 0 .. 1 /\ attempts["git"] \in 0 .. 1
      /\ attempts["network"] \in 0 .. 1
  BY <1>1 DEF Kinds, MaxAttempts
<1>3. Left \in 0 .. 9
  BY <1>2 DEF TypeInv, TypeOK, Left
<1>4. Rank[pc] \in 0 .. 9
  BY DEF TypeInv, TypeOK, Rank
<1>5. CASE pc \in {"add", "commit"}
  <2>1. Len(Plans) - cursor \in Nat
    BY <1>5, PublishConstants
       DEF TypeInv, LocalsInHand, Publishing, Plans, Proposals
  <2> QED
    BY <1>3, <1>4, <2>1 DEF InLoop
<1>6. CASE pc \notin {"add", "commit"}
  BY <1>3, <1>4, <1>6 DEF InLoop
<1> QED
  BY <1>5, <1>6

\* A retry uses up one of the attempts that are left.
LEMMA BumpDescends ==
  ASSUME TypeInv, NEW kind \in Kinds, attempts' = Bumped(kind),
         fallbackAttempted' = fallbackAttempted
  PROVE  Descends
<1>1. attempts \in [Kinds -> 0 .. 2]
  BY DEF TypeInv, TypeOK
<1>2. /\ attempts'[kind] = attempts[kind] + 1
      /\ \A k \in Kinds \ {kind} : attempts'[k] = attempts[k]
  BY <1>1 DEF Bumped
<1>3. \A k \in Kinds : attempts[k] \in 0 .. 2
  BY <1>1
<1>4. Left' < Left
  BY <1>2, <1>3 DEF Left, Kinds
<1> QED
  BY <1>4, MeasureType DEF Descends

\* So does the escalation, which gives two attempts back.
LEMMA FallbackDescends ==
  ASSUME TypeInv, JudgeFallback
  PROVE  Descends
<1>1. /\ \A k \in Kinds : attempts[k] \in 0 .. 2 /\ attempts[k] <= MaxAttempts[k]
      /\ attempts \in [Kinds -> 0 .. 2]
  BY DEF TypeInv, TypeOK
<1>2. /\ attempts["validation"] = 2 /\ ~fallbackAttempted /\ fallbackAttempted' = TRUE
      /\ attempts' = [attempts EXCEPT !["validation"] = 0]
  BY <1>1 DEF JudgeFallback, ShouldUseFallback, QueueRetry, MaxAttempts, Kinds
<1>3. /\ attempts'["validation"] = 0
      /\ \A k \in Kinds \ {"validation"} : attempts'[k] = attempts[k]
  BY <1>1, <1>2 DEF Kinds
<1>4. Left' < Left
  BY <1>1, <1>2, <1>3 DEF Left, Kinds
<1> QED
  BY <1>4, MeasureType DEF Descends

\* Within an attempt the run goes on to a later stage.
LEMMA StageDescends ==
  ASSUME TypeInv, UNCHANGED <<attempts, fallbackAttempted>>, Rank[pc'] < Rank[pc]
  PROVE  Descends
BY MeasureType DEF Descends, Left, Rank

\* Every step of the run uses something up; the owner of the repository gives
\* nothing back.
LEMMA StepDescends ==
  ASSUME TypeInv, [Next]_vars
  PROVE  (Run => Descends) /\ (Owner => UNCHANGED Measure)
<1>1. ASSUME Validation PROVE Descends
  <2>1. /\ pc = "validate" /\ pc' \in {"infer", "end"}
        /\ UNCHANGED <<attempts, fallbackAttempted>>
    BY <1>1 DEF Validation, Validated, Rejected
  <2> QED
    BY <2>1, StageDescends DEF Rank
<1>2. ASSUME LlmRejected \/ JudgeRetry PROVE Descends
  BY <1>2, BumpDescends DEF LlmRejected, JudgeRetry, QueueRetry, Kinds
<1>3. ASSUME Retry PROVE Descends
  <2>1. failure.kind \in Kinds
    BY <1>3 DEF Retry, TypeInv, LocalsInHand
  <2> QED
    BY <1>3, <2>1, BumpDescends DEF Retry, QueueRetry
<1>4. ASSUME LlmRejectedTooOften \/ LlmFails \/ JudgeFail \/ GiveUp \/ LlmEmpty
      PROVE  Descends
  <2>1. /\ pc \in {"infer", "judge", "error"} /\ pc' = "end"
        /\ UNCHANGED <<attempts, fallbackAttempted>>
    BY <1>4 DEF LlmRejectedTooOften, LlmFails, JudgeFail, GiveUp, LlmEmpty, FailRepo
  <2> QED
    BY <2>1, StageDescends DEF Rank
<1>5. ASSUME Accept \/ (\E p \in Proposals : LlmProposes(p)) PROVE Descends
  <2>1. /\ \/ pc = "judge" /\ pc' = "guard"
           \/ pc = "infer" /\ pc' = "judge"
        /\ UNCHANGED <<attempts, fallbackAttempted>>
    BY <1>5 DEF Accept, LlmProposes, stateVars
  <2> QED
    BY <2>1, StageDescends DEF Rank
<1>6. ASSUME \/ DuplicateFile \/ HashMismatch \/ GuardPasses \/ ResetIndex \/ GitFails
             \/ NonexistentFile \/ NothingToCommit \/ PartialCommit \/ CleanupFails
             \/ NoPush \/ Push \/ (\E transient \in BOOLEAN : PushFails(transient))
      PROVE  Descends
  <2>1. /\ \/ pc \in Publishing /\ pc' \in {"error", "end"}
           \/ pc = "guard" /\ pc' = "reset"
           \/ pc = "reset" /\ pc' = "add"
        /\ UNCHANGED <<attempts, fallbackAttempted>>
    BY <1>6 DEF DuplicateFile, HashMismatch, GuardPasses, ResetIndex, GitFails,
       NonexistentFile, NothingToCommit, PlanError, PartialCommit, CleanupFails, NoPush,
       Push, PushFails, Succeed, Throw, Publishing, stateVars
  <2> QED
    BY <2>1, StageDescends DEF Rank, Publishing
<1>7. ASSUME AddPlan PROVE Descends
  <2>1. /\ pc = "add" /\ pc' = "commit"
        /\ UNCHANGED <<attempts, fallbackAttempted, proposal, cursor>>
    BY <1>7 DEF AddPlan, stateVars, runVars
  <2>2. Len(Plans) - cursor \in Nat
    BY <2>1, PublishConstants DEF TypeInv, LocalsInHand, Publishing, Plans, Proposals
  <2>3. InLoop' < InLoop
    BY <2>1, <2>2 DEF InLoop, Plans
  <2>4. Left' = Left /\ Rank[pc]' = Rank[pc]
    BY <2>1 DEF Left, Rank
  <2> QED
    BY <2>3, <2>4, MeasureType DEF Descends
<1>8. ASSUME Commit PROVE Descends
  <2>1. /\ pc = "commit" /\ pc' = IF cursor < Len(Plans) THEN "add" ELSE "push"
        /\ cursor' = cursor + 1 /\ UNCHANGED <<attempts, fallbackAttempted, proposal>>
    BY <1>8 DEF Commit, stateVars
  <2>2. Len(Plans) - cursor \in Nat /\ cursor \in Nat /\ Len(Plans) \in Nat
    BY <2>1, PublishConstants DEF TypeInv, LocalsInHand, Publishing, Plans, Proposals
  <2>3. CASE cursor < Len(Plans)
    <3>1. InLoop' < InLoop
      BY <2>1, <2>2, <2>3 DEF InLoop, Plans
    <3>2. Left' = Left /\ Rank[pc]' = Rank[pc]
      BY <2>1, <2>3 DEF Left, Rank
    <3> QED
      BY <3>1, <3>2, MeasureType DEF Descends
  <2>4. CASE ~(cursor < Len(Plans))
    BY <2>1, <2>4, StageDescends DEF Rank
  <2> QED
    BY <2>3, <2>4
<1>9. Run => Descends
  BY <1>1, <1>2, <1>3, <1>4, <1>5, <1>6, <1>7, <1>8, FallbackDescends
     DEF Run, Validation, Answer, Judge, Publish, Settle
<1>10. ASSUME Owner PROVE UNCHANGED Measure
  BY <1>10 DEF Owner, Edit, Stage, stateVars, runVars, Measure, Left, InLoop, Plans
<1> QED
  BY <1>9, <1>10

\* Retries are not for ever: every step of the run, the retries and the escalation
\* included, lowers a measure of natural numbers that no edit or staging of the owner
\* raises.  What EveryRepoEnds adds, the fairness, is for the model checker.
THEOREM EveryStepDescends ==
  Spec => [][(Run => Descends) /\ (Owner => UNCHANGED Measure)]_vars
BY InitType, StepType, StepDescends, PTL DEF Spec

-----------------------------------------------------------------------------
(* The contract: one repository, and all of them.                           *)

\* A repository runs from its validation to its end, and is not pushed without
\* a commit.
LifeSoFar ==
  /\ pc = "validate" => status = "PENDING" /\ landed = <<>>
  /\ pc \notin {"validate", "end"} => status = "RUNNING"
  /\ pc = "push" => landed # <<>>

\* A step seen as one of the contract: nothing of the member changes ...
LEMMA OneLeft ==
  ASSUME TypeInv, status' = status, landed' = landed
  PROVE  UNCHANGED <<[m \in {It} |-> status], [m \in {It} |-> Len(landed)]>>
OBVIOUS

\* ... or its status and the number of its commits do, as the contract allows.
LEMMA OneMoves ==
  ASSUME TypeInv, TypeInv',
         \/ status = "PENDING" /\ status' \in {"RUNNING", "FAILED"} /\ landed' = landed
         \/ /\ status = "RUNNING" /\ status' # "PENDING"
            /\ Len(landed') >= Len(landed)
            /\ status' = "SUCCESS" => Len(landed') > 0
  PROVE  OneRun!Next
<1>1. /\ status' \in OneRun!Outcomes
      /\ Len(landed) \in Nat /\ Len(landed') \in Nat
  BY DEF TypeInv, TypeOK, OneRun!Outcomes
<1> QED
  BY <1>1 DEF OneRun!Next, OneRun!Validated, OneRun!Tried, OneRun!Outcomes, It

\* Every step of a repository's life is one of the contract, or is not seen in it.
LEMMA StepKeepsContract ==
  ASSUME TypeInv, LifeSoFar, [Next]_vars
  PROVE  /\ LifeSoFar'
         /\ [OneRun!Next]_(<<[m \in {It} |-> status], [m \in {It} |-> Len(landed)]>>)
<1>0. TypeInv'
  BY StepType
<1>a. /\ landed \in Seq([files : SUBSET Paths, changed : SUBSET (Files \X Nat)])
      /\ committedShas \subseteq DOMAIN landed /\ Len(landed) \in Nat
  BY DEF TypeInv, TypeOK
<1> DEFINE Kept == /\ LifeSoFar'
                   /\ [OneRun!Next]_(<<[m \in {It} |-> status],
                                       [m \in {It} |-> Len(landed)]>>)
<1>1. ASSUME status' = status, landed' = landed, LifeSoFar' PROVE Kept
  BY <1>1, OneLeft
<1>2. ASSUME pc \notin {"validate", "end"}, landed' = landed,
             \/ status' = status /\ pc' \notin {"validate", "end", "push"}
             \/ status' = "FAILED" /\ pc' = "end"
             \/ status' = "SUCCESS" /\ pc' = "end" /\ landed # <<>>
      PROVE  Kept
  <2>1. status = "RUNNING" /\ LifeSoFar'
    BY <1>2 DEF LifeSoFar
  <2>2. CASE status' = status
    BY <1>1, <1>2, <2>1, <2>2
  <2>3. CASE status' # status
    <3>1. status' = "SUCCESS" => Len(landed) > 0
      BY <1>2, <1>a, <2>3
    <3> QED
      BY <1>0, <1>2, <1>a, <2>1, <2>3, <3>1, OneMoves
  <2> QED
    BY <2>2, <2>3
<1>3. CASE Validation
  <2>1. /\ pc = "validate" /\ landed' = landed
        /\ \/ status' = "RUNNING" /\ pc' = "infer"
           \/ status' = "FAILED" /\ pc' = "end"
    BY <1>3 DEF Validation, Validated, Rejected, gitVars
  <2>2. LifeSoFar' /\ status = "PENDING"
    BY <2>1 DEF LifeSoFar
  <2> QED
    BY <1>0, <2>1, <2>2, OneMoves
<1>4. CASE LlmRejected \/ JudgeRetry \/ JudgeFallback \/ Retry
  BY <1>2, <1>4 DEF LlmRejected, JudgeRetry, JudgeFallback, Retry, QueueRetry
<1>5. CASE LlmRejectedTooOften \/ LlmFails \/ JudgeFail \/ GiveUp
  BY <1>2, <1>5 DEF LlmRejectedTooOften, LlmFails, JudgeFail, GiveUp, FailRepo, gitVars
<1>6. CASE LlmEmpty
  <2>1. landed # <<>>
    BY <1>6, <1>a DEF LlmEmpty
  <2> QED
    BY <1>2, <1>6, <2>1 DEF LlmEmpty, gitVars
<1>7. CASE Accept \/ (\E p \in Proposals : LlmProposes(p))
  BY <1>2, <1>7 DEF Accept, LlmProposes, gitVars, stateVars
<1>8. CASE \/ DuplicateFile \/ HashMismatch \/ GuardPasses \/ ResetIndex \/ GitFails
           \/ AddPlan \/ NonexistentFile \/ NothingToCommit \/ PartialCommit
           \/ CleanupFails \/ (\E transient \in BOOLEAN : PushFails(transient))
  BY <1>2, <1>8 DEF DuplicateFile, HashMismatch, GuardPasses, ResetIndex, GitFails,
     AddPlan, NonexistentFile, NothingToCommit, PlanError, PartialCommit, CleanupFails,
     PushFails, Throw, gitVars, stateVars
<1>9. CASE NoPush \/ Push
  <2>1. pc = "push" /\ landed' = landed /\ status' = "SUCCESS" /\ pc' = "end"
    BY <1>9 DEF NoPush, Push, Succeed
  <2>2. landed # <<>>
    BY <2>1 DEF LifeSoFar
  <2> QED
    BY <1>2, <2>1, <2>2
<1>10. CASE Commit
  <2>1. /\ pc = "commit" /\ pc' \in {"add", "push"} /\ status' = status
        /\ \E made : landed' = Append(landed, made)
    BY <1>10 DEF Commit, stateVars
  <2>2. Len(landed') = Len(landed) + 1 /\ landed' # <<>>
    BY <2>1, <1>a
  <2>3. LifeSoFar' /\ status = "RUNNING"
    BY <2>1, <2>2 DEF LifeSoFar
  <2> QED
    BY <1>0, <1>a, <2>1, <2>2, <2>3, OneMoves
<1>11. CASE Owner \/ UNCHANGED vars
  <2>1. UNCHANGED <<pc, status, landed>>
    BY <1>11 DEF Owner, Edit, Stage, vars, gitVars, stateVars
  <2>2. LifeSoFar'
    BY <2>1 DEF LifeSoFar
  <2> QED
    BY <1>1, <2>1, <2>2
<1> QED
  BY <1>3, <1>4, <1>5, <1>6, <1>7, <1>8, <1>9, <1>10, <1>11
     DEF Next, Run, Validation, Answer, Judge, Publish, Settle

\* The detailed life of one repository implements the contract: whatever fails and
\* is retried, it is decided once, and never for success without a commit.
THEOREM RepoKeepsContract == Spec => OneRun!Spec
<1>1. Init => LifeSoFar /\ OneRun!Init
  BY DEF Init, LifeSoFar, OneRun!Init
<1> QED
  BY <1>1, InitType, StepType, StepKeepsContract, PTL DEF Spec, OneRun!Spec

\* Where a run of all repositories still handles one, it is not decided, and none
\* is handled and waits for its retry as well.
Undecided ==
  /\ pending \cap retryJobs = {}
  /\ pending \subseteq Repositories /\ retryJobs \subseteq Repositories
  /\ phase # "publish" => retryJobs = {}
  /\ phase = "validation" => \A r \in pending : repoStatus[r] = "none"
  /\ phase = "publish" => \A r \in pending \cup retryJobs : repoStatus[r] = "RUNNING"

\* What the contract sees of the repositories.
Fates == <<[r \in Repositories |-> OutcomeOf(r)], commits>>

\* One repository moves as the contract allows, the others stay as they are.
LEMMA MemberMoves ==
  ASSUME BatchTypes, BatchTypes', NEW r \in Repositories,
         \A q \in Repositories \ {r} :
           repoStatus'[q] = repoStatus[q] /\ commits'[q] = commits[q],
         \/ repoStatus[r] \in {"none", "PENDING"} /\ commits'[r] = commits[r]
            /\ repoStatus'[r] \in {"PENDING", "FAILED"}
         \/ /\ repoStatus[r] = "RUNNING"
            /\ repoStatus'[r] \in {"RUNNING", "SUCCESS", "FAILED"}
            /\ commits'[r] >= commits[r]
            /\ repoStatus'[r] = "SUCCESS" => commits'[r] > 0
  PROVE  EachRun!Next
<1>1. /\ commits' \in [Repositories -> Nat]
      /\ [q \in Repositories |-> OutcomeOf(q)]' \in [Repositories -> EachRun!Outcomes]
  BY DEF BatchTypes, OutcomeOf, EachRun!Outcomes
<1>2. \A q \in Repositories \ {r} : EachRun!Left(q)
  BY DEF EachRun!Left, OutcomeOf
<1>3. EachRun!Validated(r) \/ EachRun!Tried(r) \/ EachRun!Left(r)
  BY DEF EachRun!Validated, EachRun!Tried, EachRun!Left, OutcomeOf
<1> QED
  BY <1>1, <1>2, <1>3 DEF EachRun!Next

\* Every step of the run is one of the contract, or is not seen in it.
LEMMA BatchStepKeepsContract ==
  ASSUME BatchInv, Undecided, [BatchNext]_batchVars
  PROVE  Undecided' /\ [EachRun!Next]_Fates
<1>0. BatchInv'
  BY BatchInductive
<1>a. BatchTypes /\ BatchTypes' /\ SuccessHasCommits /\ SuccessHasCommits' /\ NoneIsLost
  BY <1>0 DEF BatchInv
<1>b. ASSUME UNCHANGED <<repoStatus, commits>> PROVE UNCHANGED Fates
  BY <1>b DEF Fates, OutcomeOf
<1>1. CASE UNCHANGED batchVars
  BY <1>1, <1>b DEF batchVars, gitState, repoState, Undecided
<1>2. CASE EndDiscovery
  BY <1>2, <1>a, <1>b DEF EndDiscovery, Undecided, NoneIsLost, BatchTypes, gitState
<1>3. CASE DelegateBatch
  <2>1. /\ pending' = {r \in found : repoStatus[r] = "PENDING"}
        /\ repoStatus' = [r \in Repositories |->
                            IF r \in pending' THEN "RUNNING" ELSE repoStatus[r]]
        /\ phase = "validation" /\ phase' = "publish"
        /\ UNCHANGED <<commits, retryJobs>>
    BY <1>3 DEF DelegateBatch, gitState
  <2>2. Undecided'
    BY <1>a, <2>1 DEF Undecided, BatchTypes
  <2>3. /\ commits' \in [Repositories -> Nat]
        /\ [r \in Repositories |-> OutcomeOf(r)]' \in [Repositories -> EachRun!Outcomes]
    BY <1>a DEF BatchTypes, OutcomeOf, EachRun!Outcomes
  <2>4. \A r \in Repositories : EachRun!Validated(r) \/ EachRun!Left(r)
    BY <1>a, <2>1 DEF EachRun!Validated, EachRun!Left, OutcomeOf
  <2> QED
    BY <2>2, <2>3, <2>4 DEF EachRun!Next
<1>4. CASE DelegateRetries
  BY <1>4, <1>b DEF DelegateRetries, Undecided, gitState
<1>5. CASE NothingValid \/ ReportAll
  BY <1>5, <1>b DEF NothingValid, ReportAll, End, Undecided, gitState
<1>6. ASSUME NEW r \in Repositories, OwnerEdits(r) \/ Discover(r)
      PROVE  Undecided' /\ [EachRun!Next]_Fates
  BY <1>6, <1>b DEF OwnerEdits, Discover, Undecided, gitState, repoState
<1>7. ASSUME NEW r \in Repositories, Validate(r) \/ ValidationFails(r)
      PROVE  Undecided' /\ [EachRun!Next]_Fates
  <2>1. PICK st \in {"PENDING", "FAILED"} : repoStatus' = [repoStatus EXCEPT ![r] = st]
    BY <1>7 DEF Validate, ValidationFails
  <2>2. /\ phase = "validation" /\ r \in pending /\ pending' = pending \ {r}
        /\ UNCHANGED <<commits, phase, retryJobs>>
    BY <1>7 DEF Validate, ValidationFails, Validating, Deepest
  <2>3. Undecided'
    BY <1>a, <2>1, <2>2 DEF Undecided, BatchTypes
  <2>4. /\ repoStatus[r] = "none" /\ repoStatus'[r] = st /\ commits'[r] = commits[r]
        /\ \A q \in Repositories \ {r} :
             repoStatus'[q] = repoStatus[q] /\ commits'[q] = commits[q]
    BY <1>a, <2>1, <2>2 DEF Undecided, BatchTypes
  <2> QED
    BY <1>a, <2>3, <2>4, MemberMoves
<1>8. ASSUME NEW r \in Repositories,
             PublishSucceeds(r) \/ PublishGivesUp(r) \/ PublishIsRetried(r)
      PROVE  Undecided' /\ [EachRun!Next]_Fates
  <2>1. /\ phase = "publish" /\ r \in pending /\ pending' = pending \ {r}
        /\ phase' = phase
        /\ commits' = commits \/ commits' = [commits EXCEPT ![r] = @ + 1]
    BY <1>8 DEF PublishSucceeds, PublishGivesUp, PublishIsRetried, Handling, Deepest,
       Lands
  <2>2. \/ /\ \E st \in {"SUCCESS", "FAILED"} : repoStatus' = [repoStatus EXCEPT ![r] = st]
           /\ retryJobs' = retryJobs
        \/ repoStatus' = repoStatus /\ retryJobs' = retryJobs \cup {r}
    BY <1>8 DEF PublishSucceeds, PublishGivesUp, PublishIsRetried
  <2>3. repoStatus[r] = "RUNNING"
    BY <2>1 DEF Undecided
  <2>4. Undecided'
    BY <1>a, <2>1, <2>2, <2>3 DEF Undecided, BatchTypes
  <2>5. /\ \A q \in Repositories \ {r} :
             repoStatus'[q] = repoStatus[q] /\ commits'[q] = commits[q]
        /\ repoStatus'[r] \in {"RUNNING", "SUCCESS", "FAILED"}
        /\ commits'[r] >= commits[r]
    BY <1>a, <2>1, <2>2, <2>3 DEF BatchTypes
  <2>6. repoStatus'[r] = "SUCCESS" => commits'[r] > 0
    BY <1>a DEF BatchTypes, SuccessHasCommits
  <2> QED
    BY <1>a, <2>3, <2>4, <2>5, <2>6, MemberMoves
<1> QED
  BY <1>1, <1>2, <1>3, <1>4, <1>5, <1>6, <1>7, <1>8 DEF BatchNext

\* So does the run over all repositories, for every nesting of them and any number
\* of delegations: none that is decided is delegated or tried again.
THEOREM BatchKeepsContract == BatchSpec => EachRun!Spec
<1>1. BatchInit => Undecided /\ EachRun!Init
  BY DEF BatchInit, Undecided, EachRun!Init, OutcomeOf
<1>2. [EachRun!Next]_Fates =>
        [EachRun!Next]_(<<[r \in Repositories |-> OutcomeOf(r)], commits>>)
  BY DEF Fates
<1> QED
  BY <1>1, <1>2, BatchInitInv, BatchInductive, BatchStepKeepsContract, PTL
     DEF BatchSpec, EachRun!Spec

\* The two views agree: the life of one repository and the run over all of them,
\* which replaces that life by three outcomes, keep the same contract.
THEOREM BothKeepContract == Spec /\ BatchSpec => ContractKept
BY RepoKeepsContract, BatchKeepsContract DEF ContractKept
=============================================================================
