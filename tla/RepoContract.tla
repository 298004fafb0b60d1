---------------------------- MODULE RepoContract ----------------------------
(***************************************************************************)
(* The two views of the commit-and-push phase side by side.  RepoPublish   *)
(* follows one repository through every error and retry; RepoBatch follows *)
(* all of them and replaces that life by three outcomes.  Both keep the    *)
(* contract of RepositoryRuns, which is all that the verdict of a run uses.*)
(***************************************************************************)
EXTENDS RepoPublish, RepoBatch

\* The repository of RepoPublish, as the one member of a run.
It == "it"

OneRun ==
  INSTANCE RepositoryRuns
  WITH Members <- {It}, outcome <- [m \in {It} |-> status],
       made <- [m \in {It} |-> Len(landed)]

\* The status that state.repos has for a repository; one that is not there has
\* yet to be validated.
OutcomeOf(r) == IF repoStatus[r] = "none" THEN "PENDING" ELSE repoStatus[r]

EachRun ==
  INSTANCE RepositoryRuns
  WITH Members <- Repositories, outcome <- [r \in Repositories |-> OutcomeOf(r)],
       made <- commits

\* A repository is decided once, and for success only on a commit, whatever is
\* retried: the detailed life of one repository implements the contract, and so
\* does a run over all of them, in which decided ones are not tried again.
ContractKept == OneRun!Spec /\ EachRun!Spec
=============================================================================
