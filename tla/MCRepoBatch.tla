---------------------------- MODULE MCRepoBatch ----------------------------
(* The instance of RepoPublish with the owner at work, and an instance of   *)
(* the whole run: a repository, its submodule and a submodule of that.  The *)
(* one that is not chosen never begins.  Without autoPush nothing looks for *)
(* a remote, so that there is one then makes no difference.                 *)
EXTENDS MCRepoPublish, RepoContract

MCRepositories == {<<"app">>, <<"app", "lib">>, <<"app", "lib", "dep">>}

VARIABLE chosen

BatchMCVars == <<chosen, vars, batchVars>>

Idle ==
  \/ /\ chosen = "one" /\ \A r \in MCRepositories : worktree[r] = 0 /\ onBranch[r]
     /\ config.autoPush \/ ~config.remote
  \/ chosen = "all" /\ config \in PushConfig /\ work = [f \in MCFiles |-> 1]

BatchMCInit == chosen \in {"one", "all"} /\ Init /\ BatchInit /\ Idle

BatchMCNext ==
  \/ chosen = "one" /\ OwnerNext /\ UNCHANGED <<chosen, batchVars>>
  \/ chosen = "all" /\ BatchNext /\ UNCHANGED <<chosen, vars>>

BatchMCSpec == BatchMCInit /\ [][BatchMCNext]_BatchMCVars /\ WF_vars(Run)
=============================================================================
