--------------------------- MODULE MCRepoPublish ---------------------------
(* Small instances of RepoPublish: two files, and the answers that tell the *)
(* branches of the publisher apart - two commits, a path that does not      *)
(* exist after a commit that succeeds, a file in two plans - each worded    *)
(* well or badly, so that no two answers in a row need be the same.  The    *)
(* owner works beside a run that pushes; beside the other configurations    *)
(* only the run moves.                                                      *)
EXTENDS RepoPublish

CONSTANTS f1, f2

MCFiles == {f1, f2}

MCPlanLists == {<<{f1}, {f2}>>, <<{f1}, {Ghost}>>, <<{f1}, {f1, f2}>>}

MCWordings == {"feat", "oops"}
MCValidWordings == {"feat"}

AllConfigs ==
  [autoPush : BOOLEAN, remote : BOOLEAN, fallback : BOOLEAN]
PushConfig == {[autoPush |-> TRUE, remote |-> TRUE, fallback |-> FALSE]}

OwnerNext == Run \/ (config \in PushConfig /\ Owner)
=============================================================================
