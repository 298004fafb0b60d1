---------------------------- MODULE MCRunProcess ----------------------------
(* Small instances of the two components that own process groups: a call of *)
(* runProcess with a child that SIGTERM ends and a heir that ignores        *)
(* SIGTERM and keeps the pipes open; a launch of the pipeline.  The one     *)
(* that is not chosen never begins.                                         *)
EXTENDS RunProcess, Pipeline

CONSTANT heir1

MCHeirs == {heir1}

VARIABLE chosen

MCVars == <<chosen, vars, pipelineVars>>

MCInit ==
  /\ chosen \in {"call", "launch"}
  /\ Init
  /\ PipelineInit
  /\ chosen = "launch" => timer = "unset" /\ abort = "absent"

MCNext ==
  \/ chosen = "call" /\ Next /\ UNCHANGED <<chosen, pipelineVars>>
  \/ chosen = "launch" /\ PipelineNext /\ UNCHANGED <<chosen, vars>>

MCSpec == MCInit /\ [][MCNext]_MCVars /\ Fairness /\ PipelineFairness
=============================================================================
