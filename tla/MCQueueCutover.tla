--------------------------- MODULE MCQueueCutover ---------------------------
(* The fault-free instance of the order queue, and an instance of the       *)
(* preflight of the cutover, which reads what such runs leave on disk: two  *)
(* Turnlock runs and one order.  The one that is not chosen never begins.   *)
EXTENDS OrderQueue, Cutover

NoAdversity == {}

VARIABLE chosen

MCVars == <<chosen, vars, cutVars>>

MCInit == chosen \in {"queue", "cutover"} /\ Init /\ CutInit

MCNext ==
  \/ chosen = "queue" /\ Next /\ UNCHANGED <<chosen, cutVars>>
  \/ chosen = "cutover" /\ CutNext /\ UNCHANGED <<chosen, vars>>

MCSpec == MCInit /\ [][MCNext]_MCVars /\ Fairness
=============================================================================
