--------------------------- MODULE RepositoryRuns ---------------------------
(***************************************************************************)
(* What a run of skills/git-commits-push promises of every repository it   *)
(* handles (state.ts, RepoState.status; README.md, "How it works"), seen   *)
(* from outside: the repository is decided once, not before it has been    *)
(* tried, its commits only grow in number and only while it is tried, and  *)
(* it is a success only with a commit.  How often it is tried, and what    *)
(* happens in between, is left open.                                       *)
(***************************************************************************)
EXTENDS Naturals

CONSTANT Members

VARIABLES
  outcome,   \* [Members -> Outcomes]
  made       \* [Members -> Nat], the commits of the run in each repository

Outcomes == {"PENDING", "RUNNING", "SUCCESS", "FAILED"}

Init ==
  /\ outcome = [m \in Members |-> "PENDING"]
  /\ made = [m \in Members |-> 0]

\* Its validation succeeds or fails.
Validated(m) ==
  /\ outcome[m] = "PENDING" /\ outcome'[m] \in {"RUNNING", "FAILED"}
  /\ made'[m] = made[m]

\* It is tried: commits land, or do not, and the attempt may be the last.
Tried(m) ==
  /\ outcome[m] = "RUNNING" /\ outcome'[m] # "PENDING"
  /\ made'[m] >= made[m]
  /\ outcome'[m] = "SUCCESS" => made'[m] > 0

Left(m) == outcome'[m] = outcome[m] /\ made'[m] = made[m]

\* A batch moves several repositories at once.
Next ==
  /\ outcome' \in [Members -> Outcomes] /\ made' \in [Members -> Nat]
  /\ \A m \in Members : Validated(m) \/ Tried(m) \/ Left(m)

Spec == Init /\ [][Next]_<<outcome, made>>
=============================================================================
