---------------------------- MODULE StageHarness ----------------------------
(***************************************************************************)
(* runStage of skills/go: several runs are given the same artefact         *)
(* directory; each checks its input, claims the directory, calls the       *)
(* stage, takes a snapshot of the repository, validates what the stage     *)
(* says, and publishes output.json by a rename.  A stage may leave a       *)
(* process behind that goes on changing the repository and the directory,  *)
(* and a run may be killed at any step.                                    *)
(*                                                                         *)
(* The tracked content of the repository is what TrackedRecord sees of     *)
(* each path; HEAD is a version number.                                    *)
(***************************************************************************)
EXTENDS Naturals, FiniteSets

CONSTANTS
  StageRuns,      \* runs on the same artefact directory
  Inputs,         \* inputs they may be given
  IndexModes,     \* index mode of each tracked path: a function
  Disks,          \* what may be on disk at a tracked path
  Evidence,       \* files a stage may write and refer to
  Streams,        \* reserved files beside output.json: stdout.txt, stderr.txt
  Drafts,         \* what a stage may return
  Nothing,        \* the null of a snapshot; no value of a snapshot
  MaxLinger       \* bound on the steps of the process a stage left behind

Tracked == DOMAIN IndexModes
Severities == {"blocking", "minor"}
Statuses == {"passed", "failed", "skipped"}

ASSUME StageConstants ==
  /\ StageRuns \cap {"none", "stage"} = {}
  /\ Evidence \cap Streams = {}
  /\ \A i \in Inputs : /\ i.identifiers \in BOOLEAN
                       /\ i.repositoryRoot \in BOOLEAN
                       /\ i.baseIsCommit \in BOOLEAN
                       /\ i.outside \in BOOLEAN
                       /\ i.plainCheckout \in BOOLEAN
  /\ IndexModes \in [Tracked -> {"100", "120000", "160000", "040000"}]
  /\ Drafts \subseteq [status : Statuses, errors : SUBSET Severities,
                        refs : SUBSET Evidence, parses : BOOLEAN, metadata : BOOLEAN]
  /\ MaxLinger \in Nat

VARIABLES
  disk, headDisk, headSha,  \* the worktree, the content of HEAD, HEAD
  unmerged,                 \* the index has unmerged entries
  linger,                   \* steps of the process left behind
  owner,                    \* the runs whose mkdir succeeded
  files,                    \* what else is in the directory
  output,                   \* output.json: whose it is and what it says
  temps,                    \* runs with a temporary file in the directory
  stagePc, runInput, execution, snapshot, validation, assembled

repository == <<disk, headDisk, headSha, unmerged>>
directory == <<owner, files, output, temps>>
runLocals == <<runInput, execution, snapshot, validation, assembled>>
stageVars == <<repository, linger, directory, stagePc, runLocals>>

NoExecution == [kind |-> "none"]
NoSnapshot == [head |-> Nothing, hash |-> Nothing, clean |-> Nothing]
NoValidation == [ok |-> FALSE, refs |-> {}, errors |-> {}]
NoOutput == [author |-> "none", says |-> Nothing]

StagesOwn == [author |-> "stage", says |-> Nothing]

\* buildTrackedRecord: what is recorded of a path, Nothing if it cannot be.
RecordOf(p, content) ==
  CASE content = "absent" -> "DELETED"
    [] content # "absent" /\ IndexModes[p] = "160000" -> "objectId"
    [] IndexModes[p] = "100" /\ content \in {"plain", "executable"} -> content
    [] IndexModes[p] = "120000" /\ content = "symlink" -> content
    [] OTHER -> Nothing

TrackedRecord(p) == RecordOf(p, disk[p])

\* Commits that add or remove a path, or change its mode, are left out.
Committable ==
  {c \in [Tracked -> Disks] :
     \A p \in Tracked : RecordOf(p, c[p]) \notin {Nothing, "DELETED"}}

StageInit ==
  /\ headDisk \in Committable
  /\ disk = headDisk
  /\ headSha = 1
  /\ unmerged = FALSE
  /\ linger = 0
  /\ owner = {} /\ files = {} /\ temps = {}
  /\ output = NoOutput
  /\ stagePc = [r \in StageRuns |-> "preflight"]
  /\ runInput \in [StageRuns -> Inputs]
  /\ execution = [r \in StageRuns |-> NoExecution]
  /\ snapshot = [r \in StageRuns |-> NoSnapshot]
  /\ validation = [r \in StageRuns |-> NoValidation]
  /\ assembled = [r \in StageRuns |-> Nothing]

StageAt(r, place) == stagePc[r] = place
StageGoes(r, place) == stagePc' = [stagePc EXCEPT ![r] = place]

-----------------------------------------------------------------------------
(* Before the stage.                                                        *)

\* runInputPreflight, the check that the directory is absent included.
Accepted(i) ==
  i.identifiers /\ i.repositoryRoot /\ i.baseIsCommit /\ i.outside /\ i.plainCheckout

Preflight(r) ==
  /\ StageAt(r, "preflight")
  /\ StageGoes(r, IF Accepted(runInput[r]) /\ owner = {} THEN "mkdir" ELSE "threw")
  /\ UNCHANGED <<repository, linger, directory, runLocals>>

\* Mutant of CreateDirectory: mkdir -p.
CreateDirectoryAnyway(r) ==
  /\ StageAt(r, "mkdir")
  /\ owner' = owner \cup {r}
  /\ StageGoes(r, "stage")
  /\ UNCHANGED <<repository, linger, files, output, temps, runLocals>>

\* Mutant of CreateDirectory: the second run waits for the directory to go.
CreateDirectoryWaiting(r) ==
  /\ StageAt(r, "mkdir")
  /\ owner = {}
  /\ owner' = {r}
  /\ StageGoes(r, "stage")
  /\ UNCHANGED <<repository, linger, files, output, temps, runLocals>>

\* mkdir, not recursive, fails if another run came first.
CreateDirectory(r) ==
  /\ StageAt(r, "mkdir")
  /\ \/ /\ owner = {}
        /\ owner' = {r}
        /\ StageGoes(r, "stage")
     \/ /\ StageGoes(r, "threw")
        /\ UNCHANGED owner
  /\ UNCHANGED <<repository, linger, files, output, temps, runLocals>>

-----------------------------------------------------------------------------
(* The stage, and what it leaves behind.                                    *)

\* All that a stage may have done to the repository and in the directory when
\* it returns, in whatever order: nobody else looks before that.
StageWorks ==
  /\ disk' \in [Tracked -> Disks]
  /\ \/ UNCHANGED <<headDisk, headSha>>
     \/ headDisk' \in Committable /\ headSha' = headSha + 1
  /\ unmerged' \in {unmerged, TRUE}
  /\ files' \in SUBSET (Evidence \cup Streams)
  /\ output' \in {output, StagesOwn}

\* The stage works, and returns a draft or throws.
InvokeStage(r) ==
  /\ StageAt(r, "stage")
  /\ StageWorks
  /\ \E e \in [kind : {"returned"}, draft : Drafts] \cup {[kind |-> "threw"]} :
       execution' = [execution EXCEPT ![r] = e]
  /\ StageGoes(r, "head")
  /\ UNCHANGED <<linger, owner, temps, runInput, snapshot, validation, assembled>>

\* What a process left behind changes at one time.
OneChange ==
  \/ /\ \E p \in Tracked, d \in Disks : disk' = [disk EXCEPT ![p] = d]
     /\ UNCHANGED <<headDisk, headSha, unmerged, files, output>>
  \/ /\ headDisk' \in Committable /\ headSha' = headSha + 1
     /\ UNCHANGED <<disk, unmerged, files, output>>
  \/ /\ unmerged' = TRUE
     /\ UNCHANGED <<disk, headDisk, headSha, files, output>>
  \/ /\ \E f \in Evidence \cup Streams : files' \in {files \cup {f}, files \ {f}}
     /\ UNCHANGED <<repository, output>>
  \/ /\ output' = StagesOwn
     /\ UNCHANGED <<repository, files>>

\* Once the run has thrown or died nobody looks any more.
Linger(r) ==
  /\ stagePc[r] \notin {"preflight", "mkdir", "stage", "threw", "dead"}
  /\ linger < MaxLinger
  /\ OneChange
  /\ linger' = linger + 1
  /\ UNCHANGED <<owner, temps, stagePc, runLocals>>

-----------------------------------------------------------------------------
(* collectCanonicalState: three git calls, each of which may fail.          *)

Observe(r, field, seen) ==
  \E value \in {seen, Nothing} :
    snapshot' = [snapshot EXCEPT ![r] = [@ EXCEPT ![field] = value]]

CollectHead(r) ==
  /\ StageAt(r, "head")
  /\ Observe(r, "head", headSha)
  /\ StageGoes(r, "hash")
  /\ UNCHANGED <<repository, linger, directory, runInput, execution, validation,
                 assembled>>

TrackedHash ==
  IF unmerged \/ \E p \in Tracked : TrackedRecord(p) = Nothing THEN Nothing
  ELSE [p \in Tracked |-> TrackedRecord(p)]

CollectTrackedHash(r) ==
  /\ StageAt(r, "hash")
  /\ Observe(r, "hash", TrackedHash)
  /\ StageGoes(r, "clean")
  /\ UNCHANGED <<repository, linger, directory, runInput, execution, validation,
                 assembled>>

\* An untracked file, and an index that differs from both, are left out.
WorktreeClean == disk = headDisk /\ ~unmerged

CollectClean(r) ==
  /\ StageAt(r, "clean")
  /\ Observe(r, "clean", WorktreeClean)
  /\ StageGoes(r, "validate")
  /\ UNCHANGED <<repository, linger, directory, runInput, execution, validation,
                 assembled>>

\* git cannot be started: the rejection is not caught.
GitMissing(r) ==
  /\ stagePc[r] \in {"head", "hash", "clean"}
  /\ StageGoes(r, "threw")
  /\ UNCHANGED <<repository, linger, directory, runLocals>>

-----------------------------------------------------------------------------
(* Validation and assembly.                                                 *)

\* stageDraftOutputSchema.
ValidDraft(d) ==
  /\ d.parses
  /\ d.status \in {"passed", "skipped"} => d.errors = {}
  /\ d.status = "failed" => d.errors # {}

\* validateEvidenceRef: a regular file inside the directory.
Resolved(refs) == refs \cap files

\* sanitizeStageErrors: what the errors refer to is retained, well formed.
MetadataBound(d) == d.metadata

\* validateReservedFileErrors: the stage has written none of the reserved files.
Unreserved == output = NoOutput /\ files \cap Streams = {}

\* Mutant of Validated: references that cannot be resolved are dropped.
ValidatedLeniently(e) ==
  IF e.kind = "returned" /\ ValidDraft(e.draft)
  THEN [ok |-> MetadataBound(e.draft) /\ Unreserved,
        refs |-> e.draft.refs, errors |-> e.draft.errors]
  ELSE NoValidation

\* validateDraftAndEvidence; a stage that threw has only the reserved files
\* checked.  What is not ok has a blocking error, or the stage threw.
Validated(e) ==
  IF e.kind = "returned" /\ ValidDraft(e.draft)
  THEN [ok |-> /\ e.draft.refs = Resolved(e.draft.refs)
               /\ MetadataBound(e.draft)
               /\ Unreserved,
        refs |-> Resolved(e.draft.refs),
        errors |-> e.draft.errors]
  ELSE NoValidation

Validate(r) ==
  /\ StageAt(r, "validate")
  /\ validation' = [validation EXCEPT ![r] = Validated(execution[r])]
  /\ StageGoes(r, "assemble")
  /\ UNCHANGED <<repository, linger, directory, runInput, execution, snapshot,
                 assembled>>

HarnessFails(r) ==
  \/ execution[r].kind = "threw"
  \/ ~validation[r].ok
  \/ \E field \in DOMAIN snapshot[r] : snapshot[r][field] = Nothing

Candidate(r) ==
  [status |-> IF HarnessFails(r) THEN "errored" ELSE execution[r].draft.status,
   errors |-> validation[r].errors \cup IF HarnessFails(r) THEN {"blocking"} ELSE {},
   refs |-> validation[r].refs,
   snapshot |-> snapshot[r]]

\* stageOutputSchema
SchemaHolds(o) ==
  /\ o.status \in {"passed", "skipped"} => o.errors = {}
  /\ o.status = "failed" => o.errors # {}
  /\ o.status = "errored" => "blocking" \in o.errors
  /\ o.status # "errored" =>
       \A field \in DOMAIN o.snapshot : o.snapshot[field] # Nothing

Normalized(o) == [o EXCEPT !.status = "errored", !.errors = @ \cup {"blocking"}]

Assemble(r) ==
  /\ StageAt(r, "assemble")
  /\ assembled' = [assembled EXCEPT ![r] =
                     IF SchemaHolds(Candidate(r)) THEN Candidate(r)
                     ELSE Normalized(Candidate(r))]
  /\ StageGoes(r, "write")
  /\ UNCHANGED <<repository, linger, directory, runInput, execution, snapshot,
                 validation>>

-----------------------------------------------------------------------------
(* writeCanonicalOutputAtomically.                                          *)

WriteTemporary(r) ==
  /\ StageAt(r, "write")
  /\ temps' = temps \cup {r}
  /\ StageGoes(r, "rename")
  /\ UNCHANGED <<repository, linger, owner, files, output, runLocals>>

RenameOutput(r) ==
  /\ StageAt(r, "rename")
  /\ temps' = temps \ {r}
  /\ output' = [author |-> r, says |-> assembled[r]]
  /\ StageGoes(r, "done")
  /\ UNCHANGED <<repository, linger, owner, files, runLocals>>

\* Writing or renaming fails: the temporary file is removed, if it can be.
PersistenceFails(r) ==
  /\ stagePc[r] \in {"write", "rename"}
  /\ temps' \in {temps, temps \ {r}}
  /\ StageGoes(r, "threw")
  /\ UNCHANGED <<repository, linger, owner, files, output, runLocals>>

\* The process that called runStage dies; before it has the directory that is
\* as if it had thrown.
StageKilled(r) ==
  /\ stagePc[r] \notin {"preflight", "mkdir", "done", "threw", "dead"}
  /\ StageGoes(r, "dead")
  /\ UNCHANGED <<repository, linger, directory, runLocals>>

-----------------------------------------------------------------------------
RunStage(r) ==
  \/ Preflight(r) \/ CreateDirectory(r) \/ InvokeStage(r)
  \/ CollectHead(r) \/ CollectTrackedHash(r) \/ CollectClean(r) \/ GitMissing(r)
  \/ Validate(r) \/ Assemble(r)
  \/ WriteTemporary(r) \/ RenameOutput(r) \/ PersistenceFails(r)

StageNext == \E r \in StageRuns : RunStage(r) \/ Linger(r) \/ StageKilled(r)

StageSpec == StageInit /\ [][StageNext]_stageVars

\* Nobody has to call runStage; once it is called, Node runs it, and the stage
\* returns or throws.
StageFairness ==
  \A r \in StageRuns : WF_stageVars(stagePc[r] # "preflight" /\ RunStage(r))

-----------------------------------------------------------------------------
(* Properties.                                                              *)

\* Every variable keeps its type.
StageTypeOK ==
  /\ disk \in [Tracked -> Disks] /\ headDisk \in [Tracked -> Disks]
  /\ headSha \in Nat /\ unmerged \in BOOLEAN
  /\ linger \in 0 .. MaxLinger
  /\ owner \subseteq StageRuns /\ temps \subseteq StageRuns
  /\ files \subseteq Evidence \cup Streams
  /\ output.author \in StageRuns \cup {"none", "stage"}
  /\ stagePc \in [StageRuns -> {"preflight", "mkdir", "stage", "head", "hash",
                                "clean", "validate", "assemble", "write",
                                "rename", "done", "threw", "dead"}]
  /\ runInput \in [StageRuns -> Inputs]
  /\ \A r \in StageRuns :
       /\ execution[r].kind \in {"none", "returned", "threw"}
       /\ snapshot[r].clean \in BOOLEAN \cup {Nothing}
       /\ snapshot[r].hash = Nothing \/ \A p \in Tracked : snapshot[r].hash[p] # Nothing
       /\ validation[r].refs \subseteq Evidence

\* Two runs that both found the directory absent do not both work in it: one
\* stage at most is called, and only its run writes there.
OneOwner ==
  \A r, s \in StageRuns :
    /\ r \in owner /\ s \in owner => r = s
    /\ (execution[r] # NoExecution \/ r \in temps \/ output.author = r) =>
         owner = {r}

\* output.json is complete and true, whatever failed and whoever was killed:
\* what is there under a run's name is what that run assembled, and it ended
\* well; if it is not "errored" the stage returned a valid draft, and - unless
\* it left a process behind - the snapshot is the repository's and the files
\* it refers to are there.  The candidate never needs to be normalised.
OutputTellsTruth ==
  \A r \in StageRuns :
    /\ StageAt(r, "assemble") => SchemaHolds(Candidate(r))
    /\ StageAt(r, "done") /\ linger = 0 => output.author = r
    /\ output.author = r =>
       /\ StageAt(r, "done")
       /\ output.says = assembled[r]
       /\ output.says.status # "errored" =>
            /\ execution[r].kind = "returned"
            /\ ValidDraft(execution[r].draft)
            /\ output.says.status = execution[r].draft.status
            /\ linger = 0 =>
                 /\ output.says.snapshot =
                      [head |-> headSha, hash |-> TrackedHash, clean |-> WorktreeClean]
                 /\ output.says.refs = execution[r].draft.refs
                 /\ output.says.refs \subseteq files

\* Every run that has begun returns, throws or is killed: none waits for
\* another, or for the process its stage left behind.
StageRunsEnd ==
  \A r \in StageRuns :
    stagePc[r] # "preflight" ~> stagePc[r] \in {"done", "threw", "dead"}
=============================================================================
