------------------------- MODULE StageHarnessProofs -------------------------
(***************************************************************************)
(* Proofs about StageHarness, for any number of runs on one directory,     *)
(* whatever they are given, whatever their stages do and return, and       *)
(* however long the processes they leave behind go on.                     *)
(***************************************************************************)
EXTENDS StageHarness, TLAPS

Places == {"preflight", "mkdir", "stage", "head", "hash", "clean", "validate",
           "assemble", "write", "rename", "done", "threw", "dead"}
Executions == {NoExecution} \cup [kind : {"returned"}, draft : Drafts]
                \cup {[kind |-> "threw"]}
Recorded == {"DELETED", "objectId", "plain", "executable", "symlink"}
Snapshots == [head : Nat \cup {Nothing},
              hash : [Tracked -> Recorded \ {Nothing}] \cup {Nothing},
              clean : BOOLEAN \cup {Nothing}]
Validations == [ok : BOOLEAN, refs : SUBSET Evidence, errors : SUBSET Severities]

\* The type invariant, with the locals of a run in full.
StageTypes ==
  /\ disk \in [Tracked -> Disks] /\ headDisk \in [Tracked -> Disks]
  /\ headSha \in Nat /\ unmerged \in BOOLEAN
  /\ linger \in 0 .. MaxLinger
  /\ owner \subseteq StageRuns /\ temps \subseteq StageRuns
  /\ files \subseteq Evidence \cup Streams
  /\ output.author \in StageRuns \cup {"none", "stage"}
  /\ stagePc \in [StageRuns -> Places]
  /\ runInput \in [StageRuns -> Inputs]
  /\ execution \in [StageRuns -> Executions]
  /\ snapshot \in [StageRuns -> Snapshots]
  /\ validation \in [StageRuns -> Validations]
  /\ DOMAIN assembled = StageRuns

\* The places of a run that has the directory.
Judged == {"assemble", "write", "rename", "done"}
AfterClean == {"validate"} \cup Judged
AfterHash == {"clean"} \cup AfterClean
AfterHead == {"hash"} \cup AfterHash
Inside == {"stage", "head"} \cup AfterHead

\* A run that is inside the directory, or has left something there, owns it.
Touches(r) ==
  stagePc[r] \in Inside \/ execution[r] # NoExecution \/ r \in temps \/ output.author = r

OwnsWhatItTouches ==
  \A r \in StageRuns :
    /\ \A s \in StageRuns : r \in owner /\ s \in owner => r = s
    /\ Touches(r) => owner = {r}

\* What was validated is what the stage returned.
ValidatedIsReturned ==
  \A r \in StageRuns :
    stagePc[r] \in Judged /\ validation[r].ok =>
      /\ execution[r].kind = "returned"
      /\ ValidDraft(execution[r].draft)
      /\ validation[r].refs = execution[r].draft.refs
      /\ validation[r].errors = execution[r].draft.errors

AssembledIsCandidate ==
  \A r \in StageRuns :
    stagePc[r] \in {"write", "rename", "done"} => assembled[r] = Candidate(r)

\* Unless a process was left behind, what a run has seen is still so.
SeenIsTrue ==
  linger = 0 =>
    \A r \in StageRuns :
      /\ stagePc[r] \in AfterHead => snapshot[r].head \in {headSha, Nothing}
      /\ stagePc[r] \in AfterHash => snapshot[r].hash \in {TrackedHash, Nothing}
      /\ stagePc[r] \in AfterClean => snapshot[r].clean \in {WorktreeClean, Nothing}
      /\ stagePc[r] \in Judged /\ validation[r].ok => validation[r].refs \subseteq files

OutputIsAssembled ==
  \A r \in StageRuns :
    /\ StageAt(r, "done") /\ linger = 0 => output.author = r
    /\ output.author = r => StageAt(r, "done") /\ output.says = assembled[r]

StageInv ==
  /\ StageTypes /\ OwnsWhatItTouches /\ ValidatedIsReturned
  /\ AssembledIsCandidate /\ SeenIsTrue /\ OutputIsAssembled

-----------------------------------------------------------------------------
\* No run has begun, and nobody owns the directory, at first.
LEMMA StageInitInv == StageInit => StageInv
<1> SUFFICES ASSUME StageInit PROVE StageInv
  OBVIOUS
<1>0. /\ NoExecution \in Executions /\ NoSnapshot \in Snapshots
      /\ NoValidation \in Validations
  BY DEF NoExecution, Executions, NoSnapshot, Snapshots, NoValidation, Validations
<1>1. /\ execution \in [StageRuns -> Executions] /\ snapshot \in [StageRuns -> Snapshots]
      /\ validation \in [StageRuns -> Validations]
  BY <1>0 DEF StageInit
<1>1a. /\ linger \in 0 .. MaxLinger /\ stagePc \in [StageRuns -> Places]
       /\ output.author \in {"none"} /\ DOMAIN assembled = StageRuns
  BY StageConstants DEF StageInit, Places, NoOutput
<1>1b. StageTypes
  BY <1>1, <1>1a DEF StageInit, StageTypes, Committable
<1>2. OwnsWhatItTouches
  BY StageConstants DEF StageInit, OwnsWhatItTouches, Touches, NoOutput, Inside, AfterHead,
     AfterHash, AfterClean, Judged
<1>3. ValidatedIsReturned /\ AssembledIsCandidate
  BY DEF StageInit, ValidatedIsReturned, AssembledIsCandidate, Judged
<1>4. SeenIsTrue /\ OutputIsAssembled
  BY StageConstants DEF StageInit, SeenIsTrue, OutputIsAssembled, NoOutput, StageAt,
     AfterHead, AfterHash, AfterClean, Judged
<1> QED
  BY <1>1b, <1>2, <1>3, <1>4 DEF StageInv

\* What TrackedHash records of a path is one of the things it can be.
LEMMA HashType == TrackedHash \in [Tracked -> Recorded \ {Nothing}] \cup {Nothing}
<1>1. \A p \in Tracked : TrackedRecord(p) \in Recorded \cup {Nothing}
  BY DEF TrackedRecord, RecordOf, Recorded
<1> QED
  BY <1>1 DEF TrackedHash

\* What the stage, or a process it left, does keeps the types of what it works on.
LEMMA WorkType ==
  ASSUME StageTypes, StageWorks \/ OneChange
  PROVE  /\ disk' \in [Tracked -> Disks] /\ headDisk' \in [Tracked -> Disks]
         /\ headSha' \in Nat /\ unmerged' \in BOOLEAN
         /\ files' \subseteq Evidence \cup Streams
         /\ output' \in {output, StagesOwn} /\ StagesOwn.author = "stage"
<1> USE DEF StageTypes, StagesOwn
<1>1. CASE StageWorks
  <2>1. disk' \in [Tracked -> Disks] /\ unmerged' \in BOOLEAN
    BY <1>1 DEF StageWorks
  <2>2. headDisk' \in [Tracked -> Disks] /\ headSha' \in Nat
    BY <1>1 DEF StageWorks, Committable
  <2>3. files' \subseteq Evidence \cup Streams /\ output' \in {output, StagesOwn}
    BY <1>1 DEF StageWorks
  <2> QED
    BY <2>1, <2>2, <2>3
<1>2. CASE /\ \E p \in Tracked, d \in Disks : disk' = [disk EXCEPT ![p] = d]
           /\ UNCHANGED <<headDisk, headSha, unmerged, files, output>>
  BY <1>2
<1>3. CASE /\ headDisk' \in Committable /\ headSha' = headSha + 1
           /\ UNCHANGED <<disk, unmerged, files, output>>
  BY <1>3 DEF Committable
<1>4. CASE /\ unmerged' = TRUE /\ UNCHANGED <<disk, headDisk, headSha, files, output>>
  BY <1>4
<1>5. CASE /\ \E f \in Evidence \cup Streams : files' \in {files \cup {f}, files \ {f}}
           /\ UNCHANGED <<repository, output>>
  BY <1>5 DEF repository
<1>6. CASE output' = StagesOwn /\ UNCHANGED <<repository, files>>
  BY <1>6 DEF repository
<1> QED
  BY <1>1, <1>2, <1>3, <1>4, <1>5, <1>6 DEF OneChange

\* Whatever a stage returns or throws has a verdict.
LEMMA ValidatedType ==
  ASSUME StageTypes, NEW e \in Executions
  PROVE  Validated(e) \in Validations
<1>1. CASE e.kind = "returned" /\ ValidDraft(e.draft)
  <2>1. /\ e.draft \in Drafts /\ e.draft.refs \subseteq Evidence
        /\ e.draft.errors \subseteq Severities /\ e.draft.metadata \in BOOLEAN
    BY <1>1, StageConstants DEF Executions, NoExecution
  <2>2. Resolved(e.draft.refs) \subseteq Evidence
    BY <2>1 DEF Resolved
  <2> QED
    BY <1>1, <2>1, <2>2 DEF Validated, Validations, MetadataBound, Unreserved
<1>2. CASE ~(e.kind = "returned" /\ ValidDraft(e.draft))
  BY <1>2 DEF Validated, Validations, NoValidation
<1> QED
  BY <1>1, <1>2

\* A step of a run changes no other run's locals.
LEMMA OthersStay ==
  ASSUME StageTypes, NEW r \in StageRuns, RunStage(r) \/ Linger(r) \/ StageKilled(r),
         NEW s \in StageRuns \ {r}
  PROVE  /\ stagePc'[s] = stagePc[s] /\ execution'[s] = execution[s]
         /\ snapshot'[s] = snapshot[s] /\ validation'[s] = validation[s]
         /\ assembled'[s] = assembled[s]
<1> USE DEF StageTypes, StageGoes, runLocals
<1>1. CASE Preflight(r) \/ CreateDirectory(r) \/ GitMissing(r)
  BY <1>1 DEF Preflight, CreateDirectory, GitMissing
<1>2. CASE InvokeStage(r)
  BY <1>2 DEF InvokeStage
<1>3. CASE CollectHead(r) \/ CollectTrackedHash(r) \/ CollectClean(r)
  BY <1>3 DEF CollectHead, CollectTrackedHash, CollectClean, Observe
<1>4. CASE Validate(r) \/ Assemble(r)
  BY <1>4 DEF Validate, Assemble
<1>5. CASE WriteTemporary(r) \/ RenameOutput(r) \/ PersistenceFails(r)
  BY <1>5 DEF WriteTemporary, RenameOutput, PersistenceFails
<1>6. CASE Linger(r) \/ StageKilled(r)
  BY <1>6 DEF Linger, StageKilled
<1> QED
  BY <1>1, <1>2, <1>3, <1>4, <1>5, <1>6 DEF RunStage

\* Each step of a run, and of the process a stage leaves behind, keeps the types.
LEMMA StageTypesKept ==
  ASSUME StageTypes, NEW r \in StageRuns, RunStage(r) \/ Linger(r) \/ StageKilled(r)
  PROVE  StageTypes'
<1>a. r \in StageRuns /\ stagePc \in [StageRuns -> Places]
  BY DEF StageTypes
<1>b. ASSUME NEW place \in Places, StageGoes(r, place)
      PROVE  stagePc' \in [StageRuns -> Places]
  BY <1>a, <1>b DEF StageGoes
<1>1. CASE Preflight(r) \/ GitMissing(r) \/ StageKilled(r)
  <2>1. /\ UNCHANGED <<repository, linger, directory, runLocals>>
        /\ stagePc' \in [StageRuns -> Places]
    BY <1>1, <1>b DEF Preflight, GitMissing, StageKilled, Places
  <2> QED
    BY <2>1 DEF StageTypes, repository, directory, runLocals
<1>2. CASE CreateDirectory(r)
  <2>1. /\ UNCHANGED <<repository, linger, files, output, temps, runLocals>>
        /\ stagePc' \in [StageRuns -> Places] /\ owner' \subseteq StageRuns
    BY <1>2, <1>b DEF CreateDirectory, Places, StageTypes
  <2> QED
    BY <2>1 DEF StageTypes, repository, runLocals
<1>3. CASE InvokeStage(r)
  <2>1. /\ stagePc' \in [StageRuns -> Places]
        /\ UNCHANGED <<linger, owner, temps, runInput, snapshot, validation, assembled>>
    BY <1>3, <1>b DEF InvokeStage, Places
  <2>2. execution' \in [StageRuns -> Executions]
    BY <1>3 DEF InvokeStage, StageTypes, Executions
  <2>3. StageWorks
    BY <1>3 DEF InvokeStage
  <2> QED
    BY <2>1, <2>2, <2>3, WorkType DEF StageTypes
<1>4. CASE Linger(r)
  <2>1. linger' \in 0 .. MaxLinger
    BY <1>4, StageConstants DEF Linger, StageTypes
  <2>2. UNCHANGED <<owner, temps, stagePc, runLocals>> /\ OneChange
    BY <1>4 DEF Linger
  <2> QED
    BY <2>1, <2>2, WorkType DEF StageTypes, runLocals
<1>5. CASE CollectHead(r) \/ CollectTrackedHash(r) \/ CollectClean(r)
  <2>1. /\ UNCHANGED <<repository, linger, directory, runInput, execution, validation,
                       assembled>>
        /\ stagePc' \in [StageRuns -> Places]
    BY <1>5, <1>b DEF CollectHead, CollectTrackedHash, CollectClean, Places
  <2>2. snapshot' \in [StageRuns -> Snapshots]
    <3>0. snapshot \in [StageRuns -> Snapshots] /\ headSha \in Nat
      BY DEF StageTypes
    <3>1. CASE CollectHead(r)
      <4>1. PICK value \in Nat \cup {Nothing} :
              snapshot' = [snapshot EXCEPT ![r] = [@ EXCEPT !["head"] = value]]
        BY <3>0, <3>1 DEF CollectHead, Observe
      <4> QED
        BY <3>0, <4>1 DEF Snapshots
    <3>2. CASE CollectTrackedHash(r)
      <4>1. PICK value \in [Tracked -> Recorded \ {Nothing}] \cup {Nothing} :
              snapshot' = [snapshot EXCEPT ![r] = [@ EXCEPT !["hash"] = value]]
        BY <3>2, HashType DEF CollectTrackedHash, Observe
      <4> QED
        BY <3>0, <4>1 DEF Snapshots
    <3>3. CASE CollectClean(r)
      <4>1. PICK value \in BOOLEAN \cup {Nothing} :
              snapshot' = [snapshot EXCEPT ![r] = [@ EXCEPT !["clean"] = value]]
        <5>1. WorktreeClean \in BOOLEAN
          BY DEF WorktreeClean
        <5> QED
          BY <3>3, <5>1 DEF CollectClean, Observe
      <4> QED
        BY <3>0, <4>1 DEF Snapshots
    <3> QED
      BY <1>5, <3>1, <3>2, <3>3
  <2> QED
    BY <2>1, <2>2 DEF StageTypes, repository, directory
<1>6. CASE Validate(r)
  <2>1. Validated(execution[r]) \in Validations
    BY ValidatedType DEF StageTypes
  <2>2. /\ validation' \in [StageRuns -> Validations]
        /\ UNCHANGED <<repository, linger, directory, runInput, execution, snapshot,
                       assembled>>
        /\ stagePc' \in [StageRuns -> Places]
    BY <1>6, <1>b, <2>1 DEF Validate, StageTypes, Places
  <2> QED
    BY <2>2 DEF StageTypes, repository, directory
<1>7. CASE Assemble(r)
  <2>1. /\ UNCHANGED <<repository, linger, directory, runInput, execution, snapshot,
                       validation>>
        /\ stagePc' \in [StageRuns -> Places] /\ DOMAIN assembled' = StageRuns
    BY <1>7, <1>b DEF Assemble, StageTypes, Places
  <2> QED
    BY <2>1 DEF StageTypes, repository, directory
<1>8. CASE WriteTemporary(r) \/ PersistenceFails(r)
  <2>1. /\ UNCHANGED <<repository, linger, owner, files, output, runLocals>>
        /\ stagePc' \in [StageRuns -> Places] /\ temps' \subseteq StageRuns
    BY <1>8, <1>b DEF WriteTemporary, PersistenceFails, Places, StageTypes
  <2> QED
    BY <2>1 DEF StageTypes, repository, runLocals
<1>9. CASE RenameOutput(r)
  <2>1. /\ UNCHANGED <<repository, linger, owner, files, runLocals>>
        /\ stagePc' \in [StageRuns -> Places] /\ temps' \subseteq StageRuns
        /\ output'.author = r
    BY <1>9, <1>b DEF RenameOutput, Places, StageTypes
  <2> QED
    BY <2>1 DEF StageTypes, repository, runLocals
<1> QED
  BY <1>1, <1>2, <1>3, <1>4, <1>5, <1>6, <1>7, <1>8, <1>9 DEF RunStage

\* A step that does not make the directory lets no run touch it that did not.
LEMMA NoNewTouch ==
  ASSUME StageTypes, NEW r \in StageRuns, RunStage(r) \/ Linger(r) \/ StageKilled(r),
         ~CreateDirectory(r), NEW s \in StageRuns, Touches(s)'
  PROVE  Touches(s) /\ UNCHANGED owner
<1> USE DEF Inside, AfterHead, AfterHash, AfterClean, Judged
<1>0. \A place : StageGoes(r, place) => stagePc'[r] = place
  BY DEF StageTypes, StageGoes
<1>1. UNCHANGED owner
  BY DEF RunStage, Preflight, InvokeStage, CollectHead, CollectTrackedHash, CollectClean,
     GitMissing, Validate, Assemble, WriteTemporary, RenameOutput, PersistenceFails, Linger,
     StageKilled, directory
<1>2. ASSUME s # r PROVE Touches(s)
  <2>1. stagePc'[s] = stagePc[s] /\ execution'[s] = execution[s]
    BY <1>2, OthersStay
  <2>2. temps' \subseteq temps \cup {r}
    BY DEF RunStage, Preflight, InvokeStage, CollectHead, CollectTrackedHash, CollectClean,
       GitMissing, Validate, Assemble, WriteTemporary, RenameOutput, PersistenceFails,
       Linger, StageKilled, directory
  <2>3. UNCHANGED output \/ output'.author \in {"stage", r}
    BY WorkType DEF RunStage, Preflight, InvokeStage, CollectHead, CollectTrackedHash,
       CollectClean, GitMissing, Validate, Assemble, WriteTemporary, RenameOutput,
       PersistenceFails, Linger, StageKilled, directory
  <2> QED
    BY <1>2, <2>1, <2>2, <2>3, StageConstants DEF Touches
<1>3. ASSUME s = r PROVE Touches(s)
  <2>1. CASE stagePc[r] \in Inside
    BY <1>3, <2>1 DEF Touches
  <2>2. CASE Preflight(r)
    BY <1>0, <1>3, <2>2 DEF Preflight, Touches, directory, runLocals
  <2>3. CASE StageKilled(r)
    BY <1>0, <1>3, <2>3 DEF StageKilled, Touches, directory, runLocals
  <2>4. CASE Linger(r)
    <3>1. UNCHANGED <<temps, stagePc, execution>>
      BY <2>4 DEF Linger, runLocals
    <3>2. UNCHANGED output \/ output'.author = "stage"
      BY <2>4, WorkType DEF Linger
    <3> QED
      BY <1>3, <3>1, <3>2, StageConstants DEF Touches
  <2> QED
    BY <2>1, <2>2, <2>3, <2>4
       DEF RunStage, StageAt, InvokeStage, CollectHead, CollectTrackedHash, CollectClean,
       GitMissing, Validate, Assemble, WriteTemporary, RenameOutput, PersistenceFails
<1> QED
  BY <1>1, <1>2, <1>3

\* A run enters the directory only by making it, and nobody makes it twice.
LEMMA OwnsKept ==
  ASSUME StageInv, NEW r \in StageRuns, RunStage(r) \/ Linger(r) \/ StageKilled(r)
  PROVE  OwnsWhatItTouches'
<1>0. StageTypes /\ OwnsWhatItTouches
  BY DEF StageInv
<1>1. CASE ~CreateDirectory(r)
  <2>1. UNCHANGED owner
    BY <1>1 DEF RunStage, Preflight, InvokeStage, CollectHead, CollectTrackedHash,
       CollectClean, GitMissing, Validate, Assemble, WriteTemporary, RenameOutput,
       PersistenceFails, Linger, StageKilled, directory
  <2>2. \A s \in StageRuns : Touches(s)' => Touches(s)
    BY <1>0, <1>1, NoNewTouch
  <2> QED
    BY <1>0, <2>1, <2>2 DEF OwnsWhatItTouches
<1>2. CASE CreateDirectory(r)
  <2>0. /\ UNCHANGED <<output, temps, execution>> /\ stagePc[r] = "mkdir"
        /\ \/ owner = {} /\ owner' = {r}
           \/ owner' = owner /\ stagePc'[r] = "threw"
    BY <1>0, <1>2 DEF CreateDirectory, runLocals, StageAt, StageGoes, StageTypes
  <2>1. \A s \in StageRuns \ {r} : Touches(s)' = Touches(s)
    BY <1>0, <2>0, OthersStay, <1>2 DEF Touches, RunStage
  <2>2. CASE owner = {} /\ owner' = {r}
    BY <1>0, <2>1, <2>2 DEF OwnsWhatItTouches
  <2>3. CASE owner' = owner /\ stagePc'[r] = "threw"
    <3>1. Touches(r)' => Touches(r)
      BY <2>0, <2>3 DEF Touches, Inside, AfterHead, AfterHash, AfterClean, Judged
    <3> QED
      BY <1>0, <2>1, <2>3, <3>1 DEF OwnsWhatItTouches
  <2> QED
    BY <2>0, <2>2, <2>3
<1> QED
  BY <1>1, <1>2

\* A run that goes from where nothing is judged yet to where it is has validated.
LEMMA JudgedBy ==
  ASSUME StageTypes, NEW r \in StageRuns, RunStage(r) \/ Linger(r) \/ StageKilled(r),
         stagePc'[r] \in Judged
  PROVE  \/ Validate(r)
         \/ /\ stagePc[r] \in Judged
            /\ UNCHANGED <<execution, snapshot, validation>>
            /\ \/ Assemble(r)
               \/ /\ UNCHANGED assembled
                  /\ stagePc'[r] # "assemble" => stagePc[r] # "assemble"
<1>0. \A place : StageGoes(r, place) => stagePc'[r] = place
  BY DEF StageTypes, StageGoes
<1>1. CASE Linger(r)
  BY <1>1 DEF Linger, runLocals, StageTypes, Judged
<1>2. CASE Assemble(r)
  BY <1>2 DEF Assemble, StageAt, Judged
<1>3. CASE WriteTemporary(r) \/ RenameOutput(r)
  BY <1>3 DEF WriteTemporary, RenameOutput, StageAt, runLocals, Judged
<1>4. CASE \/ Preflight(r) \/ CreateDirectory(r) \/ InvokeStage(r)
           \/ CollectHead(r) \/ CollectTrackedHash(r) \/ CollectClean(r) \/ GitMissing(r)
           \/ PersistenceFails(r) \/ StageKilled(r)
  BY <1>0, <1>4
     DEF Preflight, CreateDirectory, InvokeStage, CollectHead, CollectTrackedHash,
         CollectClean, GitMissing, PersistenceFails, StageKilled, Judged
<1> QED
  BY <1>1, <1>2, <1>3, <1>4 DEF RunStage

\* What was validated is not changed until it is published.
LEMMA ValidatedKept ==
  ASSUME StageInv, NEW r \in StageRuns, RunStage(r) \/ Linger(r) \/ StageKilled(r)
  PROVE  ValidatedIsReturned'
<1>0. StageTypes /\ ValidatedIsReturned
  BY DEF StageInv
<1>1. ASSUME NEW s \in StageRuns, stagePc'[s] \in Judged, validation'[s].ok
      PROVE  /\ execution'[s].kind = "returned"
             /\ ValidDraft(execution'[s].draft)
             /\ validation'[s].refs = execution'[s].draft.refs
             /\ validation'[s].errors = execution'[s].draft.errors
  <2>1. CASE s # r
    BY <1>0, <1>1, <2>1, OthersStay DEF ValidatedIsReturned
  <2>2. CASE s = r /\ Validate(r)
    <3>1. execution' = execution /\ validation'[r] = Validated(execution[r])
      BY <1>0, <2>2 DEF Validate, StageTypes
    <3>2. execution[r].kind = "returned" /\ ValidDraft(execution[r].draft)
      BY <1>1, <2>2, <3>1 DEF Validated, NoValidation
    <3> QED
      BY <1>1, <2>2, <3>1, <3>2 DEF Validated
  <2>3. CASE s = r /\ ~Validate(r)
    BY <1>0, <1>1, <2>3, JudgedBy DEF ValidatedIsReturned
  <2> QED
    BY <2>1, <2>2, <2>3
<1> QED
  BY <1>1 DEF ValidatedIsReturned

\* What a run that has validated would write satisfies the schema as it is.
LEMMA CandidateHolds ==
  ASSUME StageInv, NEW r \in StageRuns, stagePc[r] \in Judged
  PROVE  SchemaHolds(Candidate(r))
<1>0. /\ Candidate(r).status =
           (IF HarnessFails(r) THEN "errored" ELSE execution[r].draft.status)
      /\ Candidate(r).errors =
           validation[r].errors \cup (IF HarnessFails(r) THEN {"blocking"} ELSE {})
      /\ Candidate(r).snapshot = snapshot[r]
  BY DEF Candidate
<1>1. CASE HarnessFails(r)
  BY <1>0, <1>1 DEF SchemaHolds
<1>2. CASE ~HarnessFails(r)
  <2>1. /\ ValidDraft(execution[r].draft) /\ execution[r].kind = "returned"
        /\ validation[r].errors = execution[r].draft.errors
    BY <1>2 DEF HarnessFails, StageInv, ValidatedIsReturned
  <2>2. execution[r].draft.status \in Statuses
    BY <2>1, StageConstants DEF StageInv, StageTypes, Executions, NoExecution
  <2>3. \A field \in DOMAIN snapshot[r] : snapshot[r][field] # Nothing
    BY <1>2 DEF HarnessFails
  <2> QED
    BY <1>0, <1>2, <2>1, <2>2, <2>3 DEF SchemaHolds, ValidDraft, Statuses
<1> QED
  BY <1>1, <1>2

\* What was assembled is the candidate, normalised, until it is published.
LEMMA AssembledKept ==
  ASSUME StageInv, NEW r \in StageRuns, RunStage(r) \/ Linger(r) \/ StageKilled(r)
  PROVE  AssembledIsCandidate'
<1>0. StageTypes /\ AssembledIsCandidate
  BY DEF StageInv
<1>1. ASSUME NEW s \in StageRuns, stagePc'[s] \in {"write", "rename", "done"}
      PROVE  assembled'[s] = Candidate(s)'
  <2>0. ASSUME /\ execution'[s] = execution[s] /\ snapshot'[s] = snapshot[s]
               /\ validation'[s] = validation[s]
        PROVE  Candidate(s)' = Candidate(s)
    BY <2>0 DEF Candidate, HarnessFails
  <2>1. CASE s # r
    BY <1>0, <1>1, <2>0, <2>1, OthersStay DEF AssembledIsCandidate
  <2>2. CASE s = r /\ Validate(r)
    BY <1>0, <1>1, <2>2 DEF Validate, StageGoes, StageTypes
  <2>3. CASE s = r /\ Assemble(r)
    <3>1. SchemaHolds(Candidate(r))
      BY <2>3, CandidateHolds DEF Assemble, StageAt, Judged
    <3>2. assembled'[r] = Candidate(r)
      BY <1>0, <2>3, <3>1 DEF Assemble, StageTypes
    <3> QED
      BY <2>0, <2>3, <3>2 DEF Assemble
  <2>4. CASE s = r /\ ~Validate(r) /\ ~Assemble(r)
    <3>1. /\ stagePc[r] \in {"write", "rename", "done"}
          /\ UNCHANGED <<execution, snapshot, validation, assembled>>
      BY <1>0, <1>1, <2>4, JudgedBy DEF Judged
    <3> QED
      BY <1>0, <2>0, <2>4, <3>1 DEF AssembledIsCandidate
  <2> QED
    BY <2>1, <2>2, <2>3, <2>4
<1> QED
  BY <1>1 DEF AssembledIsCandidate

\* While no process is left behind, only a run that calls its stage, which no other
\* run is past, changes the repository or the evidence.
LEMMA QuietSteps ==
  ASSUME StageInv, NEW r \in StageRuns, RunStage(r) \/ Linger(r) \/ StageKilled(r),
         linger' = 0
  PROVE  /\ linger = 0 /\ ~Linger(r)
         /\ \/ UNCHANGED <<repository, files>>
            \/ InvokeStage(r) /\ owner = {r} /\ stagePc'[r] = "head"
<1>1. linger \in Nat /\ ~Linger(r)
  BY DEF StageInv, StageTypes, Linger
<1>2. UNCHANGED linger
  BY <1>1 DEF RunStage, Preflight, CreateDirectory, InvokeStage, CollectHead,
     CollectTrackedHash, CollectClean, GitMissing, Validate, Assemble, WriteTemporary,
     RenameOutput, PersistenceFails, StageKilled
<1>3. CASE InvokeStage(r)
  <2>1. owner = {r}
    BY <1>3 DEF InvokeStage, StageAt, StageInv, OwnsWhatItTouches, Touches, Inside
  <2>2. stagePc'[r] = "head"
    BY <1>3 DEF InvokeStage, StageGoes, StageInv, StageTypes
  <2> QED
    BY <1>1, <1>2, <1>3, <2>1, <2>2
<1>4. CASE ~InvokeStage(r)
  BY <1>1, <1>2, <1>4
     DEF RunStage, Preflight, CreateDirectory, CollectHead, CollectTrackedHash,
     CollectClean, GitMissing, Validate, Assemble, WriteTemporary, RenameOutput,
     PersistenceFails, StageKilled, directory
<1> QED
  BY <1>3, <1>4

\* While no process is left behind, what was read of the repository stays true.
LEMMA SeenKept ==
  ASSUME StageInv, NEW r \in StageRuns, RunStage(r) \/ Linger(r) \/ StageKilled(r)
  PROVE  SeenIsTrue'
<1>0. StageTypes /\ SeenIsTrue /\ \A place : StageGoes(r, place) => stagePc'[r] = place
  BY DEF StageInv, StageTypes, StageGoes
<1> DEFINE Seen(s) ==
      /\ stagePc[s] \in AfterHead => snapshot[s].head \in {headSha, Nothing}
      /\ stagePc[s] \in AfterHash => snapshot[s].hash \in {TrackedHash, Nothing}
      /\ stagePc[s] \in AfterClean => snapshot[s].clean \in {WorktreeClean, Nothing}
      /\ stagePc[s] \in Judged /\ validation[s].ok => validation[s].refs \subseteq files
<1>1. ASSUME linger' = 0, NEW s \in StageRuns, s # r PROVE Seen(s)'
  <2>1. /\ stagePc'[s] = stagePc[s] /\ snapshot'[s] = snapshot[s]
        /\ validation'[s] = validation[s]
    BY <1>0, <1>1, OthersStay
  <2>2. CASE UNCHANGED <<repository, files>>
    <3>1. /\ TrackedHash' = TrackedHash /\ WorktreeClean' = WorktreeClean
          /\ headSha' = headSha /\ files' = files
      BY <2>2 DEF repository, TrackedHash, TrackedRecord, WorktreeClean
    <3>2. Seen(s)
      BY <1>0, <1>1, QuietSteps DEF SeenIsTrue
    <3> QED
      BY <2>1, <3>1, <3>2
  <2>3. CASE owner = {r}
    <3>1. stagePc[s] \notin Inside
      BY <1>1, <2>3 DEF StageInv, OwnsWhatItTouches, Touches
    <3> QED
      BY <2>1, <3>1 DEF Inside, AfterHead, AfterHash, AfterClean
  <2> QED
    BY <1>1, <2>2, <2>3, QuietSteps
<1>2. ASSUME linger' = 0 PROVE Seen(r)'
  <2>0. ~Linger(r) /\ Seen(r)
    BY <1>0, <1>2, QuietSteps DEF SeenIsTrue
  <2>1. CASE CollectHead(r) \/ CollectTrackedHash(r) \/ CollectClean(r)
    <3>1. /\ TrackedHash' = TrackedHash /\ WorktreeClean' = WorktreeClean
          /\ headSha' = headSha /\ files' = files
      BY <2>1 DEF CollectHead, CollectTrackedHash, CollectClean, repository, directory,
                  TrackedHash, TrackedRecord, WorktreeClean
    <3>2. snapshot[r] \in Snapshots /\ r \in DOMAIN snapshot
      BY <1>0 DEF StageTypes
    <3>3. CASE CollectHead(r)
      <4>1. stagePc'[r] = "hash" /\ snapshot'[r].head \in {headSha, Nothing}
        BY <1>0, <3>2, <3>3 DEF CollectHead, Observe, Snapshots
      <4> QED
        BY <3>1, <4>1 DEF AfterHead, AfterHash, AfterClean, Judged
    <3>4. CASE CollectTrackedHash(r)
      <4>1. /\ stagePc'[r] = "clean" /\ stagePc[r] = "hash"
            /\ snapshot'[r].hash \in {TrackedHash, Nothing}
            /\ snapshot'[r].head = snapshot[r].head
        BY <1>0, <3>2, <3>4 DEF CollectTrackedHash, Observe, Snapshots, StageAt
      <4> QED
        BY <2>0, <3>1, <4>1 DEF AfterHead, AfterHash, AfterClean, Judged
    <3>5. CASE CollectClean(r)
      <4>1. /\ stagePc'[r] = "validate" /\ stagePc[r] = "clean"
            /\ snapshot'[r].clean \in {WorktreeClean, Nothing}
            /\ snapshot'[r].head = snapshot[r].head
            /\ snapshot'[r].hash = snapshot[r].hash
        BY <1>0, <3>2, <3>5 DEF CollectClean, Observe, Snapshots, StageAt
      <4> QED
        BY <2>0, <3>1, <4>1 DEF AfterHead, AfterHash, AfterClean, Judged
    <3> QED
      BY <2>1, <3>3, <3>4, <3>5
  <2>2. CASE Validate(r) \/ Assemble(r) \/ WriteTemporary(r) \/ RenameOutput(r)
    <3>1. /\ TrackedHash' = TrackedHash /\ WorktreeClean' = WorktreeClean
          /\ headSha' = headSha /\ files' = files /\ snapshot' = snapshot
      BY <2>2 DEF Validate, Assemble, WriteTemporary, RenameOutput, repository, directory,
                  runLocals, TrackedHash, TrackedRecord, WorktreeClean
    <3>2. stagePc[r] \in AfterClean
      BY <2>2 DEF Validate, Assemble, WriteTemporary, RenameOutput, StageAt, AfterClean,
                  Judged
    <3>3. stagePc'[r] \in Judged /\ validation'[r].ok => validation'[r].refs \subseteq files
      <4>1. CASE Validate(r)
        <5>1. validation'[r] = Validated(execution[r])
          BY <1>0, <4>1 DEF Validate, StageTypes
        <5> QED
          BY <5>1 DEF Validated, Resolved, NoValidation
      <4>2. CASE ~Validate(r)
        <5>1. validation' = validation /\ stagePc[r] \in Judged
          BY <2>2, <4>2 DEF Assemble, WriteTemporary, RenameOutput, StageAt, Judged,
                            runLocals
        <5> QED
          BY <2>0, <5>1
      <4> QED
        BY <4>1, <4>2
    <3> QED
      BY <2>0, <3>1, <3>2, <3>3 DEF AfterHead, AfterHash, AfterClean
  <2>3. CASE \/ Preflight(r) \/ CreateDirectory(r) \/ InvokeStage(r) \/ GitMissing(r)
             \/ PersistenceFails(r) \/ StageKilled(r)
    <3>1. stagePc'[r] \in {"mkdir", "stage", "head", "threw", "dead"}
      BY <1>0, <2>3
         DEF Preflight, CreateDirectory, InvokeStage, GitMissing, PersistenceFails,
             StageKilled
    <3> QED
      BY <3>1 DEF AfterHead, AfterHash, AfterClean, Judged
  <2> QED
    BY <2>0, <2>1, <2>2, <2>3 DEF RunStage
<1> QED
  BY <1>1, <1>2 DEF SeenIsTrue

\* The output is replaced only by a run that owns the directory, whole.
LEMMA OutputKept ==
  ASSUME StageInv, NEW r \in StageRuns, RunStage(r) \/ Linger(r) \/ StageKilled(r)
  PROVE  OutputIsAssembled'
<1>0. /\ StageTypes /\ OwnsWhatItTouches /\ OutputIsAssembled
      /\ \A place : StageGoes(r, place) => stagePc'[r] = place
  BY DEF StageInv, StageTypes, StageGoes
<1>1. CASE RenameOutput(r)
  <2>1. /\ output'.author = r /\ output'.says = assembled'[r] /\ stagePc'[r] = "done"
        /\ owner = {r}
    BY <1>0, <1>1
       DEF RenameOutput, runLocals, StageAt, OwnsWhatItTouches, Touches, Inside, AfterHead,
           AfterHash, AfterClean, Judged
  <2>2. ASSUME NEW s \in StageRuns, s # r PROVE stagePc'[s] # "done"
    <3>1. stagePc[s] \notin Inside
      BY <1>0, <2>1, <2>2 DEF OwnsWhatItTouches, Touches
    <3> QED
      BY <1>0, <2>2, <3>1, OthersStay
         DEF Inside, AfterHead, AfterHash, AfterClean, Judged
  <2> QED
    BY <2>1, <2>2 DEF OutputIsAssembled, StageAt
<1>2. CASE ~RenameOutput(r)
  <2>1. UNCHANGED output \/ output'.author = "stage"
    BY <1>0, <1>2, WorkType
       DEF RunStage, Preflight, CreateDirectory, InvokeStage, CollectHead,
           CollectTrackedHash, CollectClean, GitMissing, Validate, Assemble,
           WriteTemporary, PersistenceFails, Linger, StageKilled, directory
  <2>2. linger' = 0 /\ ~InvokeStage(r) => UNCHANGED output
    <3>1. linger' = 0 => ~Linger(r)
      BY QuietSteps
    <3> QED
      BY <1>2, <3>1
         DEF RunStage, Preflight, CreateDirectory, CollectHead,
             CollectTrackedHash, CollectClean, GitMissing, Validate, Assemble,
             WriteTemporary, PersistenceFails, StageKilled, directory
  <2>3. \A s \in StageRuns : stagePc'[s] = "done" => stagePc[s] = "done"
    <3>1. stagePc'[r] = "done" => stagePc[r] = "done"
      BY <1>0, <1>2
         DEF RunStage, Preflight, CreateDirectory, InvokeStage, CollectHead,
             CollectTrackedHash, CollectClean, GitMissing, Validate, Assemble,
             WriteTemporary, PersistenceFails, Linger, StageKilled
    <3> QED
      BY <1>0, <3>1, OthersStay
  <2>4. \A s \in StageRuns : stagePc[s] = "done" =>
          stagePc'[s] = "done" /\ assembled'[s] = assembled[s]
    <3>1. stagePc[r] = "done" => stagePc'[r] = "done" /\ assembled'[r] = assembled[r]
      BY <1>2
         DEF RunStage, Preflight, CreateDirectory, InvokeStage, CollectHead,
             CollectTrackedHash, CollectClean, GitMissing, Validate, Assemble,
             WriteTemporary, PersistenceFails, Linger, StageKilled, StageAt, runLocals
    <3> QED
      BY <1>0, <3>1, OthersStay
  <2>5. ASSUME NEW s \in StageRuns, stagePc'[s] = "done", linger' = 0
        PROVE  output'.author = s
    <3>1. linger = 0 /\ stagePc[s] = "done" /\ output.author = s
      BY <1>0, <2>3, <2>5, QuietSteps DEF OutputIsAssembled, StageAt
    <3>2. ~InvokeStage(r)
      <4>1. owner = {s}
        BY <1>0, <3>1 DEF OwnsWhatItTouches, Touches
      <4>2. InvokeStage(r) => owner = {r} /\ stagePc[r] = "stage"
        BY <1>0 DEF InvokeStage, StageAt, OwnsWhatItTouches, Touches, Inside
      <4> QED
        BY <3>1, <4>1, <4>2
    <3> QED
      BY <2>2, <2>5, <3>1, <3>2
  <2>6. ASSUME NEW s \in StageRuns, output'.author = s
        PROVE  stagePc'[s] = "done" /\ output'.says = assembled'[s]
    <3>1. UNCHANGED output
      BY <2>1, <2>6, StageConstants
    <3>2. output.author = s /\ stagePc[s] = "done" /\ output.says = assembled[s]
      BY <1>0, <2>6, <3>1 DEF OutputIsAssembled, StageAt
    <3> QED
      BY <2>4, <3>1, <3>2
  <2> QED
    BY <2>5, <2>6 DEF OutputIsAssembled, StageAt
<1> QED
  BY <1>1, <1>2

\* All steps of all runs keep the invariant.
LEMMA StageInductive == StageInv /\ [StageNext]_stageVars => StageInv'
<1> SUFFICES ASSUME StageInv, [StageNext]_stageVars PROVE StageInv'
  OBVIOUS
<1>1. CASE UNCHANGED stageVars
  <2>1. /\ UNCHANGED <<disk, headDisk, headSha, unmerged, linger, owner, files, output,
                       temps, stagePc, runInput, execution, snapshot, validation,
                       assembled>>
    BY <1>1 DEF stageVars, repository, directory, runLocals
  <2>2. StageTypes' /\ OwnsWhatItTouches' /\ ValidatedIsReturned' /\ OutputIsAssembled'
    BY <2>1
       DEF StageInv, StageTypes, OwnsWhatItTouches, Touches, ValidatedIsReturned,
           OutputIsAssembled, StageAt
  <2>3. AssembledIsCandidate' /\ SeenIsTrue'
    BY <2>1
       DEF StageInv, AssembledIsCandidate, Candidate, HarnessFails, SeenIsTrue,
           TrackedHash, TrackedRecord, WorktreeClean
  <2> QED
    BY <2>2, <2>3 DEF StageInv
<1>2. ASSUME NEW r \in StageRuns, RunStage(r) \/ Linger(r) \/ StageKilled(r)
      PROVE  StageInv'
  BY <1>2, StageTypesKept, OwnsKept, ValidatedKept, AssembledKept, SeenKept, OutputKept
     DEF StageInv
<1> QED
  BY <1>1, <1>2 DEF StageNext

\* The invariant of the harness holds always: its types, one owner of the directory,
\* and how what was seen, validated, assembled and written hangs together.
THEOREM StageInvariant == StageSpec => []StageInv
BY StageInitInv, StageInductive, PTL DEF StageSpec

\* Every variable of the harness keeps its type, the cap on what a process left behind
\* may do included.
THEOREM StageTypesHold == StageSpec => []StageTypeOK
<1>1. StageInv => StageTypeOK
  <2> SUFFICES ASSUME StageTypes PROVE StageTypeOK
    BY DEF StageInv
  <2>1. \A r \in StageRuns : execution[r] \in Executions /\ snapshot[r] \in Snapshots
    BY DEF StageTypes
  <2>2. \A e \in Executions : e.kind \in {"none", "returned", "threw"}
    BY DEF Executions, NoExecution
  <2>3. \A s \in Snapshots :
          /\ s.clean \in BOOLEAN \cup {Nothing}
          /\ s.hash = Nothing \/ \A p \in Tracked : s.hash[p] # Nothing
    <3> SUFFICES ASSUME NEW s \in Snapshots
                 PROVE  /\ s.clean \in BOOLEAN \cup {Nothing}
                        /\ s.hash = Nothing \/ \A p \in Tracked : s.hash[p] # Nothing
      OBVIOUS
    <3>1. /\ s.clean \in BOOLEAN \cup {Nothing}
          /\ s.hash \in [Tracked -> Recorded \ {Nothing}] \cup {Nothing}
      BY DEF Snapshots
    <3> QED
      BY <3>1
  <2>4. \A r \in StageRuns :
          /\ execution[r].kind \in {"none", "returned", "threw"}
          /\ snapshot[r].clean \in BOOLEAN \cup {Nothing}
          /\ snapshot[r].hash = Nothing \/ \A p \in Tracked : snapshot[r].hash[p] # Nothing
    BY <2>1, <2>2, <2>3
  <2>5. /\ disk \in [Tracked -> Disks] /\ headDisk \in [Tracked -> Disks]
        /\ headSha \in Nat /\ unmerged \in BOOLEAN /\ linger \in 0 .. MaxLinger
        /\ owner \subseteq StageRuns /\ temps \subseteq StageRuns
        /\ files \subseteq Evidence \cup Streams
        /\ output.author \in StageRuns \cup {"none", "stage"}
        /\ stagePc \in [StageRuns -> Places] /\ runInput \in [StageRuns -> Inputs]
    BY DEF StageTypes
  <2>6. \A r \in StageRuns : validation[r].refs \subseteq Evidence
    BY DEF StageTypes, Validations
  <2> QED
    BY <2>4, <2>5, <2>6, Zenon DEF StageTypeOK, Places
<1> QED
  BY <1>1, StageInvariant, PTL

\* Two runs on one artefact directory never both work in it
\* (modules/persistence.ts:12-21): mkdir lets one through, whatever each saw before.
THEOREM DirectoryHasOneOwner == StageSpec => []OneOwner
<1>1. StageInv => OneOwner
  BY DEF StageInv, OwnsWhatItTouches, Touches, OneOwner
<1> QED
  BY <1>1, StageInvariant, PTL

\* What is in output.json under a run's name is whole and what the stage returned
\* and the harness saw, wherever runs failed or were killed.
THEOREM OutputIsTrue == StageSpec => []OutputTellsTruth
<1>1. StageInv => OutputTellsTruth
  <2> SUFFICES ASSUME StageInv, NEW r \in StageRuns
               PROVE
    /\ StageAt(r, "assemble") => SchemaHolds(Candidate(r))
    /\ StageAt(r, "done") /\ linger = 0 => output.author = r
    /\ output.author = r =>
       /\ StageAt(r, "done")
       /\ output.says = assembled[r]
       /\ output.says.status # "errored" =>
            /\ execution[r].kind = "returned"
            /\ ValidDraft(execution[r].draft)
            /\ output.says.status = execution[r].draft.status
            /\ linger = 0 =>
                 /\ output.says.snapshot =
                      [head |-> headSha, hash |-> TrackedHash, clean |-> WorktreeClean]
                 /\ output.says.refs = execution[r].draft.refs
                 /\ output.says.refs \subseteq files
    BY DEF OutputTellsTruth
  <2>1. StageAt(r, "assemble") => SchemaHolds(Candidate(r))
    BY CandidateHolds DEF StageAt, Judged
  <2>2. ASSUME output.author = r, output.says.status # "errored"
        PROVE  /\ execution[r].kind = "returned"
               /\ ValidDraft(execution[r].draft)
               /\ output.says.status = execution[r].draft.status
               /\ linger = 0 =>
                    /\ output.says.snapshot =
                         [head |-> headSha, hash |-> TrackedHash, clean |-> WorktreeClean]
                    /\ output.says.refs = execution[r].draft.refs
                    /\ output.says.refs \subseteq files
    <3>1. stagePc[r] = "done" /\ output.says = Candidate(r)
      BY <2>2 DEF StageInv, OutputIsAssembled, AssembledIsCandidate, StageAt
    <3>2. /\ output.says.status =
               (IF HarnessFails(r) THEN "errored" ELSE execution[r].draft.status)
          /\ output.says.refs = validation[r].refs
          /\ output.says.snapshot = snapshot[r]
      BY <3>1 DEF Candidate
    <3>3. ~HarnessFails(r)
      BY <2>2, <3>2
    <3>4. /\ execution[r].kind = "returned" /\ ValidDraft(execution[r].draft)
          /\ validation[r].ok /\ validation[r].refs = execution[r].draft.refs
      BY <3>1, <3>3 DEF HarnessFails, StageInv, ValidatedIsReturned, Judged
    <3>5. snapshot[r] \in Snapshots /\ DOMAIN snapshot[r] = {"head", "hash", "clean"}
      BY DEF StageInv, StageTypes, Snapshots
    <3>6. /\ snapshot[r].head # Nothing /\ snapshot[r].hash # Nothing
          /\ snapshot[r].clean # Nothing
      BY <3>3, <3>5 DEF HarnessFails
    <3>7. ASSUME linger = 0
          PROVE  /\ snapshot[r] =
                      [head |-> headSha, hash |-> TrackedHash, clean |-> WorktreeClean]
                 /\ validation[r].refs \subseteq files
      <4>1. /\ snapshot[r].head = headSha /\ snapshot[r].hash = TrackedHash
            /\ snapshot[r].clean = WorktreeClean /\ validation[r].refs \subseteq files
        BY <3>1, <3>4, <3>6, <3>7
           DEF StageInv, SeenIsTrue, AfterHead, AfterHash, AfterClean, Judged
      <4> QED
        BY <3>5, <4>1 DEF Snapshots
    <3> QED
      BY <3>2, <3>3, <3>4, <3>7
  <2> QED
    BY <2>1, <2>2 DEF StageInv, OutputIsAssembled
<1> QED
  BY <1>1, StageInvariant, PTL

-----------------------------------------------------------------------------
(* What no step takes back, and that runs run down.                         *)

\* The directory keeps its owner.  What a run has published is replaced only in a
\* step of a process its stage left behind, by what that process writes; and
\* nobody publishes but the owner, where no run has published before.
PublishedStays ==
  /\ owner # {} => owner' = owner
  /\ output.author \in StageRuns /\ output' # output =>
       /\ \E r \in StageRuns : Linger(r)
       /\ linger' = linger + 1 /\ output' = StagesOwn
  /\ \A r \in StageRuns :
       output'.author = r /\ output # output' =>
         /\ owner = {r} /\ StageAt(r, "rename")
         /\ output.author \notin StageRuns
         /\ output'.says = Candidate(r)

\* While a run is inside the directory no run has published there.
LEMMA InsideFirst ==
  ASSUME StageInv, NEW r \in StageRuns, stagePc[r] \in Inside \ {"done"}
  PROVE  owner = {r} /\ output.author \notin StageRuns
<1>1. owner = {r}
  BY DEF StageInv, OwnsWhatItTouches, Touches
<1>2. \A s \in StageRuns : output.author = s => s = r
  BY <1>1 DEF StageInv, OwnsWhatItTouches, Touches
<1>3. output.author # r
  BY DEF StageInv, OutputIsAssembled, StageAt
<1> QED
  BY <1>1, <1>2, <1>3

\* persistence.ts:12 and :46: an output.json that a run has published is replaced
\* by no run - neither a second one nor the one that wrote it -, by no failure and
\* by no death.  A process that the stage left running is not held off: it alone
\* can replace it, and then what is there is that process's.
THEOREM OnlyLeftoversReplaceOutput == StageSpec => [][PublishedStays]_stageVars
<1>1. ASSUME StageInv, [StageNext]_stageVars PROVE [PublishedStays]_stageVars
  <2> SUFFICES ASSUME NEW r \in StageRuns, RunStage(r) \/ Linger(r) \/ StageKilled(r)
               PROVE  PublishedStays
    BY <1>1 DEF StageNext
  <2>1. CASE output' = output /\ owner' = owner
    BY <2>1 DEF PublishedStays
  <2>2. CASE CreateDirectory(r)
    BY <2>2 DEF CreateDirectory, PublishedStays
  <2>3. CASE InvokeStage(r)
    <3>1. /\ owner' = owner /\ linger' = linger
          /\ output' = output \/ output' = StagesOwn
      BY <2>3 DEF InvokeStage, StageWorks
    <3>2. output.author \notin StageRuns
      BY <1>1, <2>3, InsideFirst DEF InvokeStage, StageAt, Inside
    <3> QED
      BY <3>1, <3>2, StageConstants DEF PublishedStays, StagesOwn
  <2>4. CASE Linger(r)
    <3>1. /\ owner' = owner /\ linger' = linger + 1
          /\ output' = output \/ output' = StagesOwn
      BY <1>1, <2>4, WorkType DEF Linger, StageInv
    <3> QED
      BY <2>4, <3>1, StageConstants DEF PublishedStays, StagesOwn
  <2>5. CASE RenameOutput(r)
    <3>1. /\ stagePc[r] = "rename" /\ owner' = owner
          /\ output' = [author |-> r, says |-> assembled[r]]
      BY <2>5 DEF RenameOutput, StageAt
    <3>2. owner = {r} /\ output.author \notin StageRuns
      BY <1>1, <3>1, InsideFirst DEF Inside, AfterHead, AfterHash, AfterClean, Judged
    <3>3. assembled[r] = Candidate(r)
      BY <1>1, <3>1 DEF StageInv, AssembledIsCandidate
    <3> QED
      BY <3>1, <3>2, <3>3 DEF PublishedStays, StageAt
  <2>6. CASE \/ Preflight(r) \/ CollectHead(r) \/ CollectTrackedHash(r) \/ CollectClean(r)
             \/ GitMissing(r) \/ Validate(r) \/ Assemble(r) \/ WriteTemporary(r)
             \/ PersistenceFails(r) \/ StageKilled(r)
    BY <2>1, <2>6 DEF Preflight, CollectHead, CollectTrackedHash, CollectClean, GitMissing,
       Validate, Assemble, WriteTemporary, PersistenceFails, StageKilled, directory
  <2> QED
    BY <2>2, <2>3, <2>4, <2>5, <2>6 DEF RunStage
<1> QED
  BY <1>1, StageInvariant, PTL DEF StageSpec

\* How far a run has yet to go.
PlacesLeft ==
  [place \in Places |->
     CASE place = "preflight" -> 10 [] place = "mkdir"    -> 9 [] place = "stage"  -> 8
       [] place = "head"      -> 7  [] place = "hash"     -> 6 [] place = "clean"  -> 5
       [] place = "validate"  -> 4  [] place = "assemble" -> 3 [] place = "write"  -> 2
       [] place = "rename"    -> 1  [] place \in {"done", "threw", "dead"} -> 0]

\* A step of a run, and its death, brings that run nearer to its end and moves no
\* other; what a stage left behind moves none, and its steps are bounded.
RunsRunDown ==
  \A r \in StageRuns :
    /\ RunStage(r) \/ StageKilled(r) =>
         /\ PlacesLeft[stagePc'[r]] < PlacesLeft[stagePc[r]]
         /\ \A s \in StageRuns \ {r} : stagePc'[s] = stagePc[s]
    /\ Linger(r) => stagePc' = stagePc /\ linger' = linger + 1 /\ linger' <= MaxLinger

\* runStage has no loop and waits for no other run (run-stage.ts): each step of a run
\* lowers its own measure.  What StageRunsEnd adds is that Node carries on.
THEOREM StageRunsDescend == StageSpec => [][RunsRunDown]_stageVars
<1>1. ASSUME StageInv PROVE RunsRunDown
  <2>0. stagePc \in [StageRuns -> Places] /\ linger \in 0 .. MaxLinger
    BY <1>1 DEF StageInv, StageTypes
  <2>1. ASSUME NEW r \in StageRuns, NEW to \in Places, StageGoes(r, to),
               PlacesLeft[to] < PlacesLeft[stagePc[r]]
        PROVE  /\ PlacesLeft[stagePc'[r]] < PlacesLeft[stagePc[r]]
               /\ \A s \in StageRuns \ {r} : stagePc'[s] = stagePc[s]
    BY <2>0, <2>1 DEF StageGoes
  <2>2. ASSUME NEW r \in StageRuns, RunStage(r) \/ StageKilled(r)
        PROVE  \E to \in Places : StageGoes(r, to) /\ PlacesLeft[to] < PlacesLeft[stagePc[r]]
    <3>1. CASE Preflight(r) \/ CreateDirectory(r) \/ InvokeStage(r) \/ GitMissing(r)
      BY <3>1 DEF Preflight, CreateDirectory, InvokeStage, GitMissing, StageAt, PlacesLeft,
         Places
    <3>2. CASE CollectHead(r) \/ CollectTrackedHash(r) \/ CollectClean(r) \/ Validate(r)
               \/ Assemble(r)
      BY <3>2 DEF CollectHead, CollectTrackedHash, CollectClean, Validate, Assemble,
         StageAt, PlacesLeft, Places
    <3>3. CASE WriteTemporary(r) \/ RenameOutput(r) \/ PersistenceFails(r)
      BY <3>3 DEF WriteTemporary, RenameOutput, PersistenceFails, StageAt, PlacesLeft, Places
    <3>4. CASE StageKilled(r)
      BY <2>0, <3>4 DEF StageKilled, PlacesLeft, Places
    <3> QED
      BY <2>2, <3>1, <3>2, <3>3, <3>4 DEF RunStage
  <2>3. ASSUME NEW r \in StageRuns, Linger(r)
        PROVE  stagePc' = stagePc /\ linger' = linger + 1 /\ linger' <= MaxLinger
    BY <2>0, <2>3, StageConstants DEF Linger
  <2> QED
    BY <2>1, <2>2, <2>3 DEF RunsRunDown
<1> QED
  BY <1>1, StageInvariant, PTL
=============================================================================
