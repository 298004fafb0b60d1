--------------------------- MODULE LoopCleanProofs ---------------------------
(***************************************************************************)
(* Proofs about LoopClean, for every set of paths, of findings and of      *)
(* inits, every ceiling on the iterations, and any number of edits by      *)
(* others.                                                                 *)
(***************************************************************************)
EXTENDS LoopClean, TLAPS

Baselines == [head : Nat, index : Nat]
Iterations == 0 .. MaxIterations - 1
Outcomes == Actions \cup {"none", "CONTINUE"}

\* The type invariant, with the records in full.
LoopTypes ==
  /\ work \in [LoopPaths -> Nat] /\ base \in [LoopPaths -> Nat]
  /\ head \in Nat \ {0} /\ index \in Nat
  /\ touches \in 0 .. MaxTouches
  /\ initPc \in [LoopInits -> {"start", "index", "publish", "claim", "claimed", "refused"}]
  /\ capture \in [LoopInits -> Baselines] /\ marker \in Baselines
  /\ registry \subseteq Findings
  /\ loopPc \in LoopPcs
  /\ iteration \in Iterations
  /\ gateConfig \in GateConfigs
  /\ scope = [entries |-> scope.entries, index |-> scope.index, content |-> scope.content]
  /\ scope.entries \subseteq LoopPaths /\ scope.index \in Nat
  /\ reported = Unusable \/ reported \subseteq Reviewed
  /\ gate \in [Checks -> {"pass", "fail", "skipped"}]
  /\ findings.actionable \subseteq Findings /\ findings.deferred \subseteq Findings
  /\ decision \in [Iterations -> [action : Outcomes, hash : SUBSET Findings]]
  /\ routing \subseteq Findings \X Routes
  /\ report \in Actions \cup {"none"}
  /\ faithful \in BOOLEAN /\ replaced \in BOOLEAN /\ protocolError \in BOOLEAN
  /\ headRead \in Nat /\ lateCommits \in Nat

\* The session begins when an init claims it, and the first to do so has it.
ClaimedOnce ==
  /\ \A i \in LoopInits :
       /\ initPc[i] \in {"index", "publish", "claim"} => capture[i].head # 0
       /\ initPc[i] = "claimed" => Claimed /\ marker = capture[i]
  /\ \A i, j \in LoopInits : initPc[i] = "claimed" /\ initPc[j] = "claimed" => i = j
  /\ loopPc = "init" <=> ~Claimed
  /\ loopPc = "init" => found = {}

\* Each iteration so far has continued; the running one is decided at its end.
InOrder ==
  /\ \A i \in Iterations : /\ i > iteration => decision[i] = NoDecision
                           /\ i < iteration => decision[i].action = "CONTINUE"
  /\ loopPc \notin {"fix", "route", "finalize", "verify", "end"} => decision[iteration] = NoDecision
  /\ loopPc \in {"fix", "route"} =>
       decision[iteration].action = "CONTINUE" /\ iteration < MaxIterations - 1
  /\ loopPc \in {"finalize", "verify", "end"} => decision[iteration].action \in Actions
  /\ ~protocolError => decision[iteration].action # "EXIT_PROTOCOL_ERROR"

\* Versions only grow: what a skill has read otherwise than named is still so at
\* the gate, which then refuses.
ReadAsNamed ==
  /\ loopPc \in Skills \cup {"gate"} =>
       /\ scope.content \in [scope.entries -> Nat]
       /\ \A p \in scope.entries : work[p] >= scope.content[p]
       /\ ~faithful => \E p \in scope.entries : work[p] > scope.content[p]
  /\ loopPc \in {"content", "checks", "recheck", "collect"} => faithful
  /\ loopPc \in {"recheck", "collect"} => \A c \in Commands : gate[c] \in {"pass", "fail"}
  /\ loopPc = "decide" =>
       \/ iteration = 0 /\ Auditable(scope.entries) = {}
       \/ /\ faithful /\ Failed \subseteq findings.actionable
          /\ \A c \in Commands : gate[c] \in {"pass", "fail"}

\* Each finding is fixed, in the registry, or on its way to one of them.
FoundIsKept ==
  ~replaced =>
    /\ loopPc \notin {"decide", "fix", "route", "finalize", "verify", "end"} =>
         found \subseteq fixed \cup registry
    /\ loopPc \in {"decide", "fix", "route"} =>
         found \subseteq fixed \cup registry \cup findings.actionable
    /\ decision[iteration].action \in {"EXIT_CLEAN", "EXIT_HANDLED"} =>
         found \subseteq fixed \cup registry

\* A check that ever failed has a command, and is fixed or about to be.
ChecksAreKept ==
  /\ Failed \subseteq Commands /\ found \cap Checks \subseteq Commands
  /\ loopPc \notin {"decide", "fix", "route", "finalize", "verify", "end"} =>
       found \cap Checks \subseteq fixed
  /\ loopPc \in {"decide", "fix", "route"} =>
       found \cap Checks \subseteq fixed \cup findings.actionable
  /\ decision[iteration].action \in {"EXIT_CLEAN", "EXIT_HANDLED"} =>
       found \cap Checks \subseteq fixed

\* What finalize has read of HEAD is so but for the commits made since.
ReportHolds ==
  /\ loopPc \notin {"verify", "end"} => lateCommits = 0
  /\ loopPc = "verify" => head = headRead + lateCommits
  /\ report # "none" => loopPc = "end"
  /\ report \in Actions \ {"EXIT_PROTOCOL_ERROR"} =>
       /\ index = marker.index /\ head = marker.head + lateCommits
       /\ ~protocolError /\ report = decision[iteration].action

LoopInv ==
  /\ LoopTypes /\ ClaimedOnce /\ InOrder /\ ReadAsNamed /\ CleanIsEarned
  /\ FoundIsKept /\ ChecksAreKept /\ ReportHolds

-----------------------------------------------------------------------------
\* At first nothing has been claimed, found or decided.
LEMMA LoopInitInv == LoopInit => LoopInv
<1> SUFFICES ASSUME LoopInit PROVE LoopInv
  OBVIOUS
<1>1. decision \in [Iterations -> [action : Outcomes, hash : SUBSET Findings]]
  BY DEF LoopInit, Iterations, NoDecision, Outcomes
<1>2. iteration \in Iterations /\ touches \in 0 .. MaxTouches
  BY LoopConstants DEF LoopInit, Iterations
<1>3. work \in [LoopPaths -> Nat] /\ base \in [LoopPaths -> Nat]
  BY DEF LoopInit
<1>4. capture \in [LoopInits -> Baselines] /\ marker \in Baselines
  BY DEF LoopInit, NoBaseline, Baselines
<1>5. gate \in [Checks -> {"pass", "fail", "skipped"}]
  BY DEF LoopInit, NotRun
<1>5a. /\ scope = [entries |-> scope.entries, index |-> scope.index, content |-> scope.content]
       /\ scope.entries = {} /\ scope.index = 0
       /\ findings.actionable = {} /\ findings.deferred = {}
  BY DEF LoopInit, NoScope, NoFindings
<1>5b. initPc \in [LoopInits -> {"start", "index", "publish", "claim", "claimed", "refused"}]
  BY DEF LoopInit
<1>5c. faithful \in BOOLEAN /\ replaced \in BOOLEAN /\ protocolError \in BOOLEAN
  BY DEF LoopInit
<1>5d. /\ head \in Nat \ {0} /\ index \in Nat /\ loopPc \in LoopPcs
       /\ gateConfig \in GateConfigs /\ registry = {} /\ reported = {} /\ routing = {}
       /\ report = "none" /\ headRead = 0 /\ lateCommits = 0
  BY DEF LoopInit, LoopPcs
<1>6. LoopTypes
  BY <1>1, <1>2, <1>3, <1>4, <1>5, <1>5a, <1>5b, <1>5c, <1>5d DEF LoopTypes
<1>7. ClaimedOnce /\ ReadAsNamed
  BY DEF LoopInit, ClaimedOnce, ReadAsNamed, Claimed, Skills
<1>8. InOrder
  BY <1>2 DEF LoopInit, InOrder, Iterations, NoDecision
<1>9. CleanIsEarned /\ FoundIsKept /\ ChecksAreKept /\ ReportHolds
  BY <1>2 DEF LoopInit, CleanIsEarned, FoundIsKept, ChecksAreKept, ReportHolds,
     NoDecision, Iterations, Actions, NotRun, Failed, Checks
<1> QED
  BY <1>6, <1>7, <1>8, <1>9 DEF LoopInv

-----------------------------------------------------------------------------
(* Others, and the inits.                                                   *)

\* Whatever others do, the session and what it knows stay as they are.
LEMMA OthersKeep ==
  ASSUME LoopInv, Others
  PROVE  LoopInv'
<1>0. /\ LoopTypes /\ ClaimedOnce /\ InOrder /\ ReadAsNamed /\ CleanIsEarned
      /\ FoundIsKept /\ ChecksAreKept /\ ReportHolds
  BY DEF LoopInv
<1>1. /\ UNCHANGED <<initVars, registry, loopPc, iterVars, protocolError, headRead, report,
                      faithful, found, fixed, replaced>>
      /\ report = "none"
  BY DEF Others, EditPath, StagePaths, CommitAll, Touch, loopHistory, ending
<1> DEFINE Moved ==
      /\ work' \in [LoopPaths -> Nat] /\ \A p \in LoopPaths : work'[p] >= work[p]
      /\ base' \in [LoopPaths -> Nat]
      /\ head' \in Nat \ {0} /\ index' \in Nat /\ touches' \in 0 .. MaxTouches
      /\ lateCommits' \in Nat
      /\ loopPc # "verify" => lateCommits' = lateCommits
      /\ loopPc = "verify" => \/ head' = head /\ lateCommits' = lateCommits
                              \/ head' = head + 1 /\ lateCommits' = lateCommits + 1
<1>2. Moved
  <2>0. /\ work \in [LoopPaths -> Nat] /\ base \in [LoopPaths -> Nat]
        /\ head \in Nat \ {0} /\ index \in Nat /\ touches' \in 0 .. MaxTouches
        /\ lateCommits \in Nat
    BY <1>0, LoopConstants DEF LoopTypes, Others, EditPath, StagePaths, CommitAll, Touch
  <2>1. ASSUME NEW p \in LoopPaths, EditPath(p) PROVE Moved
    BY <2>0, <2>1 DEF EditPath, loopHistory
  <2>2. CASE StagePaths
    BY <2>0, <2>2 DEF StagePaths, loopHistory
  <2>3. CASE CommitAll
    BY <2>0, <2>3 DEF CommitAll
  <2> QED
    BY <2>1, <2>2, <2>3 DEF Others
<1> HIDE DEF Moved
<1>3. LoopTypes'
  BY <1>0, <1>1, <1>2 DEF LoopTypes, Moved, initVars, iterVars
<1>4. ClaimedOnce' /\ InOrder'
  BY <1>0, <1>1 DEF ClaimedOnce, InOrder, Claimed, initVars, iterVars
<1>5. ReadAsNamed'
  <2>1. \A p \in scope.entries : p \in LoopPaths /\ work[p] \in Nat /\ work'[p] \in Nat
                                /\ work'[p] >= work[p]
    BY <1>0, <1>2 DEF LoopTypes, Moved
  <2>2. loopPc \in Skills \cup {"gate"} =>
          /\ \A p \in scope.entries : scope.content[p] \in Nat /\ work'[p] >= scope.content[p]
          /\ ~faithful => \E p \in scope.entries : work'[p] > scope.content[p]
    BY <1>0, <2>1 DEF ReadAsNamed
  <2>3. UNCHANGED <<loopPc, scope, faithful, gate, gateConfig, findings, iteration>>
    BY <1>1 DEF iterVars, loopHistory
  <2>4. Commands' = Commands /\ Failed' = Failed
    BY <2>3 DEF Commands, Failed
  <2> QED
    BY <1>0, <2>2, <2>3, <2>4 DEF ReadAsNamed
<1>6. CleanIsEarned' /\ FoundIsKept' /\ ChecksAreKept'
  BY <1>0, <1>1 DEF CleanIsEarned, FoundIsKept, ChecksAreKept, Commands, Failed, iterVars
<1>7. ReportHolds'
  <2>1. head \in Nat /\ headRead \in Nat /\ lateCommits \in Nat /\ head' \in Nat /\ lateCommits' \in Nat
    BY <1>0, <1>2 DEF LoopTypes, Moved
  <2>2. loopPc # "verify" => lateCommits' = lateCommits
    BY <1>2 DEF Moved
  <2>3. ASSUME loopPc = "verify" PROVE head' = headRead + lateCommits'
    <3>1. \/ head' = head /\ lateCommits' = lateCommits
          \/ head' = head + 1 /\ lateCommits' = lateCommits + 1
      BY <1>2, <2>3 DEF Moved
    <3>2. head = headRead + lateCommits
      BY <1>0, <2>3 DEF ReportHolds
    <3>3. CASE head' = head /\ lateCommits' = lateCommits
      BY <3>2, <3>3
    <3>4. CASE head' = head + 1 /\ lateCommits' = lateCommits + 1
      <4>1. (headRead + lateCommits) + 1 = headRead + (lateCommits + 1)
        BY <2>1
      <4> QED
        BY <3>2, <3>4, <4>1
    <3> QED
      BY <3>1, <3>3, <3>4
  <2> QED
    BY <1>0, <1>1, <2>2, <2>3 DEF ReportHolds, Actions
<1> QED
  BY <1>3, <1>4, <1>5, <1>6, <1>7 DEF LoopInv

\* A baseline that has been captured is not the missing one.
LEMMA InitKeeps ==
  ASSUME LoopInv, NEW i \in LoopInits, InitStep(i)
  PROVE  LoopInv'
<1>0. /\ LoopTypes /\ ClaimedOnce /\ InOrder /\ ReadAsNamed /\ CleanIsEarned
      /\ FoundIsKept /\ ChecksAreKept /\ ReportHolds
  BY DEF LoopInv
<1>1. UNCHANGED <<repoVars, iterVars, protocolError, headRead, report, faithful, found, fixed,
                  lateCommits>>
  BY DEF InitStep, InitReadsHead, InitReadsIndex, InitRefused, InitPublish, InitClaim, ending,
     loopHistory
<1>2. CASE InitReadsHead(i) \/ InitReadsIndex(i) \/ InitRefused(i)
  <2>1. UNCHANGED <<marker, registry, loopPc, replaced>>
    BY <1>2 DEF InitReadsHead, InitReadsIndex, InitRefused, loopHistory
  <2>2. /\ capture' \in [LoopInits -> Baselines]
        /\ initPc' \in [LoopInits -> {"start", "index", "publish", "claim", "claimed", "refused"}]
        /\ \A j \in LoopInits : j # i => initPc'[j] = initPc[j] /\ capture'[j] = capture[j]
        /\ initPc'[i] \in {"index", "publish", "refused"}
        /\ initPc'[i] # "refused" => capture'[i].head # 0
    <3>0. /\ capture \in [LoopInits -> Baselines] /\ head \in Nat \ {0} /\ index \in Nat
          /\ initPc \in [LoopInits -> {"start", "index", "publish", "claim", "claimed", "refused"}]
          /\ initPc[i] = "index" => capture[i].head # 0
      BY <1>0 DEF LoopTypes, ClaimedOnce
    <3>1. CASE InitReadsHead(i)
      BY <3>0, <3>1 DEF InitReadsHead, Baselines
    <3>2. CASE InitReadsIndex(i)
      BY <3>0, <3>2 DEF InitReadsIndex, Baselines
    <3>3. CASE InitRefused(i)
      BY <3>0, <3>3 DEF InitRefused
    <3> QED
      BY <1>2, <3>1, <3>2, <3>3
  <2>3. LoopTypes'
    BY <1>0, <1>1, <2>1, <2>2 DEF LoopTypes, repoVars, iterVars
  <2>4. ClaimedOnce'
    BY <1>0, <1>1, <2>1, <2>2 DEF ClaimedOnce, Claimed
  <2>5. /\ InOrder' /\ ReadAsNamed' /\ CleanIsEarned' /\ FoundIsKept' /\ ChecksAreKept'
        /\ ReportHolds'
    BY <1>0, <1>1, <2>1 DEF InOrder, ReadAsNamed, CleanIsEarned, FoundIsKept, ChecksAreKept,
       ReportHolds, Commands, Failed, repoVars, iterVars
  <2> QED
    BY <2>3, <2>4, <2>5 DEF LoopInv
<1>3. CASE InitPublish(i)
  <2>1. /\ initPc' = [initPc EXCEPT ![i] = "claim"] /\ registry' = {}
        /\ initPc[i] = "publish" /\ replaced' = (replaced \/ Claimed)
        /\ UNCHANGED <<capture, marker, loopPc>>
    BY <1>3 DEF InitPublish
  <2>2. initPc' \in [LoopInits -> {"start", "index", "publish", "claim", "claimed", "refused"}]
    BY <1>0, <2>1 DEF LoopTypes
  <2>3. LoopTypes'
    BY <1>0, <1>1, <2>1, <2>2 DEF LoopTypes, repoVars, iterVars, Claimed
  <2>4. ClaimedOnce'
    <3>1. /\ \A j \in LoopInits : j # i => initPc'[j] = initPc[j]
          /\ initPc'[i] = "claim"
      BY <1>0, <2>1 DEF LoopTypes
    <3> QED
      BY <1>0, <1>1, <2>1, <3>1 DEF ClaimedOnce, Claimed
  <2>5. InOrder' /\ ReadAsNamed' /\ CleanIsEarned' /\ ChecksAreKept' /\ ReportHolds'
    BY <1>0, <1>1, <2>1 DEF InOrder, ReadAsNamed, CleanIsEarned, ChecksAreKept, ReportHolds,
       Commands, Failed, repoVars, iterVars
  <2>6. FoundIsKept'
    BY <1>0, <1>1, <2>1 DEF FoundIsKept, ClaimedOnce, InOrder, NoDecision, iterVars
  <2> QED
    BY <2>3, <2>4, <2>5, <2>6 DEF LoopInv
<1>4. CASE InitClaim(i)
  <2>1. CASE Claimed
    <3>1. /\ initPc' = [initPc EXCEPT ![i] = "refused"]
          /\ UNCHANGED <<capture, marker, loopPc, registry, replaced>>
      BY <1>4, <2>1 DEF InitClaim, loopHistory
    <3>2. initPc' \in [LoopInits -> {"start", "index", "publish", "claim", "claimed", "refused"}]
      BY <1>0, <3>1 DEF LoopTypes
    <3>3. LoopTypes'
      BY <1>0, <1>1, <3>1, <3>2 DEF LoopTypes, repoVars, iterVars
    <3>4. /\ \A j \in LoopInits : j # i => initPc'[j] = initPc[j]
          /\ initPc'[i] = "refused"
      BY <1>0, <3>1 DEF LoopTypes
    <3>5. ClaimedOnce'
      BY <1>0, <1>1, <3>1, <3>4 DEF ClaimedOnce, Claimed
    <3>6. /\ InOrder' /\ ReadAsNamed' /\ CleanIsEarned' /\ FoundIsKept' /\ ChecksAreKept'
          /\ ReportHolds'
      BY <1>0, <1>1, <3>1 DEF InOrder, ReadAsNamed, CleanIsEarned, FoundIsKept, ChecksAreKept,
         ReportHolds, Commands, Failed, repoVars, iterVars
    <3> QED
      BY <3>3, <3>5, <3>6 DEF LoopInv
  <2>2. CASE ~Claimed
    <3>1. /\ initPc' = [initPc EXCEPT ![i] = "claimed"] /\ initPc[i] = "claim"
          /\ marker' = capture[i] /\ loopPc' = "status"
          /\ UNCHANGED <<capture, registry, replaced>>
      BY <1>4, <2>2 DEF InitClaim, loopHistory
    <3>2. /\ initPc' \in [LoopInits -> {"start", "index", "publish", "claim", "claimed", "refused"}]
          /\ marker' \in Baselines /\ marker' # NoBaseline
      BY <1>0, <3>1 DEF LoopTypes, ClaimedOnce, NoBaseline
    <3>3. LoopTypes'
      BY <1>0, <1>1, <3>1, <3>2 DEF LoopTypes, LoopPcs, repoVars, iterVars
    <3>4. /\ \A j \in LoopInits : j # i => initPc'[j] = initPc[j] /\ initPc'[j] # "claimed"
          /\ initPc'[i] = "claimed"
      BY <1>0, <2>2, <3>1 DEF LoopTypes, ClaimedOnce
    <3>5. ClaimedOnce'
      BY <1>0, <3>1, <3>2, <3>4 DEF ClaimedOnce, Claimed
    <3>6. loopPc = "init" /\ found = {} /\ report = "none"
      BY <1>0, <2>2 DEF ClaimedOnce, ReportHolds
    <3>7. InOrder' /\ ReadAsNamed'
      BY <1>0, <1>1, <3>1, <3>6 DEF InOrder, ReadAsNamed, Skills, iterVars
    <3>8. CleanIsEarned' /\ FoundIsKept' /\ ChecksAreKept' /\ ReportHolds'
      BY <1>0, <1>1, <3>1, <3>6 DEF CleanIsEarned, FoundIsKept, ChecksAreKept, ReportHolds,
         Commands, Failed, Actions, iterVars
    <3> QED
      BY <3>3, <3>5, <3>7, <3>8 DEF LoopInv
  <2> QED
    BY <2>1, <2>2
<1> QED
  BY <1>2, <1>3, <1>4 DEF InitStep

-----------------------------------------------------------------------------
(* The session.                                                             *)

\* A command of the session leaves the inits and their claim alone.
LEMMA ClaimKept ==
  ASSUME LoopInv, UNCHANGED initVars, loopPc # "init", loopPc' # "init"
  PROVE  ClaimedOnce'
BY DEF LoopInv, ClaimedOnce, Claimed, initVars

\* A command that fails ends the iteration with the decision of an error, at
\* whatever place it fails.
LEMMA FailKeeps ==
  ASSUME LoopInv, FailProtocol,
         loopPc \in {"status", "content", "gate", "checks", "recheck", "collect", "route"},
         UNCHANGED <<repoVars, initVars, registry, iteration, gateConfig, scope,
                     reported, gate, findings, routing, loopHistory>>
  PROVE  LoopInv'
<1>0. /\ LoopTypes /\ ClaimedOnce /\ InOrder /\ ChecksAreKept /\ ReportHolds
  BY DEF LoopInv
<1>1. /\ decision' = [decision EXCEPT ![iteration] =
                        [action |-> "EXIT_PROTOCOL_ERROR", hash |-> {}]]
      /\ protocolError' = TRUE /\ loopPc' = "finalize" /\ iteration \in Iterations
      /\ UNCHANGED <<headRead, report>>
  BY <1>0 DEF FailProtocol, LoopTypes
<1>2. decision' \in [Iterations -> [action : Outcomes, hash : SUBSET Findings]]
  BY <1>0, <1>1 DEF LoopTypes, Outcomes, Actions
<1>3. LoopTypes'
  BY <1>0, <1>1, <1>2 DEF LoopTypes, LoopPcs, repoVars, initVars, loopHistory
<1>4. ClaimedOnce'
  BY <1>1, ClaimKept
<1>5. /\ decision'[iteration].action = "EXIT_PROTOCOL_ERROR"
      /\ \A i \in Iterations : i # iteration => decision'[i] = decision[i]
  BY <1>0, <1>1 DEF LoopTypes
<1>6. InOrder'
  BY <1>0, <1>1, <1>5 DEF InOrder, Actions, Iterations
<1>7. ReadAsNamed' /\ CleanIsEarned' /\ ChecksAreKept'
  BY <1>0, <1>1, <1>5 DEF ReadAsNamed, CleanIsEarned, ChecksAreKept, Failed, Commands,
     Skills, loopHistory
<1>8. FoundIsKept' /\ ReportHolds'
  BY <1>0, <1>1, <1>5 DEF FoundIsKept, ReportHolds, Actions, repoVars, initVars, loopHistory
<1> QED
  BY <1>3, <1>4, <1>6, <1>7, <1>8 DEF LoopInv

\* A step inside an iteration that decides nothing keeps its place among the
\* iterations; what is left to show is what the step itself is about.
LEMMA InsideKeeps ==
  ASSUME LoopInv,
         loopPc \in LoopPcs \ {"init", "decide", "fix", "route", "finalize", "verify",
                              "end"},
         loopPc' \in LoopPcs \ {"init", "fix", "route", "finalize", "verify", "end"},
         UNCHANGED <<repoVars, initVars, registry, iteration, gateConfig, decision,
                     protocolError, headRead, report, lateCommits>>
  PROVE  ClaimedOnce' /\ InOrder' /\ CleanIsEarned' /\ ReportHolds'
<1>0. /\ LoopTypes /\ ClaimedOnce /\ InOrder /\ ChecksAreKept /\ ReportHolds
  BY DEF LoopInv
<1>1. ClaimedOnce'
  BY ClaimKept
<1>2. decision[iteration] = NoDecision
  BY <1>0 DEF InOrder
<1> QED
  BY <1>0, <1>1, <1>2 DEF InOrder, CleanIsEarned, ReportHolds, NoDecision, Actions,
     repoVars, initVars

\* The scope that an iteration begins with is that of the worktree at this moment.
LEMMA ReadStatusKeeps == ASSUME LoopInv, ReadStatus PROVE LoopInv'
<1>0. LoopTypes /\ InOrder /\ FoundIsKept /\ ChecksAreKept
  BY DEF LoopInv
<1>1. /\ scope' = [NoScope EXCEPT !.entries = Changed]
      /\ reported' = {} /\ gate' = NotRun /\ findings' = NoFindings /\ routing' = {}
      /\ faithful' = TRUE /\ loopPc = "status" /\ loopPc' = "content"
      /\ UNCHANGED <<repoVars, initVars, registry, iteration, gateConfig, decision,
                     protocolError, headRead, report, found, fixed, replaced, lateCommits>>
  BY DEF ReadStatus, ending
<1>2. /\ scope' = [entries |-> scope'.entries, index |-> scope'.index,
                   content |-> scope'.content]
      /\ scope'.entries \subseteq LoopPaths /\ scope'.index \in Nat
  <2>1. scope' = [entries |-> Changed, index |-> 0, content |-> <<>>]
    BY <1>1 DEF NoScope
  <2> QED
    BY <2>1 DEF Changed
<1>3. /\ gate' \in [Checks -> {"pass", "fail", "skipped"}]
      /\ findings'.actionable = {} /\ findings'.deferred = {}
  BY <1>1 DEF NotRun, NoFindings
<1>4. LoopTypes'
  BY <1>0, <1>1, <1>2, <1>3 DEF LoopTypes, LoopPcs, repoVars, initVars
<1>5. ClaimedOnce' /\ InOrder' /\ CleanIsEarned' /\ ReportHolds'
  BY <1>1, InsideKeeps DEF LoopPcs, loopHistory
<1>6. ReadAsNamed'
  BY <1>1 DEF ReadAsNamed, Skills
<1>7. FoundIsKept' /\ ChecksAreKept'
  <2>1. Failed' = {}
    BY <1>1 DEF Failed, NotRun
  <2> QED
    BY <1>0, <1>1, <2>1 DEF FoundIsKept, ChecksAreKept, Commands, InOrder, NoDecision
<1> QED
  BY <1>4, <1>5, <1>6, <1>7 DEF LoopInv

\* The contents named are those of this moment; without an auditable entry the
\* first iteration has nothing to read.
LEMMA ReadContentsKeeps == ASSUME LoopInv, ReadContents PROVE LoopInv'
<1>0. LoopTypes /\ InOrder /\ FoundIsKept /\ ChecksAreKept /\ ReadAsNamed
  BY DEF LoopInv
<1>1. /\ scope' = [scope EXCEPT !.index = index, !.content = ReadContent(scope.entries)]
      /\ loopPc = "content"
      /\ loopPc' = IF iteration = 0 /\ Auditable(scope.entries) = {}
                   THEN "decide" ELSE "coding-standards"
      /\ UNCHANGED <<repoVars, initVars, registry, iteration, gateConfig, reported,
                     gate, findings, decision, routing, protocolError, headRead, report, loopHistory>>
  BY DEF ReadContents, ending
<1>2. scope' = [entries |-> scope.entries, index |-> index,
                content |-> ReadContent(scope.entries)]
  BY <1>0, <1>1 DEF LoopTypes
<1>3. LoopTypes'
  BY <1>0, <1>1, <1>2 DEF LoopTypes, LoopPcs, Skills, repoVars, initVars, loopHistory
<1>4. ClaimedOnce' /\ InOrder' /\ CleanIsEarned' /\ ReportHolds'
  BY <1>1, InsideKeeps DEF LoopPcs, Skills, loopHistory
<1>5. faithful' = TRUE
  BY <1>0, <1>1 DEF ReadAsNamed, LoopTypes, loopHistory
<1>6. /\ scope'.content \in [scope'.entries -> Nat]
      /\ \A p \in scope'.entries : work'[p] \in Nat /\ scope'.content[p] = work'[p]
  <2>1. scope'.entries = scope.entries /\ scope'.content = ReadContent(scope.entries)
    BY <1>2
  <2>2. \A p \in scope.entries : p \in LoopPaths /\ work[p] \in Nat
    BY <1>0 DEF LoopTypes
  <2>3. /\ ReadContent(scope.entries) \in [scope.entries -> Nat]
        /\ \A p \in scope.entries : ReadContent(scope.entries)[p] = work[p]
    BY <2>2 DEF ReadContent
  <2> QED
    BY <1>1, <2>1, <2>2, <2>3 DEF repoVars
<1>7. ReadAsNamed'
  BY <1>1, <1>2, <1>5, <1>6 DEF ReadAsNamed, Skills
<1>8. FoundIsKept' /\ ChecksAreKept'
  BY <1>0, <1>1 DEF FoundIsKept, ChecksAreKept, Commands, Failed,
     InOrder, NoDecision, loopHistory
<1> QED
  BY <1>3, <1>4, <1>7, <1>8 DEF LoopInv

\* A skill that reads something else than the manifest names reads something
\* newer.
LEMMA ReviewKeeps == ASSUME LoopInv, NEW s \in Skills, Review(s) PROVE LoopInv'
<1>0. LoopTypes /\ InOrder /\ FoundIsKept /\ ChecksAreKept /\ ReadAsNamed
  BY DEF LoopInv
<1>1. /\ loopPc = s /\ loopPc' = After[s]
      /\ faithful' = (faithful /\ ReadContent(scope.entries) = scope.content)
      /\ reported' = Unusable \/ reported' \subseteq Reviewed
      /\ UNCHANGED <<repoVars, initVars, registry, iteration, gateConfig, scope,
                     gate, findings, decision, routing, protocolError, headRead, report,
                     found, fixed, replaced, lateCommits>>
  BY <1>0 DEF Review, LoopTypes, ending
<1>2. After[s] \in Skills \cup {"gate"}
  BY DEF After, Skills
<1>3. loopPc' \in LoopPcs /\ faithful' \in BOOLEAN
  BY <1>0, <1>1, <1>2 DEF LoopPcs
<1>4. LoopTypes'
  BY <1>0, <1>1, <1>3 DEF LoopTypes, repoVars, initVars
<1>5. ClaimedOnce' /\ InOrder' /\ CleanIsEarned' /\ ReportHolds'
  BY <1>1, <1>2, InsideKeeps DEF LoopPcs, Skills, loopHistory
<1>6. /\ scope.content \in [scope.entries -> Nat]
      /\ \A p \in scope.entries : work[p] \in Nat /\ work[p] >= scope.content[p]
      /\ ~faithful => \E p \in scope.entries : work[p] > scope.content[p]
  BY <1>0, <1>1 DEF LoopTypes, ReadAsNamed
<1>7. ReadContent(scope.entries) # scope.content =>
        \E p \in scope.entries : work[p] > scope.content[p]
  BY <1>6 DEF ReadContent
<1>8. ReadAsNamed'
  BY <1>1, <1>2, <1>6, <1>7 DEF ReadAsNamed, Skills, repoVars
<1>9. FoundIsKept' /\ ChecksAreKept'
  BY <1>0, <1>1, <1>2 DEF FoundIsKept, ChecksAreKept, Commands, Failed,
     InOrder, NoDecision, Skills
<1> QED
  BY <1>4, <1>5, <1>8, <1>9 DEF LoopInv

\* At the gate: if the contents are still those of the manifest, then they were
\* so for every skill in between.
LEMMA UnmovedIsFaithful ==
  ASSUME LoopTypes, ReadAsNamed, loopPc = "gate", ~ScopeMoved
  PROVE  faithful
<1>1. scope.entries = Changed /\ scope.content = ReadContent(Changed)
  BY DEF ScopeMoved, CurrentScope
<1>2. \A p \in scope.entries : work[p] \in Nat /\ scope.content[p] = work[p]
  BY <1>1 DEF ReadContent, LoopTypes
<1> QED
  BY <1>2 DEF ReadAsNamed

\* The gate begins only if what is in the worktree is what was named: with versions
\* that only grow, the skills have then read it too.
LEMMA GateStartsKeeps == ASSUME LoopInv, GateStarts PROVE LoopInv'
<1>0. LoopTypes /\ InOrder /\ FoundIsKept /\ ChecksAreKept /\ ReadAsNamed
  BY DEF LoopInv
<1>1. /\ loopPc = "gate" /\ loopPc' = "checks"
      /\ UNCHANGED <<repoVars, initVars, registry, iterVars, protocolError, headRead, report,
                     loopHistory>>
  BY DEF GateStarts, ending
<1>2. LoopTypes'
  BY <1>0, <1>1 DEF LoopTypes, LoopPcs, repoVars, initVars, iterVars, loopHistory
<1>3. ClaimedOnce' /\ InOrder' /\ CleanIsEarned' /\ ReportHolds'
  BY <1>1, InsideKeeps DEF LoopPcs, Skills, iterVars, loopHistory
<1>4. faithful'
  BY <1>0, <1>1, UnmovedIsFaithful DEF GateStarts, loopHistory
<1>5. ReadAsNamed'
  BY <1>1, <1>4 DEF ReadAsNamed, Skills
<1>6. FoundIsKept' /\ ChecksAreKept'
  BY <1>0, <1>1 DEF FoundIsKept, ChecksAreKept, Commands, Failed,
     InOrder, NoDecision, iterVars, loopHistory
<1> QED
  BY <1>2, <1>3, <1>5, <1>6 DEF LoopInv

\* The checks run on the contents the gate has compared.
LEMMA RunChecksKeeps == ASSUME LoopInv, RunChecks PROVE LoopInv'
<1>0. LoopTypes /\ InOrder /\ FoundIsKept /\ ChecksAreKept /\ ReadAsNamed
  BY DEF LoopInv
<1>1. /\ loopPc = "checks" /\ loopPc' = "recheck"
      /\ UNCHANGED <<repoVars, initVars, registry, iteration, gateConfig, scope,
                     reported, findings, decision, routing, protocolError, headRead, report,
                     loopHistory>>
  BY DEF RunChecks, ending
<1>2. PICK failed \in SUBSET Commands :
        gate' = [c \in Checks |-> CASE c \in failed -> "fail"
                                    [] c \in Commands \ failed -> "pass"
                                    [] OTHER -> "skipped"]
  BY DEF RunChecks
<1>3. Commands \subseteq Checks
  BY <1>0, LoopConstants DEF LoopTypes, Commands
<1>4. /\ gate' \in [Checks -> {"pass", "fail", "skipped"}]
      /\ \A c \in Commands : gate'[c] \in {"pass", "fail"}
  BY <1>2, <1>3
<1>5. LoopTypes'
  BY <1>0, <1>1, <1>4 DEF LoopTypes, LoopPcs, repoVars, initVars, loopHistory
<1>6. ClaimedOnce' /\ InOrder' /\ CleanIsEarned' /\ ReportHolds'
  BY <1>1, InsideKeeps DEF LoopPcs, Skills, loopHistory
<1>7. ReadAsNamed'
  BY <1>0, <1>1, <1>4 DEF ReadAsNamed, Skills, Commands, loopHistory
<1>8. FoundIsKept' /\ ChecksAreKept'
  <2>1. Failed' \subseteq Commands
    BY <1>2, <1>3 DEF Failed
  <2> QED
    BY <1>0, <1>1, <2>1 DEF FoundIsKept, ChecksAreKept, Commands, InOrder, NoDecision,
       loopHistory
<1> QED
  BY <1>5, <1>6, <1>7, <1>8 DEF LoopInv

\* The verdict of the gate is recorded only if the scope has not moved meanwhile.
LEMMA GateEndsKeeps == ASSUME LoopInv, GateEnds PROVE LoopInv'
<1>0. LoopTypes /\ InOrder /\ FoundIsKept /\ ChecksAreKept /\ ReadAsNamed
  BY DEF LoopInv
<1>1. /\ loopPc = "recheck" /\ loopPc' = "collect"
      /\ UNCHANGED <<repoVars, initVars, registry, iterVars, protocolError, headRead, report,
                     loopHistory>>
  BY DEF GateEnds, ending
<1>2. LoopTypes'
  BY <1>0, <1>1 DEF LoopTypes, LoopPcs, repoVars, initVars, iterVars, loopHistory
<1>3. ClaimedOnce' /\ InOrder' /\ CleanIsEarned' /\ ReportHolds'
  BY <1>1, InsideKeeps DEF LoopPcs, Skills, iterVars, loopHistory
<1>4. ReadAsNamed'
  BY <1>0, <1>1 DEF ReadAsNamed, Skills, Commands, iterVars, loopHistory
<1>5. FoundIsKept' /\ ChecksAreKept'
  BY <1>0, <1>1 DEF FoundIsKept, ChecksAreKept, Commands, Failed,
     InOrder, NoDecision, iterVars, loopHistory
<1> QED
  BY <1>2, <1>3, <1>4, <1>5 DEF LoopInv

\* No failed check is in the registry, so each one becomes actionable.
LEMMA CollectKeeps == ASSUME LoopInv, CollectFindings PROVE LoopInv'
<1>0. LoopTypes /\ InOrder /\ FoundIsKept /\ ChecksAreKept /\ ReadAsNamed
  BY DEF LoopInv
<1>1. /\ findings' = [actionable |-> Reported \ registry,
                      deferred |-> Reported \cap registry, status |-> GateStatus]
      /\ found' = found \cup (Reported \ registry)
      /\ loopPc = "collect" /\ loopPc' = "decide"
      /\ UNCHANGED <<repoVars, initVars, registry, iteration, gateConfig, scope,
                     reported, gate, decision, routing, protocolError, headRead, report,
                     faithful, fixed, replaced, lateCommits>>
  BY DEF CollectFindings, ending
<1>2. Reported \subseteq Findings /\ Failed \cap registry = {} /\ Failed \subseteq Reported
  BY <1>0 DEF CollectFindings, Collectable, LoopTypes, Reported, Failed, Findings
<1>3. /\ findings'.actionable = Reported \ registry
      /\ findings'.deferred = Reported \cap registry
  BY <1>1
<1>4. LoopTypes'
  BY <1>0, <1>1, <1>2, <1>3 DEF LoopTypes, LoopPcs, repoVars, initVars
<1>5. ClaimedOnce' /\ InOrder' /\ CleanIsEarned' /\ ReportHolds'
  BY <1>1, InsideKeeps DEF LoopPcs, Skills, loopHistory
<1>6. Failed' = Failed /\ Commands' = Commands /\ Failed \subseteq Reported \ registry
  BY <1>1, <1>2 DEF Failed, Commands
<1>7. ReadAsNamed'
  BY <1>0, <1>1, <1>3, <1>6 DEF ReadAsNamed, Skills
<1>8. FoundIsKept'
  BY <1>0, <1>1, <1>3 DEF FoundIsKept, InOrder, NoDecision
<1>9. ChecksAreKept'
  <2>1. Reported \cap Checks = Failed
    BY <1>0, LoopConstants DEF CollectFindings, Collectable, LoopTypes, Reported, Failed
  <2>2. found' \cap Checks \subseteq Commands /\ found' \cap Checks \subseteq fixed \cup (Reported \ registry)
    BY <1>0, <1>1, <2>1 DEF ChecksAreKept
  <2> QED
    BY <1>0, <1>1, <1>3, <1>6, <2>2 DEF ChecksAreKept, InOrder, NoDecision
<1> QED
  BY <1>4, <1>5, <1>7, <1>8, <1>9 DEF LoopInv

\* A good verdict means that nothing is actionable, hence that no check failed.
LEMMA DecideKeeps == ASSUME LoopInv, Decide PROVE LoopInv'
<1>0. /\ LoopTypes /\ InOrder /\ FoundIsKept /\ ReadAsNamed /\ ChecksAreKept
      /\ ReportHolds
  BY DEF LoopInv
<1>1. /\ decision' = [decision EXCEPT ![iteration] =
                        [action |-> Verdict, hash |-> findings.actionable]]
      /\ loopPc = "decide"
      /\ loopPc' = IF Verdict = "CONTINUE" THEN "fix" ELSE "finalize"
      /\ UNCHANGED <<repoVars, initVars, registry, iteration, gateConfig, scope,
                     reported, gate, findings, routing, protocolError, headRead, report,
                     loopHistory>>
  BY DEF Decide, ending
<1>2. /\ Verdict \in (Actions \ {"EXIT_PROTOCOL_ERROR"}) \cup {"CONTINUE"}
      /\ Verdict = "CONTINUE" => iteration < MaxIterations - 1
      /\ Verdict \in {"EXIT_CLEAN", "EXIT_HANDLED"} =>
           ~(iteration = 0 /\ Auditable(scope.entries) = {}) /\ findings.actionable = {}
  BY <1>0, LoopConstants DEF Verdict, Actions, LoopTypes, Iterations
<1>3. decision' \in [Iterations -> [action : Outcomes, hash : SUBSET Findings]]
  BY <1>0, <1>1, <1>2 DEF LoopTypes, Outcomes
<1>4. LoopTypes'
  BY <1>0, <1>1, <1>3 DEF LoopTypes, LoopPcs, repoVars, initVars, loopHistory
<1>5. ClaimedOnce'
  BY <1>1, ClaimKept
<1>6. /\ decision'[iteration].action = Verdict
      /\ \A i \in Iterations : i # iteration => decision'[i] = decision[i]
  BY <1>0, <1>1 DEF LoopTypes
<1>7. InOrder'
  BY <1>0, <1>1, <1>2, <1>6, LoopConstants DEF InOrder, LoopTypes, Iterations, Actions
<1>8. ReadAsNamed'
  BY <1>1 DEF ReadAsNamed, Skills
<1>9. CleanIsEarned'
  <2>1. Failed = {} => \A c \in Commands : gate[c] # "fail"
    BY <1>0, LoopConstants DEF Failed, Commands, LoopTypes
  <2>2. Verdict \in {"EXIT_CLEAN", "EXIT_HANDLED"} =>
          faithful /\ \A c \in Commands : gate[c] = "pass"
    BY <1>0, <1>1, <1>2, <2>1 DEF ReadAsNamed
  <2> QED
    BY <1>1, <1>6, <2>2 DEF CleanIsEarned, Commands, loopHistory
<1>10. ReportHolds'
  BY <1>0, <1>1, <1>6 DEF ReportHolds, Actions, repoVars, initVars, loopHistory
<1>11. FoundIsKept' /\ ChecksAreKept'
  BY <1>0, <1>1, <1>2, <1>6 DEF FoundIsKept, ChecksAreKept, Commands, Failed,
     loopHistory
<1> QED
  BY <1>4, <1>5, <1>7, <1>8, <1>9, <1>10, <1>11 DEF LoopInv

\* A fix comes after the review, changes any path or none, and writes any routing.
LEMMA FixKeeps == ASSUME LoopInv, Fix PROVE LoopInv'
<1>0. LoopTypes /\ InOrder /\ FoundIsKept /\ ChecksAreKept /\ ReportHolds
  BY DEF LoopInv
<1>1. /\ routing' \in SUBSET ((Reviewed \cup Commands) \X Routes)
      /\ work' \in {work, [p \in LoopPaths |-> work[p] + 1]}
      /\ loopPc = "fix" /\ loopPc' = "route"
      /\ UNCHANGED <<base, head, index, touches, initVars, registry, iteration,
                     gateConfig, scope, reported, gate, findings, decision,
                     protocolError, headRead, report, loopHistory>>
  BY DEF Fix, ending
<1>2. work' \in [LoopPaths -> Nat]
  BY <1>0, <1>1 DEF LoopTypes
<1>3. Commands \subseteq Checks
  BY <1>0, LoopConstants DEF LoopTypes, Commands
<1>4. routing' \subseteq Findings \X Routes
  BY <1>1, <1>3 DEF Findings
<1>5. LoopTypes'
  BY <1>0, <1>1, <1>2, <1>4 DEF LoopTypes, LoopPcs, initVars, loopHistory
<1>6. ClaimedOnce'
  BY <1>1, ClaimKept
<1>7. InOrder' /\ ReadAsNamed' /\ CleanIsEarned'
  BY <1>0, <1>1 DEF InOrder, ReadAsNamed, CleanIsEarned, Skills
<1>8. FoundIsKept' /\ ChecksAreKept' /\ ReportHolds'
  BY <1>0, <1>1 DEF FoundIsKept, ChecksAreKept, Commands, Failed, ReportHolds, Actions,
     initVars, loopHistory
<1> QED
  BY <1>5, <1>6, <1>7, <1>8 DEF LoopInv

\* A routing that is accepted sends every actionable finding somewhere, and no
\* check to the registry.
LEMMA AcceptKeeps == ASSUME LoopInv, AcceptRouting PROVE LoopInv'
<1>0. LoopTypes /\ InOrder /\ FoundIsKept /\ ChecksAreKept /\ ReportHolds
  BY DEF LoopInv
<1>1. /\ registry' = registry \cup RoutedTo("deferred")
      /\ fixed' = fixed \cup RoutedTo("fix_now_applied")
      /\ iteration' = iteration + 1
      /\ loopPc = "route" /\ loopPc' = "status" /\ ValidRouting
      /\ UNCHANGED <<repoVars, initVars, gateConfig, scope, reported, gate, findings,
                     decision, routing, protocolError, headRead, report, faithful, found, replaced,
                     lateCommits>>
  BY DEF AcceptRouting, ending
<1>2. /\ RoutedTo("deferred") \subseteq Findings
      /\ RoutedTo("deferred") \cap Checks = {}
      /\ findings.actionable \subseteq RoutedTo("fix_now_applied") \cup RoutedTo("deferred")
  BY <1>1 DEF RoutedTo, ValidRouting
<1>3. iteration' \in Iterations /\ iteration \in Iterations /\ iteration < iteration'
  BY <1>0, <1>1, LoopConstants DEF InOrder, LoopTypes, Iterations
<1>4. LoopTypes'
  BY <1>0, <1>1, <1>2, <1>3 DEF LoopTypes, LoopPcs, repoVars, initVars
<1>5. ClaimedOnce'
  BY <1>1, ClaimKept
<1>6. decision'[iteration'] = NoDecision
  BY <1>0, <1>1, <1>3 DEF InOrder
<1>7. InOrder'
  BY <1>0, <1>1, <1>3, <1>6 DEF InOrder, NoDecision, Iterations
<1>8. ReadAsNamed' /\ CleanIsEarned'
  BY <1>0, <1>1, <1>6 DEF ReadAsNamed, CleanIsEarned, Skills, NoDecision
<1>9. FoundIsKept' /\ ChecksAreKept' /\ ReportHolds'
  BY <1>0, <1>1, <1>2, <1>6 DEF FoundIsKept, ChecksAreKept, Commands, Failed, ReportHolds,
     Actions, NoDecision, repoVars, initVars
<1> QED
  BY <1>4, <1>5, <1>7, <1>8, <1>9 DEF LoopInv

\* The last decision on file is that of the running iteration.
LEMMA LastIsRunning ==
  ASSUME LoopTypes, InOrder, loopPc = "verify"
  PROVE  LastAction = decision[iteration].action
<1> DEFINE filed == {i \in DOMAIN decision : decision[i] # NoDecision}
<1>1. DOMAIN decision = Iterations /\ iteration \in Iterations
  BY DEF LoopTypes
<1>2. decision[iteration] # NoDecision
  BY DEF InOrder, NoDecision, Actions
<1>3. \A i \in filed : i \in Nat /\ i <= iteration
  BY <1>1 DEF InOrder, Iterations
<1>4. iteration \in filed
  BY <1>1, <1>2
<1>5. (CHOOSE i \in filed : \A j \in filed : j <= i) = iteration
  <2>1. iteration \in filed /\ \A j \in filed : j <= iteration
    BY <1>3, <1>4
  <2>2. \A i \in filed : (\A j \in filed : j <= i) => i = iteration
    BY <1>3, <1>4
  <2> HIDE DEF filed
  <2> QED
    BY <2>1, <2>2
<1> QED
  BY <1>4, <1>5 DEF LastAction

\* HEAD is as read until the first late commit.
LEMMA ReadHeadKeeps == ASSUME LoopInv, ReadHead PROVE LoopInv'
<1>0. /\ LoopTypes /\ InOrder /\ FoundIsKept /\ CleanIsEarned /\ ChecksAreKept
      /\ ReportHolds
  BY DEF LoopInv
<1>1. /\ headRead' = head /\ loopPc = "finalize" /\ loopPc' = "verify"
      /\ UNCHANGED <<repoVars, initVars, registry, iterVars, protocolError, report,
                     loopHistory>>
  BY DEF ReadHead
<1>2. LoopTypes'
  BY <1>0, <1>1 DEF LoopTypes, LoopPcs, repoVars, initVars, iterVars, loopHistory
<1>3. ClaimedOnce'
  BY <1>1, ClaimKept
<1>4. InOrder' /\ ReadAsNamed' /\ CleanIsEarned'
  BY <1>0, <1>1 DEF InOrder, ReadAsNamed, CleanIsEarned, Skills, Commands, iterVars, loopHistory
<1>5. FoundIsKept' /\ ChecksAreKept'
  BY <1>0, <1>1 DEF FoundIsKept, ChecksAreKept, Commands, Failed, iterVars, loopHistory
<1>6. ReportHolds'
  <2>1. head \in Nat /\ lateCommits = 0
    BY <1>0, <1>1 DEF LoopTypes, ReportHolds
  <2> QED
    BY <1>0, <1>1, <2>1 DEF ReportHolds, Actions, repoVars, initVars, iterVars, loopHistory
<1> QED
  BY <1>2, <1>3, <1>4, <1>5, <1>6 DEF LoopInv

\* The report repeats the last decision on file if the HEAD that was read and the
\* index are those of the marker.
LEMMA FinalizeKeeps == ASSUME LoopInv, Finalize PROVE LoopInv'
<1>0. /\ LoopTypes /\ InOrder /\ FoundIsKept /\ CleanIsEarned /\ ChecksAreKept
      /\ ReportHolds
  BY DEF LoopInv
<1>1. /\ \/ report' = "EXIT_PROTOCOL_ERROR"
         \/ ~protocolError /\ GitVerified /\ report' = LastAction
      /\ loopPc = "verify" /\ loopPc' = "end"
      /\ UNCHANGED <<repoVars, initVars, registry, iterVars, protocolError, headRead,
                     loopHistory>>
  BY DEF Finalize
<1>2. LastAction = decision[iteration].action /\ LastAction \in Actions
  BY <1>0, <1>1, LastIsRunning DEF InOrder
<1>3. report' \in Actions
  BY <1>1, <1>2 DEF Actions
<1>4. LoopTypes'
  BY <1>0, <1>1, <1>3 DEF LoopTypes, LoopPcs, repoVars, initVars, iterVars, loopHistory
<1>5. ClaimedOnce'
  BY <1>1, ClaimKept
<1>6. InOrder' /\ ReadAsNamed' /\ CleanIsEarned'
  BY <1>0, <1>1 DEF InOrder, ReadAsNamed, CleanIsEarned, Skills, Commands, iterVars, loopHistory
<1>7. FoundIsKept' /\ ChecksAreKept'
  BY <1>0, <1>1 DEF FoundIsKept, ChecksAreKept, Commands, Failed, iterVars, loopHistory
<1>8. ReportHolds'
  <2>1. GitVerified => headRead = marker.head /\ index = marker.index
    BY DEF GitVerified
  <2>2. UNCHANGED <<head, index, marker, headRead, lateCommits, protocolError, decision,
                    iteration>>
    BY <1>1 DEF repoVars, initVars, iterVars, loopHistory
  <2>3. head = headRead + lateCommits
    BY <1>0, <1>1 DEF ReportHolds
  <2> QED
    BY <1>1, <1>2, <2>1, <2>2, <2>3 DEF ReportHolds
<1> QED
  BY <1>4, <1>5, <1>6, <1>7, <1>8 DEF LoopInv

-----------------------------------------------------------------------------
\* Every command of the orchestrator keeps the invariant, its failure included.
LEMMA SessionKeeps == ASSUME LoopInv, Session PROVE LoopInv'
<1>1. CASE ScopeFails
  BY <1>1, FailKeeps DEF ScopeFails
<1>2. CASE GateRefuses
  BY <1>2, FailKeeps DEF GateRefuses
<1>3. CASE CheckKilled
  BY <1>3, FailKeeps DEF CheckKilled
<1>4. CASE GateDisturbed
  BY <1>4, FailKeeps DEF GateDisturbed
<1>5. CASE CollectFails
  BY <1>5, FailKeeps DEF CollectFails
<1>6. CASE RejectRouting
  BY <1>6, FailKeeps DEF RejectRouting
<1> QED
  BY <1>1, <1>2, <1>3, <1>4, <1>5, <1>6, ReadStatusKeeps, ReadContentsKeeps, ReviewKeeps,
     GateStartsKeeps, RunChecksKeeps, GateEndsKeeps, CollectKeeps, DecideKeeps, FixKeeps,
     AcceptKeeps, ReadHeadKeeps, FinalizeKeeps DEF Session, RuntimeGate

\* Inits, commands and the edits of others keep the invariant.
LEMMA LoopInductive == LoopInv /\ [LoopNext]_loopVars => LoopInv'
<1> SUFFICES ASSUME LoopInv, [LoopNext]_loopVars PROVE LoopInv'
  OBVIOUS
<1>1. CASE UNCHANGED loopVars
  BY <1>1 DEF LoopInv, LoopTypes, ClaimedOnce, InOrder, ReadAsNamed, CleanIsEarned,
     FoundIsKept, ChecksAreKept, ReportHolds, Claimed, Commands, Failed, loopVars, repoVars,
     initVars, iterVars, ending, loopHistory
<1>2. CASE LoopNext
  BY <1>2, OthersKeep, InitKeeps, SessionKeeps DEF LoopNext
<1> QED
  BY <1>1, <1>2

\* A session of loop-clean keeps its invariant through every interleaving of the
\* inits, the orchestrator's commands (skills/loop-clean/loop-clean.sh) and the
\* edits of others.
THEOREM LoopInvariant == LoopSpec => []LoopInv
BY LoopInitInv, LoopInductive, PTL DEF LoopSpec

\* Every variable keeps its type; in particular the iteration counter stays below
\* the ceiling and every file of decisions holds a known action.
THEOREM LoopTypesHold == LoopSpec => []LoopTypeOK
<1>1. LoopInv => LoopTypeOK
  BY DEF LoopInv, LoopTypes, LoopTypeOK, Iterations, Outcomes
<1> QED
  BY <1>1, LoopInvariant, PTL

\* However many processes run init with one session id (loop-clean.sh:151-222), one
\* at most claims the session, and the marker holds the baseline it captured.
THEOREM OneInitClaims == LoopSpec => []OneClaim
<1>1. LoopInv => OneClaim
  BY DEF LoopInv, ClaimedOnce, OneClaim
<1> QED
  BY <1>1, LoopInvariant, PTL

\* A decision EXIT_CLEAN or EXIT_HANDLED is taken only when every skill read the
\* contents the manifest names and every check passed.
THEOREM CleanHasBeenEarned == LoopSpec => []CleanIsEarned
<1>1. LoopInv => CleanIsEarned
  BY DEF LoopInv
<1> QED
  BY <1>1, LoopInvariant, PTL

\* Before a report of success every check that ever failed has been routed to be
\* fixed and has passed in the last iteration, whatever the router wrote
\* (protocol/deferred-findings.ts) and whichever init replaced the registry.
THEOREM NoCheckEscapes == LoopSpec => []FailedChecksAreFixed
<1>1. LoopInv => FailedChecksAreFixed
  <2> SUFFICES ASSUME LoopInv, report \in {"EXIT_CLEAN", "EXIT_HANDLED"}
               PROVE  \A c \in found \cap Checks : c \in fixed /\ gate[c] = "pass"
    BY DEF FailedChecksAreFixed
  <2>1. decision[iteration].action = report
    BY DEF LoopInv, ReportHolds, Actions
  <2>2. found \cap Checks \subseteq Commands /\ found \cap Checks \subseteq fixed
    BY <2>1 DEF LoopInv, ChecksAreKept
  <2>3. \A c \in Commands : gate[c] = "pass"
    BY <2>1 DEF LoopInv, CleanIsEarned
  <2> QED
    BY <2>2, <2>3
<1> QED
  BY <1>1, LoopInvariant, PTL

\* After a report of success every finding that was ever actionable has been fixed
\* or is in the registry, unless a losing init replaced the registry.
THEOREM NoFindingForgotten == LoopSpec => []NothingForgotten
<1>1. LoopInv => NothingForgotten
  BY DEF LoopInv, FoundIsKept, ReportHolds, NothingForgotten, Actions
<1> QED
  BY <1>1, LoopInvariant, PTL

\* A report without an error is printed only if the index is that of the marker, HEAD
\* is too but for commits made while finalize read the index, and no decision on
\* file records a failed command.
THEOREM ReportsAreTrue == LoopSpec => []ReportIsTrue
<1>1. LoopInv => ReportIsTrue
  <2> SUFFICES ASSUME LoopInv, report \in Actions \ {"EXIT_PROTOCOL_ERROR"}
               PROVE  /\ index = marker.index /\ head = marker.head + lateCommits
                      /\ \A i \in 0 .. iteration : decision[i].action # "EXIT_PROTOCOL_ERROR"
    BY DEF ReportIsTrue
  <2>1. /\ iteration \in Iterations /\ InOrder /\ ~protocolError
        /\ index = marker.index /\ head = marker.head + lateCommits
    BY DEF LoopInv, LoopTypes, ReportHolds
  <2>2. \A i \in 0 .. iteration : i \in Iterations /\ (i < iteration \/ i = iteration)
    BY <2>1, LoopConstants DEF Iterations
  <2> QED
    BY <2>1, <2>2 DEF InOrder
<1> QED
  BY <1>1, LoopInvariant, PTL

-----------------------------------------------------------------------------
(* What no step takes back, and that the session runs down.                 *)

\* How far an iteration has yet to go; before it the session is unclaimed.
StepsLeft ==
  [place \in LoopPcs |->
     CASE place = "init"             -> 15 [] place = "status"        -> 14
       [] place = "content"          -> 13 [] place = "coding-standards" -> 12
       [] place = "senior-review"    -> 11 [] place = "dedup-codebase" -> 10
       [] place = "gate"             -> 9  [] place = "checks"        -> 8
       [] place = "recheck"          -> 7  [] place = "collect"       -> 6
       [] place = "decide"           -> 5  [] place = "fix"           -> 4
       [] place = "route"            -> 3  [] place = "finalize"      -> 2
       [] place = "verify"           -> 1  [] place = "end"           -> 0]

\* A command ends in a later place of the iteration, or in the next iteration,
\* which is below the ceiling.
RunsDown ==
  \/ iteration' = iteration /\ StepsLeft[loopPc'] < StepsLeft[loopPc]
  \/ iteration' = iteration + 1 /\ iteration' < MaxIterations

\* Commands run the session down; others and inits leave its place to it, but
\* for the claim that begins it.
OnlyForward ==
  /\ Session => RunsDown
  /\ Others => UNCHANGED <<iteration, loopPc>>
  /\ \A i \in LoopInits : InitStep(i) =>
       /\ iteration' = iteration
       /\ loopPc' = loopPc \/ (loopPc = "init" /\ loopPc' = "status" /\ Claimed')

\* Every command of the session goes on.
LEMMA SessionForward ==
  ASSUME LoopInv, Session
  PROVE  RunsDown
<1>0. iteration \in Iterations /\ loopPc \in LoopPcs
  BY DEF LoopInv, LoopTypes
<1>2. CASE ReadStatus \/ ReadContents
  BY <1>2 DEF ReadStatus, ReadContents, RunsDown, StepsLeft, LoopPcs, Skills
<1>3. CASE ScopeFails \/ GateRefuses \/ CheckKilled \/ GateDisturbed \/ CollectFails
           \/ RejectRouting
  BY <1>3 DEF ScopeFails, GateRefuses, CheckKilled, GateDisturbed, CollectFails,
     RejectRouting, FailProtocol, RunsDown, StepsLeft, LoopPcs, Skills
<1>4. ASSUME NEW s \in Skills, Review(s) PROVE RunsDown
  BY <1>4 DEF Review, After, RunsDown, StepsLeft, LoopPcs, Skills
<1>5. CASE GateStarts \/ RunChecks \/ GateEnds
  BY <1>5 DEF GateStarts, RunChecks, GateEnds, iterVars, RunsDown, StepsLeft, LoopPcs, Skills
<1>6. CASE CollectFindings \/ Decide \/ Fix
  BY <1>6 DEF CollectFindings, Decide, Fix, RunsDown, StepsLeft, LoopPcs, Skills
<1>7. CASE AcceptRouting
  <2>1. iteration' = iteration + 1 /\ iteration < MaxIterations - 1
    BY <1>7 DEF AcceptRouting, LoopInv, InOrder
  <2> QED
    BY <1>0, <2>1, LoopConstants DEF RunsDown, Iterations
<1>8. CASE ReadHead \/ Finalize
  BY <1>8 DEF ReadHead, Finalize, iterVars, RunsDown, StepsLeft, LoopPcs, Skills
<1> QED
  BY <1>2, <1>3, <1>4, <1>5, <1>6, <1>7, <1>8 DEF Session, RuntimeGate

\* Whatever the skills report, however the routing goes and whoever edits meanwhile,
\* each command brings the session nearer to its end: it has at most MaxIterations
\* rounds (agents/loop-clean-orchestrator.md), and a round has no way back.  What
\* SessionEnds adds is the fairness of the orchestrator.
THEOREM SessionRunsDown == LoopSpec => [][OnlyForward]_loopVars
<1>1. ASSUME LoopInv, [LoopNext]_loopVars PROVE [OnlyForward]_loopVars
  <2>1. Session => RunsDown
    BY <1>1, SessionForward
  <2>2. Others => UNCHANGED <<iteration, loopPc>>
    BY DEF Others, EditPath, StagePaths, CommitAll, iterVars
  <2>3. ASSUME NEW i \in LoopInits, InitStep(i)
        PROVE  /\ iteration' = iteration
               /\ loopPc' = loopPc \/ (loopPc = "init" /\ loopPc' = "status" /\ Claimed')
    <3>1. iteration' = iteration
      BY <2>3 DEF InitStep, InitReadsHead, InitReadsIndex, InitRefused, InitPublish, InitClaim,
         iterVars
    <3>2. CASE InitReadsHead(i) \/ InitReadsIndex(i) \/ InitRefused(i) \/ InitPublish(i)
      BY <3>1, <3>2 DEF InitReadsHead, InitReadsIndex, InitRefused, InitPublish
    <3>3. CASE InitClaim(i)
      BY <1>1, <3>1, <3>3 DEF InitClaim, LoopInv, ClaimedOnce, Claimed, NoBaseline
    <3> QED
      BY <2>3, <3>1, <3>2, <3>3 DEF InitStep
  <2> QED
    BY <2>1, <2>2, <2>3 DEF OnlyForward
<1> QED
  BY <1>1, LoopInvariant, PTL DEF LoopSpec

\* What is on file stays: the marker of a claimed session, the printed report, the
\* record of an error, and each decision, but that the CONTINUE of the running
\* iteration gives way to the error of its routing.  The registry loses entries to
\* an init only, and that is remembered once the session is claimed.
FiledIsFinal ==
  /\ Claimed => marker' = marker
  /\ report # "none" => report' = report
  /\ protocolError => protocolError'
  /\ found \subseteq found' /\ fixed \subseteq fixed'
  /\ \/ registry \subseteq registry'
     \/ /\ \E i \in LoopInits : initPc[i] = "publish" /\ initPc'[i] = "claim"
        /\ Claimed => replaced'
  /\ \A i \in Iterations : decision[i] # NoDecision =>
       \/ decision'[i] = decision[i]
       \/ /\ i = iteration /\ decision[i].action = "CONTINUE"
          /\ decision'[i].action = "EXIT_PROTOCOL_ERROR"

\* An error is filed as the decision of an iteration that had none, or had
\* CONTINUE.
LEMMA FailIsFinal ==
  ASSUME LoopInv, FailProtocol,
         loopPc \in {"status", "content", "gate", "checks", "recheck", "collect", "route"},
         UNCHANGED <<marker, registry, found, fixed>>
  PROVE  FiledIsFinal
<1>1. /\ iteration \in Iterations /\ InOrder
      /\ decision \in [Iterations -> [action : Outcomes, hash : SUBSET Findings]]
  BY DEF LoopInv, LoopTypes
<1>2. /\ decision' = [decision EXCEPT ![iteration] =
                        [action |-> "EXIT_PROTOCOL_ERROR", hash |-> {}]]
      /\ protocolError' /\ report' = report
  BY DEF FailProtocol
<1>3. \A i \in Iterations : i # iteration => decision'[i] = decision[i]
  BY <1>1, <1>2
<1>4. decision'[iteration].action = "EXIT_PROTOCOL_ERROR"
  BY <1>1, <1>2
<1>5. decision[iteration] = NoDecision \/ decision[iteration].action = "CONTINUE"
  BY <1>1 DEF InOrder
<1> QED
  BY <1>2, <1>3, <1>4, <1>5 DEF FiledIsFinal

\* The file of a session is only ever added to (loop-clean.sh:185-222, :412-470): no
\* interleaving of inits, commands and edits takes a claim, a report, an error or a
\* terminal decision back.
THEOREM SessionFileIsFinal == LoopSpec => [][FiledIsFinal]_loopVars
<1>1. ASSUME LoopInv, [LoopNext]_loopVars PROVE [FiledIsFinal]_loopVars
  <2>0. /\ iteration \in Iterations /\ InOrder /\ ReportHolds
        /\ decision \in [Iterations -> [action : Outcomes, hash : SUBSET Findings]]
    BY <1>1 DEF LoopInv, LoopTypes
  <2>1. CASE Others
    BY <2>1 DEF Others, EditPath, StagePaths, CommitAll, initVars, iterVars, ending, loopHistory,
       FiledIsFinal
  <2>2. ASSUME NEW i \in LoopInits, InitStep(i) PROVE FiledIsFinal
    <3>1. UNCHANGED <<decision, report, protocolError, found, fixed>>
      BY <2>2 DEF InitStep, InitReadsHead, InitReadsIndex, InitRefused, InitPublish, InitClaim,
         iterVars, ending, loopHistory
    <3>2. Claimed => marker' = marker
      BY <2>2 DEF InitStep, InitReadsHead, InitReadsIndex, InitRefused, InitPublish, InitClaim
    <3>3. \/ registry \subseteq registry'
          \/ initPc[i] = "publish" /\ initPc'[i] = "claim" /\ (Claimed => replaced')
      <4>1. CASE InitPublish(i)
        <5>1. i \in DOMAIN initPc
          BY <1>1 DEF LoopInv, LoopTypes
        <5> QED
          BY <4>1, <5>1 DEF InitPublish
      <4>2. CASE InitReadsHead(i) \/ InitReadsIndex(i) \/ InitRefused(i) \/ InitClaim(i)
        BY <4>2 DEF InitReadsHead, InitReadsIndex, InitRefused, InitClaim
      <4> QED
        BY <2>2, <4>1, <4>2 DEF InitStep
    <3> QED
      BY <3>1, <3>2, <3>3 DEF FiledIsFinal
  <2>3. CASE ScopeFails \/ GateRefuses \/ CheckKilled \/ GateDisturbed \/ CollectFails
             \/ RejectRouting
    BY <1>1, <2>3, FailIsFinal DEF ScopeFails, GateRefuses, CheckKilled, GateDisturbed,
       CollectFails, RejectRouting, initVars, loopHistory
  <2>4. CASE \/ ReadStatus \/ ReadContents \/ (\E s \in Skills : Review(s))
             \/ GateStarts \/ RunChecks \/ GateEnds \/ CollectFindings \/ Fix
    BY <2>4 DEF ReadStatus, ReadContents, Review, GateStarts, RunChecks, GateEnds,
       CollectFindings, Fix, initVars, iterVars, ending, loopHistory, FiledIsFinal
  <2>5. CASE Decide
    <3>1. decision[iteration] = NoDecision /\ report' = report
      BY <2>0, <2>5 DEF Decide, InOrder, ending
    <3>2. \A i \in Iterations : i # iteration => decision'[i] = decision[i]
      BY <2>0, <2>5 DEF Decide
    <3> QED
      BY <2>5, <3>1, <3>2 DEF Decide, FiledIsFinal, initVars, ending, loopHistory
  <2>6. CASE AcceptRouting
    BY <2>6 DEF AcceptRouting, FiledIsFinal, initVars, ending
  <2>7. CASE ReadHead \/ Finalize
    BY <2>0, <2>7 DEF ReadHead, Finalize, ReportHolds, FiledIsFinal, initVars, iterVars, loopHistory
  <2> QED
    BY <1>1, <2>1, <2>2, <2>3, <2>4, <2>5, <2>6, <2>7 DEF LoopNext, Session, RuntimeGate
<1> QED
  BY <1>1, LoopInvariant, PTL DEF LoopSpec
=============================================================================
