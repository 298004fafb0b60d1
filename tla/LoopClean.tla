----------------------------- MODULE LoopClean -----------------------------
(***************************************************************************)
(* A session of skills/loop-clean: the controller loop-clean.sh and the    *)
(* protocol package it calls, driven by the orchestrator agent in the      *)
(* order of agents/loop-clean-orchestrator.md, on a worktree that others   *)
(* edit meanwhile.                                                         *)
(*                                                                         *)
(* The content of a path is a version number.  A scope manifest stands for *)
(* its digest; a finding stands for its canonical id, and that of a failed *)
(* check is the check's name.  A report that is missing, malformed, bound  *)
(* to another scope or foreign to its source is Unusable.                  *)
(***************************************************************************)
EXTENDS Naturals, FiniteSets

CONSTANTS
  LoopPaths,      \* paths of the repository ...
  Ledgers,        \* ... and the ledgers of loop-clean among them
  Reviewed,       \* findings the three semantic skills may report
  SkillOf,        \* the skill that reports each of them
  GateConfigs,    \* what the stack evaluation and package.json may say
  MaxIterations,  \* MAX_ITERATIONS, 10 in the code
  LoopInits,      \* processes that run init with the same session id
  MaxTouches      \* bound on the steps of others on the repository

Skills == {"coding-standards", "senior-review", "dedup-codebase"}
Checks == {"test", "lint", "typecheck"}
Findings == Reviewed \cup Checks

\* The skill that follows another in the orchestrator's order.
After == [s \in Skills |-> CASE s = "coding-standards" -> "senior-review"
                             [] s = "senior-review" -> "dedup-codebase"
                             [] s = "dedup-codebase" -> "gate"]

\* PACKAGE_MANAGER_LOCKFILES
LockManager ==
  [f \in {"bun.lock", "bun.lockb", "pnpm-lock.yaml", "yarn.lock",
          "package-lock.json", "npm-shrinkwrap.json"} |->
     CASE f \in {"bun.lock", "bun.lockb"} -> "bun"
       [] f = "pnpm-lock.yaml" -> "pnpm"
       [] f = "yarn.lock" -> "yarn"
       [] OTHER -> "npm"]

Managers == {"bun", "npm", "pnpm", "yarn"}

ASSUME LoopConstants ==
  /\ Ledgers \subseteq LoopPaths
  /\ Reviewed \cap Checks = {}
  /\ SkillOf \in [Reviewed -> Skills]
  /\ MaxIterations \in Nat \ {0}
  /\ MaxTouches \in Nat
  /\ IsFiniteSet(Findings)
  /\ \A c \in GateConfigs :
       /\ {c.stack, c.pkg} \subseteq Managers \cup {"silent", "invalid"}
       /\ c.locks \subseteq DOMAIN LockManager
       /\ c.commands \subseteq Checks

VARIABLES
  work, base,     \* content of each path in the worktree and in HEAD
  head, index,    \* versions of HEAD and of the index
  touches,        \* steps of others so far
  initPc, capture,\* of each init: its place, the baseline it captured
  marker,         \* git-baseline.json, which claims the session
  registry,       \* finding ids in deferred-findings.json
  loopPc,         \* where the orchestrator is
  iteration,
  gateConfig,
  scope,          \* scope.json of the iteration
  reported,       \* findings of the skills' reported, or Unusable if one is
  gate,           \* result of each check in the iteration
  findings,       \* findings.json of the iteration
  decision,       \* decision.json of each iteration
  routing,        \* fix-or-backlog.json: pairs of a finding and a category
  protocolError,  \* protocol-error.json exists
  headRead,       \* HEAD as finalize has read it
  report,         \* the final action finalize printed
  faithful,       \* history: what the skills read is what the scope names
  found, fixed,   \* history: findings that were actionable, and fixed
  replaced,       \* history: an init replaced the registry of a session
  lateCommits      \* history: commits after finalize had read HEAD

repoVars == <<work, base, head, index, touches>>
initVars == <<initPc, capture, marker>>
iterVars == <<iteration, gateConfig, scope, reported, gate, findings, decision,
              routing>>
loopHistory == <<faithful, found, fixed, replaced, lateCommits>>
ending == <<protocolError, headRead, report>>
loopVars == <<repoVars, initVars, registry, loopPc, iterVars, ending, loopHistory>>

\* No finding is called so.
Unusable == {"unusable"}
NoBaseline == [head |-> 0, index |-> 0]
NoScope == [entries |-> {}, index |-> 0, content |-> <<>>]
NoFindings == [actionable |-> {}, deferred |-> {}, status |-> "none"]
NoDecision == [action |-> "none", hash |-> {}]
NotRun == [c \in Checks |-> "skipped"]

LoopInit ==
  /\ base = [p \in LoopPaths |-> 0]
  /\ work \in [LoopPaths -> {0, 1}]
  /\ head = 1 /\ index = 1
  /\ touches = 0
  /\ initPc = [i \in LoopInits |-> "start"]
  /\ capture = [i \in LoopInits |-> NoBaseline]
  /\ marker = NoBaseline
  /\ registry = {}
  /\ loopPc = "init"
  /\ iteration = 0
  /\ gateConfig \in GateConfigs
  /\ scope = NoScope
  /\ reported = {}
  /\ gate = NotRun
  /\ findings = NoFindings
  /\ decision = [i \in 0 .. MaxIterations - 1 |-> NoDecision]
  /\ routing = {}
  /\ protocolError = FALSE
  /\ headRead = 0
  /\ report = "none"
  /\ faithful = TRUE
  /\ found = {} /\ fixed = {}
  /\ replaced = FALSE /\ lateCommits = 0

-----------------------------------------------------------------------------
(* Others at work on the repository.  No edit restores an earlier content.  *)

Touch ==
  /\ touches < MaxTouches
  /\ report = "none"
  /\ touches' = touches + 1

EditPath(p) ==
  /\ Touch
  /\ work' = [work EXCEPT ![p] = @ + 1]
  /\ UNCHANGED <<base, head, index, initVars, registry, loopPc, iterVars,
                 ending, loopHistory>>

StagePaths ==
  /\ Touch
  /\ index' = index + 1
  /\ UNCHANGED <<work, base, head, initVars, registry, loopPc, iterVars, ending,
                 loopHistory>>

\* A commit of what was staged already leaves the index as it is.
CommitAll ==
  /\ Touch
  /\ base' = work
  /\ head' = head + 1
  /\ index' \in {index, index + 1}
  /\ lateCommits' = IF loopPc = "verify" THEN lateCommits + 1 ELSE lateCommits
  /\ UNCHANGED <<work, initVars, registry, loopPc, iterVars, ending, faithful,
                 found, fixed, replaced>>

-----------------------------------------------------------------------------
(* init.                                                                    *)

Claimed == marker # NoBaseline

\* With the marker in place the session is taken.  captureGitInvariants reads
\* HEAD first, then the index.
InitReadsHead(i) ==
  /\ initPc[i] = "start"
  /\ ~Claimed
  /\ capture' = [capture EXCEPT ![i].head = head]
  /\ initPc' = [initPc EXCEPT ![i] = "index"]
  /\ UNCHANGED <<repoVars, marker, registry, loopPc, iterVars, ending,
                 loopHistory>>

InitReadsIndex(i) ==
  /\ initPc[i] = "index"
  /\ capture' = [capture EXCEPT ![i].index = index]
  /\ initPc' = [initPc EXCEPT ![i] = "publish"]
  /\ UNCHANGED <<repoVars, marker, registry, loopPc, iterVars, ending,
                 loopHistory>>

\* The session is taken, or something fails: the baseline cannot be captured, the
\* registry not published, the marker not linked.
InitRefused(i) ==
  /\ initPc[i] \in {"start", "index", "publish", "claim"}
  /\ initPc' = [initPc EXCEPT ![i] = "refused"]
  /\ UNCHANGED <<repoVars, capture, marker, registry, loopPc, iterVars, ending,
                 loopHistory>>

\* mv replaces whatever registry is there.
InitPublish(i) ==
  /\ initPc[i] = "publish"
  /\ registry' = {}
  /\ replaced' = (replaced \/ Claimed)
  /\ initPc' = [initPc EXCEPT ![i] = "claim"]
  /\ UNCHANGED <<repoVars, capture, marker, loopPc, iterVars, ending, faithful,
                 found, fixed, lateCommits>>

\* Mutant of InitClaim: mv instead of ln, the last init wins.
InitClaimByMove(i) ==
  /\ initPc[i] = "claim"
  /\ marker' = capture[i]
  /\ loopPc' = IF Claimed THEN loopPc ELSE "status"
  /\ initPc' = [initPc EXCEPT ![i] = "claimed"]
  /\ UNCHANGED <<repoVars, capture, registry, iterVars, ending, loopHistory>>

\* ln fails if the marker exists.
InitClaim(i) ==
  /\ initPc[i] = "claim"
  /\ IF Claimed
     THEN /\ initPc' = [initPc EXCEPT ![i] = "refused"]
          /\ UNCHANGED <<marker, loopPc>>
     ELSE /\ marker' = capture[i]
          /\ initPc' = [initPc EXCEPT ![i] = "claimed"]
          /\ loopPc' = "status"
  /\ UNCHANGED <<repoVars, capture, registry, iterVars, ending, loopHistory>>

-----------------------------------------------------------------------------
(* The scope manifest.                                                      *)

\* The paths git status reports.
Changed == {p \in LoopPaths : work[p] # base[p]}

\* auditExclusion
Auditable(entries) == entries \ Ledgers

ReadContent(entries) == [p \in entries |-> work[p]]

CurrentScope ==
  [entries |-> Changed, index |-> index, content |-> ReadContent(Changed)]

\* _fail_protocol: the error is recorded and is the decision of the iteration.
FailProtocol ==
  /\ protocolError' = TRUE
  /\ UNCHANGED <<headRead, report>>
  /\ decision' = [decision EXCEPT ![iteration] =
                    [action |-> "EXIT_PROTOCOL_ERROR", hash |-> {}]]
  /\ loopPc' = "finalize"

\* prepare-iter, first half: git status.  The files of the iteration are new.
ReadStatus ==
  /\ loopPc = "status"
  /\ iteration < MaxIterations
  /\ scope' = [NoScope EXCEPT !.entries = Changed]
  /\ reported' = {}
  /\ gate' = NotRun
  /\ findings' = NoFindings
  /\ routing' = {}
  /\ faithful' = TRUE
  /\ loopPc' = "content"
  /\ UNCHANGED <<repoVars, initVars, registry, iteration, gateConfig, decision,
                 ending, found, fixed, replaced, lateCommits>>

\* Second half: the index and the contents of the entries.
ReadContents ==
  /\ loopPc = "content"
  /\ scope' = [scope EXCEPT !.index = index, !.content = ReadContent(scope.entries)]
  /\ loopPc' = IF iteration = 0 /\ Auditable(scope.entries) = {}
               THEN "decide" ELSE "coding-standards"
  /\ UNCHANGED <<repoVars, initVars, registry, iteration, gateConfig, reported,
                 gate, findings, decision, routing, ending, loopHistory>>

\* A git read fails, or an entry vanishes between the two halves.
ScopeFails ==
  /\ loopPc \in {"status", "content"}
  /\ iteration < MaxIterations
  /\ FailProtocol
  /\ UNCHANGED <<repoVars, initVars, registry, iteration, gateConfig, scope,
                 reported, gate, findings, routing, loopHistory>>

-----------------------------------------------------------------------------
(* The four sources.                                                        *)

\* A semantic skill reads the entries' content of that moment and reports any
\* findings of its own, or nothing usable.
Review(s) ==
  /\ loopPc = s
  /\ \/ reported' = Unusable
     \/ /\ reported # Unusable
        /\ \E r \in SUBSET {f \in Reviewed : SkillOf[f] = s} :
             reported' = reported \cup r
  /\ faithful' = (faithful /\ ReadContent(scope.entries) = scope.content)
  /\ loopPc' = After[s]
  /\ UNCHANGED <<repoVars, initVars, registry, iteration, gateConfig, scope,
                 gate, findings, decision, routing, ending, found, fixed,
                 replaced, lateCommits>>

\* resolvePackageManager: a declaration wins, an unsupported one is an error,
\* and so is more than one lockfile.
PackageManager(c) ==
  CASE c.stack # "silent" -> c.stack
    [] c.stack = "silent" /\ c.pkg # "silent" -> c.pkg
    [] OTHER -> IF Cardinality(c.locks) > 1 THEN "invalid"
                ELSE IF c.locks = {} THEN "npm"
                ELSE LockManager[CHOOSE f \in c.locks : TRUE]

\* Mutant of ScopeMoved: only the list of entries is compared.
ScopeMovedInNames == CurrentScope.entries # scope.entries

ScopeMoved == CurrentScope # scope

GateStarts ==
  /\ loopPc = "gate"
  /\ ~ScopeMoved
  /\ PackageManager(gateConfig) # "invalid"
  /\ loopPc' = "checks"
  /\ UNCHANGED <<repoVars, initVars, registry, iterVars, ending, loopHistory>>

GateRefuses ==
  /\ loopPc = "gate"
  /\ ScopeMoved \/ PackageManager(gateConfig) = "invalid"
  /\ FailProtocol
  /\ UNCHANGED <<repoVars, initVars, registry, iteration, gateConfig, scope,
                 reported, gate, findings, routing, loopHistory>>

\* resolveRuntimeCommands: the checks a command is declared or detected for.
Commands == gateConfig.commands

\* A check without a command is skipped, the others pass or fail.
RunChecks ==
  /\ loopPc = "checks"
  /\ \E failed \in SUBSET Commands :
       gate' = [c \in Checks |-> CASE c \in failed -> "fail"
                                   [] c \in Commands \ failed -> "pass"
                                   [] OTHER -> "skipped"]
  /\ loopPc' = "recheck"
  /\ UNCHANGED <<repoVars, initVars, registry, iteration, gateConfig, scope,
                 reported, findings, decision, routing, ending, loopHistory>>

\* A check that dies of a signal has no exit code.
CheckKilled ==
  /\ loopPc = "checks"
  /\ Commands # {}
  /\ FailProtocol
  /\ UNCHANGED <<repoVars, initVars, registry, iteration, gateConfig, scope,
                 reported, gate, findings, routing, loopHistory>>

GateEnds ==
  /\ loopPc = "recheck"
  /\ ~ScopeMoved
  /\ loopPc' = "collect"
  /\ UNCHANGED <<repoVars, initVars, registry, iterVars, ending, loopHistory>>

\* The checks, or somebody, changed the worktree meanwhile.
GateDisturbed ==
  /\ loopPc = "recheck"
  /\ ScopeMoved
  /\ FailProtocol
  /\ UNCHANGED <<repoVars, initVars, registry, iteration, gateConfig, scope,
                 reported, gate, findings, routing, loopHistory>>

Failed == {c \in Checks : gate[c] = "fail"}

GateStatus ==
  IF Failed # {} THEN "fail"
  ELSE IF \A c \in Checks : gate[c] = "skipped" THEN "skipped" ELSE "pass"

-----------------------------------------------------------------------------
(* Collection, decision, routing.                                           *)

Reported == Failed \cup reported

\* All reports are usable and no failed check has been deferred.
Collectable ==
  /\ reported # Unusable
  /\ Failed \cap registry = {}

CollectFindings ==
  /\ loopPc = "collect"
  /\ Collectable
  /\ findings' = [actionable |-> Reported \ registry,
                  deferred |-> Reported \cap registry,
                  status |-> GateStatus]
  /\ found' = found \cup (Reported \ registry)
  /\ loopPc' = "decide"
  /\ UNCHANGED <<repoVars, initVars, registry, iteration, gateConfig, scope,
                 reported, gate, decision, routing, ending, faithful, fixed,
                 replaced, lateCommits>>

CollectFails ==
  /\ loopPc = "collect"
  /\ ~Collectable
  /\ FailProtocol
  /\ UNCHANGED <<repoVars, initVars, registry, iteration, gateConfig, scope,
                 reported, gate, findings, routing, loopHistory>>

\* The actionable set is that of the previous iteration.
Oscillates ==
  /\ iteration > 0
  /\ decision[iteration - 1].hash = findings.actionable

\* Mutant of Verdict: the last iteration may continue.
VerdictWithoutCeiling ==
  IF iteration = 0 /\ Auditable(scope.entries) = {} THEN "EXIT_NO_CHANGES"
  ELSE IF findings.actionable # {}
  THEN IF Oscillates THEN "EXIT_OSCILLATION" ELSE "CONTINUE"
  ELSE IF findings.deferred = {} THEN "EXIT_CLEAN" ELSE "EXIT_HANDLED"

Verdict ==
  IF iteration = 0 /\ Auditable(scope.entries) = {} THEN "EXIT_NO_CHANGES"
  ELSE IF findings.actionable # {}
  THEN IF Oscillates THEN "EXIT_OSCILLATION"
       ELSE IF iteration >= MaxIterations - 1 THEN "EXIT_CEILING"
       ELSE "CONTINUE"
  ELSE IF findings.deferred = {} THEN "EXIT_CLEAN" ELSE "EXIT_HANDLED"

\* Collection leaves no failed gate without a finding, so the branches of
\* decide that look for one are never taken.
Decide ==
  /\ loopPc = "decide"
  /\ decision' = [decision EXCEPT ![iteration] =
                    [action |-> Verdict, hash |-> findings.actionable]]
  /\ loopPc' = IF Verdict = "CONTINUE" THEN "fix" ELSE "finalize"
  /\ UNCHANGED <<repoVars, initVars, registry, iteration, gateConfig, scope,
                 reported, gate, findings, routing, ending, loopHistory>>

\* fix-or-backlog edits the worktree and the ledgers and writes how it routed
\* the findings, well or badly.  The five categories that defer are one.
Routes == {"fix_now_applied", "deferred"}

Fix ==
  /\ loopPc = "fix"
  /\ routing' \in SUBSET ((Reviewed \cup Commands) \X Routes)
  /\ work' \in {work, [p \in LoopPaths |-> work[p] + 1]}
  /\ loopPc' = "route"
  /\ UNCHANGED <<base, head, index, touches, initVars, registry, iteration,
                 gateConfig, scope, reported, gate, findings, decision, ending,
                 loopHistory>>

RoutedTo(route) == {f \in Findings : <<f, route>> \in routing}

\* Mutant of ValidRouting: findings may be left out.
ValidRoutingOfSome ==
  /\ \A r \in routing : r[1] \in findings.actionable
  /\ RoutedTo("fix_now_applied") \cap RoutedTo("deferred") = {}
  /\ RoutedTo("deferred") \cap Checks = {}

\* Mutant of ValidRouting: a failed check may be deferred.
ValidRoutingOfChecks ==
  /\ \A r \in routing : r[1] \in findings.actionable
  /\ RoutedTo("fix_now_applied") \cap RoutedTo("deferred") = {}
  /\ findings.actionable \subseteq RoutedTo("fix_now_applied") \cup RoutedTo("deferred")

\* Every actionable finding has one category, and no other finding has; a
\* failed check must be fixed.
ValidRouting ==
  /\ \A r \in routing : r[1] \in findings.actionable
  /\ RoutedTo("fix_now_applied") \cap RoutedTo("deferred") = {}
  /\ RoutedTo("deferred") \cap Checks = {}
  /\ findings.actionable \subseteq RoutedTo("fix_now_applied") \cup RoutedTo("deferred")

\* What is deferred joins the registry of the session; then the next iteration.
AcceptRouting ==
  /\ loopPc = "route"
  /\ ValidRouting
  /\ registry' = registry \cup RoutedTo("deferred")
  /\ fixed' = fixed \cup RoutedTo("fix_now_applied")
  /\ iteration' = iteration + 1
  /\ loopPc' = "status"
  /\ UNCHANGED <<repoVars, initVars, gateConfig, scope, reported, gate,
                 findings, decision, routing, ending, faithful, found, replaced,
                 lateCommits>>

RejectRouting ==
  /\ loopPc = "route"
  /\ ~ValidRouting
  /\ FailProtocol
  /\ UNCHANGED <<repoVars, initVars, registry, iteration, gateConfig, scope,
                 reported, gate, findings, routing, loopHistory>>

-----------------------------------------------------------------------------
(* finalize.                                                                *)

\* The last decision on file.
LastAction ==
  LET filed == {i \in DOMAIN decision : decision[i] # NoDecision}
  IN  IF filed = {} THEN "UNKNOWN"
      ELSE decision[CHOOSE i \in filed : \A j \in filed : j <= i].action

\* Mutant of GitVerified: a changed index goes unnoticed.
GitVerifiedByHead == headRead = marker.head

GitVerified == [head |-> headRead, index |-> index] = marker

\* verifyGitInvariants reads HEAD first ...
ReadHead ==
  /\ loopPc = "finalize"
  /\ headRead' = head
  /\ loopPc' = "verify"
  /\ UNCHANGED <<repoVars, initVars, registry, iterVars, protocolError, report,
                 loopHistory>>

\* ... then the index, and compares; each read may fail.
Finalize ==
  /\ loopPc = "verify"
  /\ \/ report' = IF protocolError \/ ~GitVerified \/ LastAction = "UNKNOWN"
                  THEN "EXIT_PROTOCOL_ERROR" ELSE LastAction
     \/ report' = "EXIT_PROTOCOL_ERROR"
  /\ loopPc' = "end"
  /\ UNCHANGED <<repoVars, initVars, registry, iterVars, protocolError,
                 headRead, loopHistory>>

-----------------------------------------------------------------------------
Others == (\E p \in LoopPaths : EditPath(p)) \/ StagePaths \/ CommitAll

InitStep(i) ==
  \/ InitReadsHead(i) \/ InitReadsIndex(i) \/ InitRefused(i)
  \/ InitPublish(i) \/ InitClaim(i)

RuntimeGate ==
  GateStarts \/ GateRefuses \/ RunChecks \/ CheckKilled \/ GateEnds \/ GateDisturbed

Session ==
  \/ ReadStatus \/ ReadContents \/ ScopeFails
  \/ \E s \in Skills : Review(s)
  \/ RuntimeGate
  \/ CollectFindings \/ CollectFails \/ Decide
  \/ Fix \/ AcceptRouting \/ RejectRouting \/ ReadHead \/ Finalize

LoopNext == Others \/ (\E i \in LoopInits : InitStep(i)) \/ Session

LoopSpec == LoopInit /\ [][LoopNext]_loopVars

\* The orchestrator carries on, and the commands and skills it runs return.
LoopFairness == WF_loopVars(Session)

-----------------------------------------------------------------------------
(* Properties.                                                              *)

Actions == {"EXIT_NO_CHANGES", "EXIT_CLEAN", "EXIT_HANDLED", "EXIT_OSCILLATION",
            "EXIT_CEILING", "EXIT_PROTOCOL_ERROR"}

LoopPcs == {"init", "status", "content", "gate", "checks", "recheck", "collect",
            "decide", "fix", "route", "finalize", "verify", "end"} \cup Skills

\* Every variable keeps its type.
LoopTypeOK ==
  /\ work \in [LoopPaths -> Nat] /\ base \in [LoopPaths -> Nat]
  /\ head \in Nat /\ index \in Nat
  /\ touches \in 0 .. MaxTouches
  /\ initPc \in [LoopInits -> {"start", "index", "publish", "claim", "claimed",
                               "refused"}]
  /\ registry \subseteq Findings
  /\ loopPc \in LoopPcs
  /\ iteration \in 0 .. MaxIterations - 1
  /\ gateConfig \in GateConfigs
  /\ scope.entries \subseteq LoopPaths /\ scope.index \in Nat
  /\ reported = Unusable \/ reported \subseteq Reviewed
  /\ gate \in [Checks -> {"pass", "fail", "skipped"}]
  /\ findings.actionable \subseteq Findings /\ findings.deferred \subseteq Findings
  /\ \A i \in 0 .. MaxIterations - 1 :
       decision[i].action \in Actions \cup {"none", "CONTINUE"}
  /\ routing \subseteq Findings \X Routes
  /\ headRead \in Nat /\ report \in Actions \cup {"none"}

\* "Two concurrent inits with the same session ID cannot both succeed"
\* (loop-clean.sh:193): one init at most claims the session, and the baseline
\* the session is judged by in the end is the one that init captured.
OneClaim ==
  /\ \A i, j \in LoopInits :
       initPc[i] = "claimed" /\ initPc[j] = "claimed" => i = j
  /\ \A i \in LoopInits : initPc[i] = "claimed" => marker = capture[i]

\* A session that ends clean or handled has earned it: every skill has read
\* the very contents the manifest names, though others edit at any time, and
\* every check there is passed.
CleanIsEarned ==
  decision[iteration].action \in {"EXIT_CLEAN", "EXIT_HANDLED"} =>
    /\ faithful
    /\ \A c \in Commands : gate[c] = "pass"

\* "That finding may never be deferred" (agents/loop-clean-orchestrator.md): a
\* check that failed in whatever iteration has been routed to be fixed before a
\* good end, and passes there - whatever the router writes, and also when a
\* losing init has replaced the registry.
FailedChecksAreFixed ==
  report \in {"EXIT_CLEAN", "EXIT_HANDLED"} =>
    \A c \in found \cap Checks : c \in fixed /\ gate[c] = "pass"

\* No finding is dropped on the way: at a good end each one that was ever
\* actionable has been fixed or is in the registry - unless a losing init has
\* replaced the registry.
NothingForgotten ==
  report \in {"EXIT_CLEAN", "EXIT_HANDLED"} /\ ~replaced =>
    found \subseteq fixed \cup registry

\* A report without an error means that no command failed on the way, and that
\* HEAD and index are as the session's init found them, whatever others stage or
\* commit, and whenever: all that goes unnoticed is commits of what was staged
\* already, made while finalize reads the index.
ReportIsTrue ==
  report \in Actions \ {"EXIT_PROTOCOL_ERROR"} =>
    /\ index = marker.index
    /\ head = marker.head + lateCommits
    /\ \A i \in 0 .. iteration : decision[i].action # "EXIT_PROTOCOL_ERROR"

\* Every session that was initialised ends with a terminal action, after at
\* most MaxIterations rounds of review and fix.
SessionEnds == Claimed ~> (report \in Actions)
=============================================================================
