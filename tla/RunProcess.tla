----------------------------- MODULE RunProcess -----------------------------
(***************************************************************************)
(* One call of runProcess (packages/node-runtime/src/run-process.ts): a    *)
(* child process in a group of its own, whose end races with an abort, a   *)
(* time-out, the limit on captured output and I/O failures, each of which  *)
(* has the group terminated and may become the outcome of the call.        *)
(*                                                                         *)
(* The group is the child (Leader) and the descendants it leaves (Heirs).  *)
(* Output is counted in bytes.  Arguments that validateInvocation rejects, *)
(* and the text of results and errors, are left out.                       *)
(***************************************************************************)
EXTENDS Naturals

CONSTANTS
  Leader,      \* the process that is spawned
  Heirs,       \* the descendants it may fork
  Stubborn,    \* the processes that ignore SIGTERM
  Detached,    \* the heirs that do not keep the pipes of the Leader open
  MaxCapture,  \* maxCaptureBytes
  MaxBytes     \* bound on what is written to one stream

Procs == {Leader} \cup Heirs
Streams == {"stdout", "stderr"}

ASSUME ProcessConstants ==
  /\ Leader \notin Heirs
  /\ Stubborn \subseteq Procs
  /\ Detached \subseteq Heirs
  /\ MaxCapture \in Nat
  /\ MaxBytes \in Nat

VARIABLES
  \* the group and its pipes
  alive,        \* its processes
  doomed,       \* those that have received a signal they cannot survive
  forked,       \* the heirs there have been
  exit,         \* how the Leader ended, as node reports it
  pipe,         \* bytes written to each stream and not read yet
  written,      \* bytes written to each stream
  \* the call
  pc,
  task,         \* the promise of monitorOutput for each stream
  chunk,        \* bytes its handler is working on
  captured,     \* bytes captured
  input,        \* the promise of writeInput
  finished,     \* processFinished
  reason,       \* requestedTermination
  failure,      \* ioState.failure
  terminating,  \* terminationStarted
  grace,        \* the timer of the SIGKILL
  timer,        \* the timer of options.timeoutMs
  abort,        \* options.signal
  result

group == <<alive, doomed, forked, exit>>
output == <<pipe, written, task, chunk, captured>>
ending == <<reason, failure, terminating, grace>>
call == <<input, finished, timer, abort>>
vars == <<group, output, ending, call, pc, result>>

Init ==
  /\ alive = {}
  /\ doomed = {}
  /\ forked = {}
  /\ exit = "none"
  /\ pipe = [s \in Streams |-> 0]
  /\ written = [s \in Streams |-> 0]
  /\ pc = "new"
  /\ task = [s \in Streams |-> "read"]
  /\ chunk = [s \in Streams |-> 0]
  /\ captured = [s \in Streams |-> 0]
  /\ input = "writing"
  /\ finished = FALSE
  /\ reason = "none"
  /\ failure = "none"
  /\ terminating = FALSE
  /\ grace = "unset"
  /\ timer \in {"unset", "armed"}
  /\ abort \in {"absent", "pending", "aborted"}
  /\ result = "none"

-----------------------------------------------------------------------------
(* The start of the call.                                                   *)

\* A signal that is already aborted: nothing is spawned.
Refuse ==
  /\ pc = "new"
  /\ abort = "aborted"
  /\ result' = "aborted"
  /\ pc' = "settled"
  /\ UNCHANGED <<group, output, ending, call>>

Spawn ==
  /\ pc = "new"
  /\ abort # "aborted"
  /\ alive' = {Leader}
  /\ pc' = "running"
  /\ UNCHANGED <<doomed, forked, exit, output, ending, call, result>>

\* There is no such executable; the error event is still to come.
SpawnMissing ==
  /\ pc = "new"
  /\ abort # "aborted"
  /\ exit' = "missing"
  /\ pc' = "running"
  /\ UNCHANGED <<alive, doomed, forked, output, ending, call, result>>

-----------------------------------------------------------------------------
(* The group.                                                               *)

Acting == alive \ doomed
Holders == alive \ Detached

Fork(h) ==
  /\ Leader \in Acting
  /\ h \notin forked
  /\ alive' = alive \cup {h}
  /\ forked' = forked \cup {h}
  /\ UNCHANGED <<doomed, exit, output, ending, call, pc, result>>

Write(s, n) ==
  /\ Acting \ Detached # {}
  /\ task[s] # "failed"
  /\ written[s] + n <= MaxBytes
  /\ pipe' = [pipe EXCEPT ![s] = @ + n]
  /\ written' = [written EXCEPT ![s] = @ + n]
  /\ UNCHANGED <<group, task, chunk, captured, ending, call, pc, result>>

\* How node reports the end of the Leader: exitCode is a number or null.
Exits(p) == IF p = Leader THEN {"code", "signal"} ELSE {exit}

\* A process ends of itself, or by a signal from elsewhere, ...
End(p) ==
  /\ p \in Acting
  /\ alive' = alive \ {p}
  /\ exit' \in Exits(p)
  /\ UNCHANGED <<doomed, forked, output, ending, call, pc, result>>

\* ... or by the signal of the call, which it may have caught to end orderly.
Die(p) ==
  /\ p \in doomed
  /\ alive' = alive \ {p}
  /\ doomed' = doomed \ {p}
  /\ exit' \in Exits(p)
  /\ UNCHANGED <<forked, output, ending, call, pc, result>>

-----------------------------------------------------------------------------
(* Termination.                                                             *)

\* beginTermination: once, SIGTERM to the group and a timer.
BeginTermination ==
  IF terminating \/ finished
  THEN UNCHANGED <<doomed, terminating, grace>>
  ELSE /\ doomed' = doomed \cup (alive \ Stubborn)
       /\ terminating' = TRUE
       /\ grace' = "armed"

\* Mutant of RequestTermination: the end of the process is not looked at.
RequestTerminationLate(r) ==
  IF reason # "none"
  THEN UNCHANGED <<doomed, reason, terminating, grace>>
  ELSE reason' = r /\ BeginTermination

\* requestTermination: the first reason stays, and none is taken after the
\* end, the limit on output excepted.
RequestTermination(r) ==
  IF reason # "none" \/ (finished /\ r # "output-limit")
  THEN UNCHANGED <<doomed, reason, terminating, grace>>
  ELSE reason' = r /\ BeginTermination

\* recordIoFailure
RecordIoFailure(phase) ==
  IF failure # "none"
  THEN UNCHANGED <<doomed, failure, terminating, grace>>
  ELSE failure' = phase /\ BeginTermination

Abort ==
  /\ pc = "running"
  /\ abort = "pending"
  /\ abort' = "aborted"
  /\ RequestTermination("aborted")
  /\ UNCHANGED <<alive, forked, exit, output, failure, input, finished, timer,
                 pc, result>>

Timeout ==
  /\ pc = "running"
  /\ timer = "armed"
  /\ timer' = "fired"
  /\ RequestTermination("timeout")
  /\ UNCHANGED <<alive, forked, exit, output, failure, input, finished, abort,
                 pc, result>>

\* Mutant of GraceEnds: only a Leader that still runs is followed up.
GraceEndsForLeader ==
  /\ pc = "running"
  /\ grace = "armed"
  /\ grace' = "fired"
  /\ doomed' = IF Leader \in alive THEN alive ELSE doomed
  /\ UNCHANGED <<alive, forked, exit, output, reason, failure, terminating,
                 call, pc, result>>

\* SIGKILL to what is left of the group, unless the streams have closed.
GraceEnds ==
  /\ pc = "running"
  /\ grace = "armed"
  /\ grace' = "fired"
  /\ doomed' = IF finished THEN doomed ELSE alive
  /\ UNCHANGED <<alive, forked, exit, output, reason, failure, terminating,
                 call, pc, result>>

-----------------------------------------------------------------------------
(* Output and input.                                                        *)

\* monitorOutput: the loop takes a chunk and awaits the handler, ...
ReadChunk(s, n) ==
  /\ pc = "running"
  /\ task[s] = "read"
  /\ n <= pipe[s]
  /\ pipe' = [pipe EXCEPT ![s] = @ - n]
  /\ chunk' = [chunk EXCEPT ![s] = n]
  /\ task' = [task EXCEPT ![s] = "handle"]
  /\ UNCHANGED <<group, written, captured, ending, call, pc, result>>

\* ... then captures what there is room for ...
Fits(s) == chunk[s] <= MaxCapture - captured[s]

\* Mutant of HandleChunk: the chunk that passes the limit is kept whole.
HandleChunkWhole(s) ==
  /\ pc = "running"
  /\ task[s] = "handle"
  /\ task' = [task EXCEPT ![s] = "read"]
  /\ chunk' = [chunk EXCEPT ![s] = 0]
  /\ captured' = [captured EXCEPT ![s] = @ + chunk[s]]
  /\ IF Fits(s) THEN UNCHANGED <<doomed, reason, terminating, grace>>
                ELSE RequestTermination("output-limit")
  /\ UNCHANGED <<alive, forked, exit, pipe, written, failure, call, pc, result>>

\* ... and asks for the end when there was too little.
HandleChunk(s) ==
  /\ pc = "running"
  /\ task[s] = "handle"
  /\ task' = [task EXCEPT ![s] = "read"]
  /\ chunk' = [chunk EXCEPT ![s] = 0]
  /\ captured' = [captured EXCEPT ![s] = IF Fits(s) THEN @ + chunk[s] ELSE MaxCapture]
  /\ IF Fits(s) THEN UNCHANGED <<doomed, reason, terminating, grace>>
                ELSE RequestTermination("output-limit")
  /\ UNCHANGED <<alive, forked, exit, pipe, written, failure, call, pc, result>>

\* The handler rejects or the stream fails: the loop destroys the stream.
OutputFails(s) ==
  /\ pc = "running"
  /\ task[s] \in {"read", "handle"}
  /\ task' = [task EXCEPT ![s] = "failed"]
  /\ pipe' = [pipe EXCEPT ![s] = 0]
  /\ chunk' = [chunk EXCEPT ![s] = 0]
  /\ RecordIoFailure(s)
  /\ UNCHANGED <<alive, forked, exit, written, captured, reason, call, pc,
                 result>>

\* The stream is at its end: all has been read and nobody can write.
Ended(s) == pipe[s] = 0 /\ Holders = {}

OutputEnds(s) ==
  /\ pc = "running"
  /\ task[s] = "read"
  /\ Ended(s)
  /\ task' = [task EXCEPT ![s] = "done"]
  /\ UNCHANGED <<group, pipe, written, chunk, captured, ending, call, pc, result>>

\* writeInput has written everything, ...
InputEnds ==
  /\ pc = "running"
  /\ input = "writing"
  /\ input' = "done"
  /\ UNCHANGED <<group, output, ending, finished, timer, abort, pc, result>>

\* ... or nobody reads: EPIPE, or a stream destroyed with the process, which
\* is expected (isExpectedInputClosure) once the end is known or wanted.
InputBreaks ==
  /\ pc = "running"
  /\ input = "writing"
  /\ input' = "done"
  /\ IF finished \/ terminating
     THEN UNCHANGED <<doomed, failure, terminating, grace>>
     ELSE RecordIoFailure("stdin")
  /\ UNCHANGED <<alive, forked, exit, output, reason, finished, timer, abort, pc,
                 result>>

\* The source of the input throws: never expected.
InputThrows ==
  /\ pc = "running"
  /\ input = "writing"
  /\ input' = "done"
  /\ RecordIoFailure("stdin")
  /\ UNCHANGED <<alive, forked, exit, output, reason, finished, timer, abort, pc,
                 result>>

-----------------------------------------------------------------------------
(* The end of the call.                                                     *)

\* The close event: the Leader has ended and its streams are closed; the last
\* chunk of each may still be with its handler.
CloseEvent ==
  /\ pc = "running"
  /\ ~finished
  /\ exit \in {"code", "signal"}
  /\ \A s \in Streams : task[s] = "failed" \/ Ended(s)
  /\ finished' = TRUE
  /\ UNCHANGED <<group, output, ending, input, timer, abort, pc, result>>

ErrorEvent ==
  /\ pc = "running"
  /\ ~finished
  /\ exit = "missing"
  /\ finished' = TRUE
  /\ UNCHANGED <<group, output, ending, input, timer, abort, pc, result>>

\* What is thrown or returned, in the order in which it is looked at.
Outcome ==
  CASE exit = "missing"                       -> "spawn-error"
    [] exit # "missing" /\ failure # "none"   -> "io-error"
    [] exit # "missing" /\ failure = "none" /\ reason # "none" -> reason
    [] OTHER -> IF exit = "signal" THEN "signal" ELSE "exit"

\* Mutant of Settle: the promises of the output are not awaited.
SettleAtOnce ==
  /\ pc = "running"
  /\ finished
  /\ input = "done"
  /\ pc' = "settled"
  /\ result' = Outcome
  /\ UNCHANGED <<group, output, ending, call>>

\* The promises are awaited; then the timers are cleared.
Settle ==
  /\ pc = "running"
  /\ finished
  /\ input = "done"
  /\ \A s \in Streams : task[s] \in {"done", "failed"}
  /\ pc' = "settled"
  /\ result' = Outcome
  /\ UNCHANGED <<group, output, ending, call>>

-----------------------------------------------------------------------------
Begin == Refuse \/ Spawn \/ SpawnMissing

Group ==
  \/ \E h \in Heirs : Fork(h)
  \/ \E s \in Streams, n \in 1 .. MaxBytes : Write(s, n)
  \/ \E p \in Procs : End(p)

Signals == \E p \in Procs : Die(p)

Timers == Timeout \/ GraceEnds

Pump(s) ==
  \/ \E n \in 1 .. MaxBytes : ReadChunk(s, n)
  \/ HandleChunk(s) \/ OutputEnds(s)

Feed == InputEnds \/ InputBreaks \/ InputThrows

Finish == CloseEvent \/ ErrorEvent \/ Settle

Next ==
  \/ Begin \/ Group \/ Signals \/ Abort \/ Timers \/ Feed \/ Finish
  \/ \E s \in Streams : Pump(s) \/ OutputFails(s)

Spec == Init /\ [][Next]_vars

\* The kernel delivers signals, node serves timers, streams and events, and a
\* handler of output ends.  Writing the input comes to an end at the latest
\* when the Leader's death destroys the stream.  Nobody has to call
\* runProcess, and nothing makes a process end of itself.
Fairness ==
  /\ WF_vars(Signals) /\ WF_vars(Finish)
  /\ WF_vars(Timeout) /\ WF_vars(GraceEnds)
  /\ WF_vars(Leader \notin alive /\ Feed)
  /\ \A s \in Streams : WF_vars(Pump(s))

FairSpec == Spec /\ Fairness

-----------------------------------------------------------------------------
(* Properties.                                                              *)

Reasons == {"timeout", "aborted", "output-limit"}

\* Every variable keeps its type; what is captured stays within its limit.
TypeOK ==
  /\ alive \subseteq Procs
  /\ doomed \subseteq alive
  /\ forked \subseteq Heirs
  /\ exit \in {"none", "code", "signal", "missing"}
  /\ pipe \in [Streams -> Nat]
  /\ written \in [Streams -> 0 .. MaxBytes]
  /\ pc \in {"new", "running", "settled"}
  /\ task \in [Streams -> {"read", "handle", "done", "failed"}]
  /\ chunk \in [Streams -> Nat]
  /\ captured \in [Streams -> 0 .. MaxCapture]
  /\ input \in {"writing", "done"}
  /\ finished \in BOOLEAN
  /\ reason \in {"none"} \cup Reasons
  /\ failure \in {"none", "stdin"} \cup Streams
  /\ terminating \in BOOLEAN
  /\ grace \in {"unset", "armed", "fired"}
  /\ timer \in {"unset", "armed", "fired"}
  /\ abort \in {"absent", "pending", "aborted"}
  /\ result \in {"none", "exit", "signal", "spawn-error", "io-error"} \cup Reasons

\* What a call that returns reports is what was done: an exit or a signal
\* means that it terminated nobody, a time-out or an abort of a process that
\* was spawned that it did, in whatever order events came.
ReasonIsTrue ==
  /\ result \in {"exit", "signal"} => ~terminating
  /\ result \in {"timeout", "aborted"} /\ exit # "none" => terminating

\* No output is lost: a call that returns has captured all that was written,
\* by heirs and after signals too, up to the limit; and if it reports an exit
\* or a signal the limit was not passed.
OutputIsWhole ==
  /\ result \in {"exit", "signal"} =>
       \A s \in Streams : captured[s] = written[s]
  /\ result \in Reasons =>
       \A s \in Streams :
         captured[s] = IF written[s] <= MaxCapture THEN written[s] ELSE MaxCapture

\* A call that has a reason to end ends, however stubborn the processes of
\* the group are and whatever else happens meanwhile.
TerminationSettles ==
  pc = "running" /\ (timer # "unset" \/ abort = "aborted" \/ failure # "none")
    ~> pc = "settled"

-----------------------------------------------------------------------------
(* Inductive strengthenings, used by the proofs.                            *)

\* Where the call stands: nothing has happened before it begins, a process
\* that was not found has no group, and the Leader ends once.
CallInv ==
  /\ pc = "new" => /\ exit = "none" /\ alive = {}
                   /\ \A s \in Streams : written[s] = 0 /\ task[s] = "read"
  /\ exit # "none" => Leader \notin alive
  /\ finished => exit # "none"
  /\ pc = "settled" => Leader \notin alive
  /\ pc # "settled" <=> result = "none"

TypeInv == TypeOK /\ CallInv

\* Why the outcome is true: every reason but the limit found the process
\* alive and terminated it, and nothing else does.
ReasonInv ==
  /\ TypeInv
  /\ ReasonIsTrue
  /\ reason \in {"timeout", "aborted"} => terminating
  /\ terminating => pc # "new" /\ (reason # "none" \/ failure # "none")

\* What a loop that has not failed has taken from its stream is captured, and
\* what it has dropped is accounted for by a reason.
Taken(s) == written[s] - pipe[s] - chunk[s]

LoopInv ==
  \A s \in Streams :
    /\ chunk[s] # 0 => task[s] = "handle"
    /\ task[s] = "failed" => failure # "none"
    /\ task[s] = "done" => Ended(s) /\ Leader \notin alive
    /\ task[s] # "failed" =>
         /\ pipe[s] + chunk[s] <= written[s]
         /\ captured[s] = IF Taken(s) <= MaxCapture THEN Taken(s) ELSE MaxCapture
         /\ Taken(s) > MaxCapture => reason # "none"

\* A call that has returned has read its streams to the end.
Returned == result \in {"exit", "signal"} \cup Reasons

ReturnInv ==
  Returned =>
    /\ Holders = {}
    /\ \A s \in Streams : pipe[s] = 0 /\ chunk[s] = 0 /\ task[s] # "failed"
    /\ result \in {"exit", "signal"} => reason = "none"

OutputInv == TypeInv /\ LoopInv /\ ReturnInv
=============================================================================
