-------------------------- MODULE RunProcessProofs --------------------------
(***************************************************************************)
(* Proofs about RunProcess, for every set of descendants, whichever of the *)
(* processes ignore SIGTERM or give up their pipes, every limit on output  *)
(* and any amount of it.                                                   *)
(***************************************************************************)
EXTENDS RunProcess, TLAPS

\* The initial states have the right types.
LEMMA InitType == Init => TypeInv
<1> SUFFICES ASSUME Init PROVE TypeInv
  OBVIOUS
<1>1. /\ pipe \in [Streams -> Nat] /\ chunk \in [Streams -> Nat]
      /\ written \in [Streams -> 0 .. MaxBytes]
      /\ captured \in [Streams -> 0 .. MaxCapture]
      /\ task \in [Streams -> {"read", "handle", "done", "failed"}]
  BY ProcessConstants DEF Init
<1>2. finished \in BOOLEAN /\ terminating \in BOOLEAN
  BY DEF Init
<1>3. TypeOK
  BY <1>1, <1>2 DEF Init, TypeOK
<1>4. CallInv
  BY DEF Init, CallInv
<1> QED
  BY <1>3, <1>4 DEF TypeInv

\* Terminating the group keeps types: the doomed are processes of the group.
LEMMA TerminationType ==
  ASSUME TypeInv, BeginTermination
  PROVE  /\ doomed' \subseteq alive
         /\ terminating' \in BOOLEAN
         /\ grace' \in {"unset", "armed", "fired"}
BY DEF TypeInv, TypeOK, BeginTermination

\* A step of the call that asks for termination, or records a failure, and
\* settles nothing keeps the types, provided that its own part does.
LEMMA CallType ==
  ASSUME TypeInv, pc = "running",
         UNCHANGED <<alive, forked, exit, written, pc, result>>,
         doomed' \subseteq alive,
         reason' \in {"none"} \cup Reasons, failure' \in {"none", "stdin"} \cup Streams,
         terminating' \in BOOLEAN, grace' \in {"unset", "armed", "fired"},
         pipe' \in [Streams -> Nat], chunk' \in [Streams -> Nat],
         captured' \in [Streams -> 0 .. MaxCapture],
         task' \in [Streams -> {"read", "handle", "done", "failed"}],
         input' \in {"writing", "done"}, finished' \in BOOLEAN,
         finished' => exit # "none",
         timer' \in {"unset", "armed", "fired"},
         abort' \in {"absent", "pending", "aborted"}
  PROVE  TypeInv'
BY DEF TypeInv, TypeOK, CallInv

\* The same for the two ways to ask for it.
LEMMA RequestType ==
  ASSUME TypeInv, NEW r \in Reasons, RequestTermination(r)
  PROVE  /\ doomed' \subseteq alive
         /\ reason' \in {"none"} \cup Reasons
         /\ terminating' \in BOOLEAN
         /\ grace' \in {"unset", "armed", "fired"}
BY TerminationType DEF RequestTermination, TypeInv, TypeOK

\* An I/O failure is recorded, and begins the termination, within the types.
LEMMA RecordType ==
  ASSUME TypeInv, NEW phase \in {"stdin"} \cup Streams, RecordIoFailure(phase)
  PROVE  /\ doomed' \subseteq alive
         /\ failure' \in {"none", "stdin"} \cup Streams
         /\ terminating' \in BOOLEAN
         /\ grace' \in {"unset", "armed", "fired"}
BY TerminationType DEF RecordIoFailure, TypeInv, TypeOK

\* The beginning of the call and what the group does keep the types.
LEMMA GroupType == TypeInv /\ (Begin \/ Group \/ Signals) => TypeInv'
<1> SUFFICES ASSUME TypeInv, Begin \/ Group \/ Signals PROVE TypeInv'
  OBVIOUS
<1> USE DEF TypeInv, TypeOK, CallInv, group, output, ending, call
<1>1. CASE Refuse
  BY <1>1 DEF Refuse, Reasons
<1>2. CASE Spawn
  BY <1>2 DEF Spawn, Procs
<1>3. CASE SpawnMissing
  BY <1>3 DEF SpawnMissing
<1>4. ASSUME NEW h \in Heirs, Fork(h) PROVE TypeInv'
  BY <1>4, ProcessConstants DEF Fork, Procs, Acting
<1>5. ASSUME NEW s \in Streams, NEW n \in 1 .. MaxBytes, Write(s, n) PROVE TypeInv'
  <2>1. n \in Nat /\ MaxBytes \in Nat /\ pipe[s] + n \in Nat
        /\ written[s] + n \in 0 .. MaxBytes
    BY <1>5, ProcessConstants DEF Write
  <2>2. pipe' \in [Streams -> Nat] /\ written' \in [Streams -> 0 .. MaxBytes]
    BY <1>5, <2>1 DEF Write
  <2>3. alive # {}
    BY <1>5 DEF Write, Acting
  <2> QED
    BY <1>5, <2>2, <2>3 DEF Write
<1>6. ASSUME NEW p \in Procs, End(p) PROVE TypeInv'
  BY <1>6 DEF End, Exits, Acting
<1>7. ASSUME NEW p \in Procs, Die(p) PROVE TypeInv'
  BY <1>7 DEF Die, Exits
<1> QED
  BY <1>1, <1>2, <1>3, <1>4, <1>5, <1>6, <1>7 DEF Begin, Group, Signals

\* The steps of the call keep the types.
LEMMA StepOfCallType ==
  ASSUME TypeInv,
         \/ Abort \/ Timers \/ Feed \/ Finish
         \/ \E s \in Streams : Pump(s) \/ OutputFails(s)
  PROVE  TypeInv'
<1>a. /\ doomed \subseteq alive /\ reason \in {"none"} \cup Reasons
      /\ failure \in {"none", "stdin"} \cup Streams /\ terminating \in BOOLEAN
      /\ grace \in {"unset", "armed", "fired"} /\ pipe \in [Streams -> Nat]
      /\ chunk \in [Streams -> Nat] /\ captured \in [Streams -> 0 .. MaxCapture]
      /\ task \in [Streams -> {"read", "handle", "done", "failed"}]
      /\ input \in {"writing", "done"} /\ finished \in BOOLEAN
      /\ timer \in {"unset", "armed", "fired"}
      /\ abort \in {"absent", "pending", "aborted"}
      /\ finished => exit # "none"
  BY DEF TypeInv, TypeOK, CallInv
<1>b. {"timeout", "aborted", "output-limit"} \subseteq Reasons
  BY DEF Reasons
<1>1. CASE Abort
  BY <1>1, <1>a, <1>b, RequestType, CallType DEF Abort, output
<1>2. CASE Timeout
  BY <1>2, <1>a, <1>b, RequestType, CallType DEF Timeout, output
<1>3. CASE GraceEnds
  BY <1>3, <1>a, CallType DEF GraceEnds, output, call
<1>4. CASE InputEnds
  BY <1>4, <1>a, CallType DEF InputEnds, group, output, ending
<1>5. CASE InputBreaks
  BY <1>5, <1>a, RecordType, CallType DEF InputBreaks, output
<1>6. CASE InputThrows
  BY <1>6, <1>a, RecordType, CallType DEF InputThrows, output
<1>7. CASE CloseEvent \/ ErrorEvent
  <2>1. finished' \in BOOLEAN /\ exit # "none"
    BY <1>7 DEF CloseEvent, ErrorEvent
  <2> QED
    BY <1>7, <2>1, <1>a, CallType DEF CloseEvent, ErrorEvent, group, output, ending
<1>8. CASE Settle
  <2>1. Outcome \in {"exit", "signal", "spawn-error", "io-error"} \cup Reasons
    BY <1>a DEF Outcome
  <2>2. Outcome # "none"
    BY <2>1 DEF Reasons
  <2> QED
    BY <1>8, <2>1, <2>2 DEF Settle, TypeInv, TypeOK, CallInv, group, output, ending, call
<1>9. ASSUME NEW s \in Streams, NEW n \in 1 .. MaxBytes, ReadChunk(s, n)
      PROVE  TypeInv'
  <2>1. pipe' \in [Streams -> Nat] /\ chunk' \in [Streams -> Nat]
        /\ task' \in [Streams -> {"read", "handle", "done", "failed"}]
    BY <1>9, <1>a, ProcessConstants DEF ReadChunk
  <2> QED
    BY <1>9, <2>1, <1>a, CallType DEF ReadChunk, group, ending, call
<1>10. ASSUME NEW s \in Streams, HandleChunk(s) PROVE TypeInv'
  <2>1. /\ chunk' \in [Streams -> Nat]
        /\ task' \in [Streams -> {"read", "handle", "done", "failed"}]
    BY <1>10, <1>a DEF HandleChunk
  <2>2. captured' \in [Streams -> 0 .. MaxCapture]
    BY <1>10, <1>a, ProcessConstants DEF HandleChunk, Fits
  <2>3. /\ doomed' \subseteq alive /\ reason' \in {"none"} \cup Reasons
        /\ terminating' \in BOOLEAN /\ grace' \in {"unset", "armed", "fired"}
    BY <1>10, <1>a, <1>b, RequestType DEF HandleChunk
  <2> QED
    BY <1>10, <2>1, <2>2, <2>3, <1>a, CallType DEF HandleChunk, call
<1>11. ASSUME NEW s \in Streams, OutputFails(s) PROVE TypeInv'
  <2>1. /\ chunk' \in [Streams -> Nat] /\ pipe' \in [Streams -> Nat]
        /\ task' \in [Streams -> {"read", "handle", "done", "failed"}]
    BY <1>11, <1>a DEF OutputFails
  <2> QED
    BY <1>11, <2>1, <1>a, RecordType, CallType DEF OutputFails, call
<1>12. ASSUME NEW s \in Streams, OutputEnds(s) PROVE TypeInv'
  <2>1. task' \in [Streams -> {"read", "handle", "done", "failed"}]
    BY <1>12, <1>a DEF OutputEnds
  <2> QED
    BY <1>12, <2>1, <1>a, CallType DEF OutputEnds, group, ending, call
<1> QED
  BY <1>1, <1>2, <1>3, <1>4, <1>5, <1>6, <1>7, <1>8, <1>9, <1>10, <1>11, <1>12
     DEF Timers, Feed, Finish, Pump

\* Every step keeps the types.
LEMMA StepType == TypeInv /\ [Next]_vars => TypeInv'
<1> SUFFICES ASSUME TypeInv, [Next]_vars PROVE TypeInv'
  OBVIOUS
<1>1. CASE UNCHANGED vars
  BY <1>1 DEF vars, group, output, ending, call, TypeInv, TypeOK, CallInv
<1> QED
  BY <1>1, GroupType, StepOfCallType DEF Next

\* Every variable keeps its type, so nothing is captured beyond the limit.
THEOREM CaptureIsBounded == Spec => []TypeOK
<1>1. TypeInv => TypeOK
  BY DEF TypeInv
<1> QED
  BY InitType, StepType, <1>1, PTL DEF Spec

-----------------------------------------------------------------------------
(* The outcome.                                                             *)

\* A reason that is not the limit terminates the group before it is taken.
LEMMA RequestTerminates ==
  ASSUME ReasonInv, NEW r \in Reasons, RequestTermination(r), pc = "running"
  PROVE  /\ reason' \in {"timeout", "aborted"} => terminating'
         /\ terminating' => reason' # "none" \/ failure # "none"
BY DEF ReasonInv, RequestTermination, BeginTermination, Reasons

\* A failure terminates the group as well.
LEMMA RecordTerminates ==
  ASSUME ReasonInv, NEW phase \in {"stdin"} \cup Streams, RecordIoFailure(phase)
  PROVE  /\ terminating => terminating'
         /\ terminating' => reason # "none" \/ failure' # "none"
BY DEF ReasonInv, RecordIoFailure, BeginTermination, Streams

\* No step makes the outcome false.
LEMMA StepReason == ReasonInv /\ [Next]_vars => ReasonInv'
<1> SUFFICES ASSUME ReasonInv, [Next]_vars PROVE ReasonInv'
  OBVIOUS
<1>t. TypeInv /\ TypeInv'
  BY StepType DEF ReasonInv
<1>a. (pc # "settled" <=> result = "none") /\ (pc = "new" => exit = "none")
  BY <1>t DEF TypeInv, CallInv
<1>b. {"timeout", "aborted", "output-limit"} \subseteq Reasons
  BY DEF Reasons
<1>1. ASSUME UNCHANGED <<ending, result>>, pc' = "new" => pc = "new",
             exit' = exit \/ result = "none"
      PROVE  ReasonInv'
  BY <1>1, <1>t DEF ReasonInv, ReasonIsTrue, ending
<1>2. ASSUME UNCHANGED <<pc, result>>, pc = "running",
             reason' \in {"timeout", "aborted"} => terminating',
             terminating' => reason' # "none" \/ failure' # "none"
      PROVE  ReasonInv'
  BY <1>2, <1>t, <1>a DEF ReasonInv, ReasonIsTrue
<1>3. CASE Refuse
  BY <1>3, <1>t, <1>a DEF Refuse, ReasonInv, ReasonIsTrue, group, ending
<1>4. CASE Spawn \/ SpawnMissing
  BY <1>4, <1>1, <1>a DEF Spawn, SpawnMissing, ending
<1>5. CASE Group \/ Signals
  <2>1. UNCHANGED <<ending, result, pc>>
    BY <1>5 DEF Group, Signals, Fork, Write, End, Die, Exits
  <2>2. exit' = exit \/ Leader \in alive
    BY <1>5, <1>t DEF Group, Signals, Fork, Write, End, Die, Exits, group, Acting, TypeInv,
                      TypeOK
  <2>3. exit' = exit \/ result = "none"
    BY <2>2, <1>t, <1>a DEF TypeInv, CallInv
  <2> QED
    BY <2>1, <2>3, <1>1
<1>6. CASE Abort \/ Timeout
  <2>1. /\ UNCHANGED <<pc, result, failure>> /\ pc = "running"
        /\ RequestTermination("aborted") \/ RequestTermination("timeout")
    BY <1>6 DEF Abort, Timeout
  <2> QED
    BY <2>1, <1>2, <1>b, RequestTerminates
<1>7. ASSUME NEW s \in Streams, HandleChunk(s) PROVE ReasonInv'
  <2>1. /\ UNCHANGED <<pc, result, failure>> /\ pc = "running"
        /\ \/ UNCHANGED <<reason, terminating>>
           \/ RequestTermination("output-limit")
    BY <1>7 DEF HandleChunk
  <2>2. CASE UNCHANGED <<reason, terminating>>
    BY <2>1, <2>2, <1>2 DEF ReasonInv
  <2>3. CASE RequestTermination("output-limit")
    BY <2>1, <2>3, <1>2, <1>b, RequestTerminates
  <2> QED
    BY <2>1, <2>2, <2>3
<1>8. CASE InputBreaks \/ InputThrows \/ (\E s \in Streams : OutputFails(s))
  <2>1. /\ UNCHANGED <<pc, result, reason>> /\ pc = "running"
        /\ \/ UNCHANGED <<failure, terminating>>
           \/ \E phase \in {"stdin"} \cup Streams : RecordIoFailure(phase)
    BY <1>8 DEF InputBreaks, InputThrows, OutputFails
  <2>2. CASE UNCHANGED <<failure, terminating>>
    BY <2>1, <2>2, <1>2 DEF ReasonInv
  <2>3. ASSUME NEW phase \in {"stdin"} \cup Streams, RecordIoFailure(phase)
        PROVE  ReasonInv'
    BY <2>1, <2>3, <1>2, RecordTerminates DEF ReasonInv
  <2> QED
    BY <2>1, <2>2, <2>3
<1>9. CASE \/ GraceEnds \/ InputEnds \/ CloseEvent \/ ErrorEvent
           \/ \E s \in Streams : OutputEnds(s) \/ (\E n \in 1 .. MaxBytes : ReadChunk(s, n))
  <2>1. UNCHANGED <<pc, result, reason, failure, terminating>> /\ pc = "running"
    BY <1>9 DEF GraceEnds, InputEnds, CloseEvent, ErrorEvent, OutputEnds, ReadChunk,
                ending
  <2> QED
    BY <2>1, <1>2 DEF ReasonInv
<1>10. CASE Settle
  <2>1. /\ UNCHANGED <<reason, failure, terminating, exit>> /\ result' = Outcome
        /\ pc' = "settled"
    BY <1>10 DEF Settle, ending, group
  <2>2. ReasonIsTrue'
    BY <2>1 DEF ReasonIsTrue, ReasonInv, Outcome, TypeInv, TypeOK, Reasons
  <2> QED
    BY <2>1, <2>2, <1>t DEF ReasonInv
<1>11. CASE UNCHANGED vars
  BY <1>11, <1>1 DEF vars, group
<1> QED
  BY <1>3, <1>4, <1>5, <1>6, <1>7, <1>8, <1>9, <1>10, <1>11
     DEF Next, Begin, Timers, Feed, Finish, Pump

\* What a call reports is what was done: it reports an exit or a signal only
\* if it terminated nobody, and a time-out or an abort only if it did.
THEOREM OutcomeIsTrue == Spec => []ReasonIsTrue
<1>1. Init => ReasonInv
  <2>1. Init => ReasonIsTrue /\ ~terminating /\ reason = "none"
    BY DEF Init, ReasonIsTrue
  <2> QED
    BY <2>1, InitType DEF ReasonInv
<1>2. ReasonInv => ReasonIsTrue
  BY DEF ReasonInv
<1> QED
  BY <1>1, <1>2, StepReason, PTL DEF Spec

-----------------------------------------------------------------------------
(* The output.                                                              *)

\* A step that leaves the output alone, forgets no reason and no failure and
\* adds nobody to the group keeps account of the output.
LEMMA LoopFrame ==
  ASSUME LoopInv, UNCHANGED output, alive' \subseteq alive,
         failure' # "none" \/ failure' = failure, reason' # "none" \/ reason' = reason
  PROVE  LoopInv'
BY DEF LoopInv, output, Taken, Ended, Holders

\* What the beginning and the group do keeps account of the output: nobody
\* writes to a stream that has ended, and nobody is forked then.
LEMMA GroupLoop == TypeInv /\ LoopInv /\ (Begin \/ Group \/ Signals) => LoopInv'
<1> SUFFICES ASSUME TypeInv, LoopInv, Begin \/ Group \/ Signals PROVE LoopInv'
  OBVIOUS
<1>1. CASE Refuse \/ SpawnMissing
  BY <1>1, LoopFrame DEF Refuse, SpawnMissing, group, ending
<1>2. CASE Spawn
  BY <1>2 DEF Spawn, TypeInv, CallInv, LoopInv, Taken, output, ending
<1>3. ASSUME NEW h \in Heirs, Fork(h) PROVE LoopInv'
  BY <1>3 DEF Fork, Acting, LoopInv, Taken, output, ending
<1>4. ASSUME NEW s \in Streams, NEW n \in 1 .. MaxBytes, Write(s, n) PROVE LoopInv'
  <2>1. /\ pipe \in [Streams -> Nat] /\ written \in [Streams -> 0 .. MaxBytes]
        /\ chunk \in [Streams -> Nat] /\ MaxBytes \in Nat
    BY ProcessConstants DEF TypeInv, TypeOK
  <2>2. task[s] \notin {"done", "failed"}
    BY <1>4 DEF Write, LoopInv, Ended, Holders, Acting
  <2>3. /\ pipe' = [pipe EXCEPT ![s] = @ + n] /\ written' = [written EXCEPT ![s] = @ + n]
        /\ UNCHANGED <<task, chunk, captured, reason, failure, alive>>
    BY <1>4 DEF Write, group, ending
  <2>4. Taken(s)' = Taken(s) /\ pipe[s]' + chunk[s]' <= written[s]' <=> pipe[s] + chunk[s] <= written[s]
    BY <2>1, <2>3 DEF Taken
  <2>5. \A t \in Streams \ {s} : pipe'[t] = pipe[t] /\ written'[t] = written[t]
    BY <2>1, <2>3
  <2> QED
    BY <2>1, <2>2, <2>3, <2>4, <2>5 DEF LoopInv, Taken, Ended, Holders
<1>5. CASE Signals \/ (\E p \in Procs : End(p))
  BY <1>5, LoopFrame DEF Signals, End, Die, Exits, ending
<1> QED
  BY <1>1, <1>2, <1>3, <1>4, <1>5 DEF Begin, Group

\* Capturing a chunk, and dropping what passes the limit, is accounted for.
LEMMA HandleLoop ==
  ASSUME TypeInv, LoopInv, NEW s \in Streams, HandleChunk(s)
  PROVE  LoopInv'
<1>1. /\ pipe[s] \in Nat /\ written[s] \in Nat /\ chunk[s] \in Nat
      /\ captured[s] \in 0 .. MaxCapture /\ MaxCapture \in Nat
      /\ chunk \in [Streams -> Nat] /\ task \in [Streams -> {"read", "handle", "done", "failed"}]
      /\ captured \in [Streams -> 0 .. MaxCapture]
  <2>1. /\ pipe \in [Streams -> Nat] /\ written \in [Streams -> 0 .. MaxBytes]
        /\ chunk \in [Streams -> Nat] /\ captured \in [Streams -> 0 .. MaxCapture]
        /\ task \in [Streams -> {"read", "handle", "done", "failed"}]
    BY DEF TypeInv, TypeOK
  <2>2. MaxBytes \in Nat /\ MaxCapture \in Nat
    BY ProcessConstants
  <2>3. pipe[s] \in Nat /\ chunk[s] \in Nat /\ captured[s] \in 0 .. MaxCapture
    BY <2>1
  <2>4. written[s] \in Nat
    <3>1. written[s] \in 0 .. MaxBytes
      BY <2>1
    <3> QED
      BY <3>1, <2>2
  <2> QED
    BY <2>1, <2>2, <2>3, <2>4
<1>2. /\ task[s] = "handle" /\ task' = [task EXCEPT ![s] = "read"]
      /\ chunk' = [chunk EXCEPT ![s] = 0]
      /\ captured' = [captured EXCEPT ![s] =
                        IF Fits(s) THEN @ + chunk[s] ELSE MaxCapture]
      /\ UNCHANGED <<pipe, written, failure, alive>>
  BY DEF HandleChunk
<1>3. /\ ~Fits(s) => reason' # "none"
      /\ reason # "none" => reason' # "none"
  BY DEF HandleChunk, RequestTermination
<1>4. /\ pipe[s] + chunk[s] <= written[s]
      /\ captured[s] = IF Taken(s) <= MaxCapture THEN Taken(s) ELSE MaxCapture
      /\ Taken(s) > MaxCapture => reason # "none"
  BY <1>2 DEF LoopInv
<1>5. /\ chunk'[s] = 0 /\ task'[s] = "read" /\ pipe'[s] = pipe[s] /\ written'[s] = written[s]
      /\ captured'[s] = IF Fits(s) THEN captured[s] + chunk[s] ELSE MaxCapture
  BY <1>1, <1>2
<1>6. Taken(s)' = Taken(s) + chunk[s]
  BY <1>1, <1>5 DEF Taken
<1>7. /\ pipe'[s] + chunk'[s] <= written'[s]
      /\ captured'[s] = IF Taken(s)' <= MaxCapture THEN Taken(s)' ELSE MaxCapture
      /\ Taken(s)' > MaxCapture => reason' # "none"
  <2>1. Taken(s) \in Nat
    BY <1>1, <1>4 DEF Taken
  <2> QED
    BY <2>1, <1>1, <1>3, <1>4, <1>5, <1>6 DEF Fits
<1>8. \A t \in Streams \ {s} : /\ chunk'[t] = chunk[t] /\ task'[t] = task[t]
                                /\ captured'[t] = captured[t] /\ Taken(t)' = Taken(t)
                                /\ pipe'[t] = pipe[t] /\ written'[t] = written[t]
  BY <1>1, <1>2 DEF Taken
<1> QED
  BY <1>2, <1>3, <1>5, <1>7, <1>8 DEF LoopInv, Ended, Holders

\* The steps of the call keep account of the output.
LEMMA CallLoop ==
  ASSUME TypeInv, LoopInv,
         \/ Abort \/ Timers \/ Feed \/ Finish
         \/ \E s \in Streams : Pump(s) \/ OutputFails(s)
  PROVE  LoopInv'
<1>a. /\ pipe \in [Streams -> Nat] /\ written \in [Streams -> 0 .. MaxBytes]
      /\ chunk \in [Streams -> Nat] /\ captured \in [Streams -> 0 .. MaxCapture]
      /\ task \in [Streams -> {"read", "handle", "done", "failed"}]
      /\ MaxBytes \in Nat /\ MaxCapture \in Nat
  BY ProcessConstants DEF TypeInv, TypeOK
<1>1. CASE Abort \/ Timers
  BY <1>1, LoopFrame DEF Abort, Timers, Timeout, GraceEnds, RequestTermination
<1>2. CASE Feed
  <2>1. "stdin" # "none"
    OBVIOUS
  <2> QED
    BY <1>2, <2>1, LoopFrame
       DEF Feed, InputEnds, InputBreaks, InputThrows, RecordIoFailure, group, ending
<1>3. CASE Finish
  BY <1>3, LoopFrame DEF Finish, CloseEvent, ErrorEvent, Settle, group, ending
<1>4. ASSUME NEW s \in Streams, NEW n \in 1 .. MaxBytes, ReadChunk(s, n)
      PROVE  LoopInv'
  <2>1. /\ task[s] = "read" /\ n <= pipe[s] /\ task' = [task EXCEPT ![s] = "handle"]
        /\ pipe' = [pipe EXCEPT ![s] = @ - n] /\ chunk' = [chunk EXCEPT ![s] = n]
        /\ UNCHANGED <<written, captured, reason, failure, alive>>
    BY <1>4 DEF ReadChunk, group, ending
  <2>2. chunk[s] = 0 /\ n \in Nat /\ n # 0
    BY <2>1, <1>a DEF LoopInv
  <2>3. /\ Taken(s)' = Taken(s) /\ pipe'[s] + chunk'[s] = pipe[s] + chunk[s]
        /\ task'[s] = "handle"
    BY <1>a, <2>1, <2>2 DEF Taken
  <2>4. \A t \in Streams \ {s} : /\ chunk'[t] = chunk[t] /\ task'[t] = task[t]
                                  /\ Taken(t)' = Taken(t) /\ pipe'[t] = pipe[t]
    BY <1>a, <2>1 DEF Taken
  <2> QED
    BY <2>1, <2>3, <2>4 DEF LoopInv, Ended, Holders
<1>5. ASSUME NEW s \in Streams, OutputEnds(s) PROVE LoopInv'
  <2>1. /\ task[s] = "read" /\ Ended(s) /\ task' = [task EXCEPT ![s] = "done"]
        /\ UNCHANGED <<pipe, chunk, written, captured, reason, failure, alive>>
    BY <1>5 DEF OutputEnds, group, ending
  <2>2. Leader \notin alive
    BY <2>1, ProcessConstants DEF Ended, Holders
  <2>3. \A t \in Streams : task'[t] = IF t = s THEN "done" ELSE task[t]
    BY <1>a, <2>1
  <2> QED
    BY <2>1, <2>2, <2>3 DEF LoopInv, Ended, Holders, Taken
<1>6. ASSUME NEW s \in Streams, OutputFails(s) PROVE LoopInv'
  <2>1. /\ task' = [task EXCEPT ![s] = "failed"] /\ pipe' = [pipe EXCEPT ![s] = 0]
        /\ chunk' = [chunk EXCEPT ![s] = 0]
        /\ UNCHANGED <<written, captured, reason, alive>>
    BY <1>6 DEF OutputFails
  <2>2. failure' # "none"
    BY <1>6 DEF OutputFails, RecordIoFailure, Streams
  <2>3. task'[s] = "failed" /\ chunk'[s] = 0
    BY <1>a, <2>1
  <2>4. \A t \in Streams \ {s} : /\ chunk'[t] = chunk[t] /\ task'[t] = task[t]
                                  /\ Taken(t)' = Taken(t) /\ pipe'[t] = pipe[t]
    BY <1>a, <2>1 DEF Taken
  <2> QED
    BY <2>1, <2>2, <2>3, <2>4 DEF LoopInv, Ended, Holders
<1> QED
  BY <1>1, <1>2, <1>3, <1>4, <1>5, <1>6, HandleLoop DEF Pump

\* A call that returns has read everything, and what has returned stays read.
LEMMA StepReturn == TypeInv /\ LoopInv /\ ReturnInv /\ [Next]_vars => ReturnInv'
<1> SUFFICES ASSUME TypeInv, LoopInv, ReturnInv, [Next]_vars PROVE ReturnInv'
  OBVIOUS
<1>a. /\ pc # "settled" <=> result = "none"
      /\ pc = "settled" => Leader \notin alive
      /\ ~("none" \in {"exit", "signal"} \cup Reasons)
  BY DEF TypeInv, CallInv, Reasons
<1>1. ASSUME result' = "none" PROVE ReturnInv'
  BY <1>1, <1>a DEF ReturnInv, Returned
<1>2. ASSUME UNCHANGED <<result, pipe, chunk, task, reason>>, alive' \subseteq alive
      PROVE  ReturnInv'
  BY <1>2 DEF ReturnInv, Returned, Holders
<1>3. CASE Refuse
  <2>1. /\ pc = "new" /\ result' = "aborted"
        /\ UNCHANGED <<alive, pipe, chunk, task, reason>>
    BY <1>3 DEF Refuse, group, output, ending
  <2>2. \A s \in Streams : pipe[s] \in Nat /\ chunk[s] \in Nat
    BY DEF TypeInv, TypeOK
  <2>3. \A s \in Streams : written[s] = 0 /\ task[s] = "read" /\ chunk[s] = 0
    BY <2>1 DEF TypeInv, CallInv, LoopInv
  <2>4. \A s \in Streams : pipe[s] = 0
    BY <2>2, <2>3 DEF LoopInv
  <2>5. Holders' = {}
    BY <2>1 DEF Holders, TypeInv, CallInv
  <2> QED
    BY <2>1, <2>3, <2>4, <2>5 DEF ReturnInv, Returned
<1>4. CASE Settle
  <2>1. /\ result' = Outcome /\ UNCHANGED <<alive, pipe, chunk, task, reason, exit, failure>>
        /\ \A s \in Streams : task[s] \in {"done", "failed"}
    BY <1>4 DEF Settle, group, output, ending
  <2>2. SUFFICES ASSUME Returned' PROVE ReturnInv'
    BY DEF ReturnInv
  <2>3. failure = "none" /\ (result' \in {"exit", "signal"} => reason = "none")
    <3>1. reason \in {"none"} \cup Reasons
      BY DEF TypeInv, TypeOK
    <3> QED
      BY <3>1, <2>1, <2>2 DEF Outcome, Returned, Reasons
  <2>4. \A s \in Streams : task[s] = "done" /\ Ended(s) /\ chunk[s] = 0
    BY <2>1, <2>3 DEF LoopInv
  <2> QED
    BY <2>1, <2>3, <2>4 DEF ReturnInv, Ended, Holders, Streams
<1>5. CASE Group
  <2>1. CASE \E h \in Heirs : Fork(h)
    BY <2>1, <1>1, <1>a DEF Fork, Acting
  <2>2. ASSUME NEW s \in Streams, NEW n \in 1 .. MaxBytes, Write(s, n)
        PROVE  ReturnInv'
    <3>1. Holders # {} /\ result' = result
      BY <2>2 DEF Write, Acting, Holders
    <3> QED
      BY <3>1 DEF ReturnInv, Returned, Write
  <2>3. CASE \E p \in Procs : End(p)
    BY <2>3, <1>2 DEF End, Exits, output, ending
  <2> QED
    BY <1>5, <2>1, <2>2, <2>3 DEF Group
<1>6. CASE Signals
  BY <1>6, <1>2 DEF Signals, Die, Exits, output, ending
<1>7. CASE \/ Spawn \/ SpawnMissing \/ Abort \/ Timers \/ Feed
           \/ CloseEvent \/ ErrorEvent
           \/ \E s \in Streams : Pump(s) \/ OutputFails(s)
  <2>1. result' = result /\ pc # "settled"
    BY <1>7 DEF Spawn, SpawnMissing, Abort, Timers, Timeout, GraceEnds, Feed, InputEnds,
                InputBreaks, InputThrows, CloseEvent, ErrorEvent, Pump, ReadChunk,
                HandleChunk, OutputEnds, OutputFails
  <2> QED
    BY <2>1, <1>1, <1>a
<1>8. CASE UNCHANGED vars
  BY <1>8, <1>2 DEF vars, group, output, ending
<1> QED
  BY <1>3, <1>4, <1>5, <1>6, <1>7, <1>8 DEF Next, Begin, Finish

\* No output is lost: a call that returns has captured all that any process of
\* the group has written, up to the limit.
THEOREM NothingIsLost == Spec => []OutputIsWhole
<1>1. Init => OutputInv
  <2>1. Init => LoopInv
    BY ProcessConstants DEF Init, LoopInv, Taken
  <2>2. Init => ReturnInv
    BY DEF Init, ReturnInv, Returned, Reasons
  <2> QED
    BY <2>1, <2>2, InitType DEF OutputInv
<1>2. OutputInv /\ [Next]_vars => OutputInv'
  <2> SUFFICES ASSUME OutputInv, [Next]_vars PROVE OutputInv'
    OBVIOUS
  <2>1. LoopInv'
    <3>1. CASE UNCHANGED vars
      BY <3>1, LoopFrame DEF OutputInv, vars, group, ending
    <3> QED
      BY <3>1, GroupLoop, CallLoop DEF OutputInv, Next
  <2> QED
    BY <2>1, StepType, StepReturn DEF OutputInv
<1>3. OutputInv => OutputIsWhole
  <2> SUFFICES ASSUME OutputInv, Returned, NEW s \in Streams
               PROVE  /\ result \in {"exit", "signal"} => captured[s] = written[s]
                      /\ captured[s] = IF written[s] <= MaxCapture THEN written[s]
                                                                 ELSE MaxCapture
    BY DEF OutputIsWhole, Returned
  <2>1. pipe[s] = 0 /\ chunk[s] = 0 /\ task[s] # "failed" /\ written[s] \in Nat
    <3>1. written \in [Streams -> 0 .. MaxBytes] /\ MaxBytes \in Nat
      BY ProcessConstants DEF OutputInv, TypeInv, TypeOK
    <3> QED
      BY <3>1 DEF OutputInv, ReturnInv
  <2>2. Taken(s) = written[s]
    BY <2>1 DEF Taken
  <2> QED
    BY <2>1, <2>2, ProcessConstants DEF OutputInv, LoopInv, ReturnInv
<1> QED
  BY <1>1, <1>2, <1>3, PTL DEF Spec

-----------------------------------------------------------------------------
(* What no step takes back.                                                 *)

\* The first reason and the first failure stay; after the end only the limit on
\* output may still become the reason; a call that has returned has returned.
FirstStays ==
  /\ reason # "none" => reason' = reason
  /\ failure # "none" => failure' = failure
  /\ finished => finished' /\ exit' = exit /\ reason' \in {reason, "output-limit"}
  /\ terminating => terminating' /\ grace' # "unset"
  /\ pc = "settled" => UNCHANGED <<pc, result, reason, failure, captured, terminating>>

\* The timer of the SIGKILL is set with the termination.
TimerInv == terminating <=> grace # "unset"

\* Termination sets the timer, a request or a failure is taken when there was none.
LEMMA AskedStays ==
  ASSUME TypeInv, TimerInv, pc = "running", UNCHANGED <<pc, result, finished, exit>>,
         \/ (\E r \in Reasons : RequestTermination(r)) /\ failure' = failure
         \/ (\E phase \in {"stdin"} \cup Streams : RecordIoFailure(phase)) /\ reason' = reason
         \/ UNCHANGED <<reason, failure, terminating>>
              /\ (grace' = grace \/ (grace = "armed" /\ grace' = "fired"))
  PROVE  FirstStays /\ TimerInv'
BY DEF FirstStays, TimerInv, RequestTermination, RecordIoFailure, BeginTermination,
   TypeInv, TypeOK, Reasons

\* Every step keeps what came first, and the timer with the termination.
LEMMA StepFirst == TypeInv /\ TimerInv /\ [Next]_vars => [FirstStays]_vars /\ TimerInv'
<1> SUFFICES ASSUME TypeInv, TimerInv, [Next]_vars PROVE [FirstStays]_vars /\ TimerInv'
  OBVIOUS
<1>1. CASE UNCHANGED vars
  BY <1>1 DEF vars, ending, TimerInv
<1>2. CASE Begin
  BY <1>2 DEF Begin, Refuse, Spawn, SpawnMissing, group, output, ending, call,
     FirstStays, TimerInv, TypeInv, CallInv
<1>3. CASE Group \/ Signals
  <2>1. UNCHANGED <<pc, result, finished, ending, captured>>
    BY <1>3 DEF Group, Signals, Fork, Write, End, Die, output, ending, call
  <2>2. exit' = exit \/ exit = "none"
    BY <1>3 DEF Group, Signals, Fork, Write, End, Die, Exits, group, Acting,
       TypeInv, TypeOK, CallInv
  <2> QED
    BY <2>1, <2>2 DEF FirstStays, TimerInv, TypeInv, CallInv, ending
<1>4. CASE Abort \/ Timeout
  <2>1. "aborted" \in Reasons /\ "timeout" \in Reasons
    BY DEF Reasons
  <2> QED
    BY <1>4, <2>1, AskedStays DEF Abort, Timeout
<1>5. CASE GraceEnds \/ InputEnds
  BY <1>5, AskedStays DEF GraceEnds, InputEnds, call, ending, group
<1>6. CASE InputBreaks \/ InputThrows
  BY <1>6, AskedStays DEF InputBreaks, InputThrows
<1>7. ASSUME NEW s \in Streams, Pump(s) \/ OutputFails(s)
      PROVE  FirstStays /\ TimerInv'
  <2>1. "output-limit" \in Reasons
    BY DEF Reasons
  <2>2. /\ pc = "running" /\ UNCHANGED <<pc, result, finished, exit>>
        /\ \/ (\E r \in Reasons : RequestTermination(r)) /\ failure' = failure
           \/ (\E phase \in {"stdin"} \cup Streams : RecordIoFailure(phase)) /\ reason' = reason
           \/ UNCHANGED <<reason, failure, terminating>> /\ grace' = grace
    BY <1>7, <2>1 DEF Pump, ReadChunk, HandleChunk, OutputEnds, OutputFails, group, call,
       ending
  <2> QED
    BY <2>2, AskedStays
<1>8. CASE Finish
  BY <1>8 DEF Finish, CloseEvent, ErrorEvent, Settle, group, output, ending, call,
     FirstStays, TimerInv, TypeInv, TypeOK
<1> QED
  BY <1>1, <1>2, <1>3, <1>4, <1>5, <1>6, <1>7, <1>8 DEF Next, Timers, Feed

\* A call keeps its first reason (run-process.ts:160-196), in every order of aborts,
\* time-outs, limits, failures and exits; what it has reported it does not report
\* otherwise.
THEOREM FirstReasonStays == Spec => [][FirstStays]_vars
<1>1. Init => TimerInv
  BY DEF Init, TimerInv
<1> QED
  BY <1>1, StepFirst, InitType, StepType, PTL DEF Spec

\* The group has been sent SIGKILL, or the streams have closed before that.
Over == finished \/ grace = "fired"

\* What is still to be done for a stream: its bytes, and the chunk at work.
PumpWork(s) ==
  2 * pipe[s] + CASE task[s] = "handle" -> 2 [] task[s] = "read" -> 1 [] OTHER -> 0

\* Then nothing is added any more: no process joins the group or writes, every chunk
\* that is read or handled leaves less to do, and no other step leaves more.
WindsDown ==
  Over =>
    /\ Over' /\ alive' \subseteq alive /\ written' = written
    /\ \A s \in Streams : PumpWork(s)' <= PumpWork(s) /\ (Pump(s) => PumpWork(s)' < PumpWork(s))

\* SIGKILL is for all of the group; at the end of the streams nobody is left who
\* has them open, or they have failed.
KilledInv ==
  /\ grace = "fired" /\ ~finished => alive \subseteq doomed
  /\ finished => Leader \notin alive /\ (Holders = {} \/ \A s \in Streams : task[s] = "failed")
  /\ pc = "new" => ~finished /\ grace = "unset"
  /\ exit = "missing" => alive = {}

\* A group that is over has nobody to fork or to write.
LEMMA NobodyActs ==
  ASSUME TypeInv, KilledInv, Over
  PROVE  /\ Leader \notin Acting
         /\ Acting \ Detached = {} \/ \A s \in Streams : task[s] = "failed"
BY DEF TypeInv, TypeOK, KilledInv, Over, Acting, Holders

\* The work on a stream is a number; reading and handling a chunk, and the end and
\* the failure of the stream, leave less of it.
LEMMA PumpDescends ==
  ASSUME TypeInv, NEW s \in Streams, Pump(s) \/ OutputFails(s)
  PROVE  /\ PumpWork(s)' < PumpWork(s)
         /\ \A t \in Streams \ {s} : PumpWork(t)' = PumpWork(t)
         /\ pc = "running" /\ UNCHANGED <<alive, exit, written, finished, pc>>
         /\ grace' = grace \/ (~terminating /\ ~finished)
         /\ \A t \in Streams : task[t] = "failed" => task'[t] = "failed"
<1>0. /\ pipe \in [Streams -> Nat] /\ chunk \in [Streams -> Nat]
      /\ task \in [Streams -> {"read", "handle", "done", "failed"}]
  BY DEF TypeInv, TypeOK
<1>1. ASSUME NEW n \in 1 .. MaxBytes, ReadChunk(s, n)
      PROVE  /\ pipe'[s] \in Nat /\ pipe'[s] < pipe[s] /\ task[s] = "read" /\ task'[s] = "handle"
             /\ \A t \in Streams \ {s} : pipe'[t] = pipe[t] /\ task'[t] = task[t]
  BY <1>0, <1>1, ProcessConstants DEF ReadChunk
<1>2. ASSUME HandleChunk(s) \/ OutputEnds(s) \/ OutputFails(s)
      PROVE  /\ pipe'[s] \in Nat /\ pipe'[s] <= pipe[s]
             /\ \/ task[s] = "handle" /\ task'[s] = "read"
                \/ task[s] = "read" /\ task'[s] = "done"
                \/ task[s] \in {"read", "handle"} /\ task'[s] = "failed"
             /\ \A t \in Streams \ {s} : pipe'[t] = pipe[t] /\ task'[t] = task[t]
  BY <1>0, <1>2 DEF HandleChunk, OutputEnds, OutputFails
<1>3. PumpWork(s)' < PumpWork(s)
  <2>1. CASE \E n \in 1 .. MaxBytes : ReadChunk(s, n)
    BY <1>0, <1>1, <2>1 DEF PumpWork
  <2>2. CASE HandleChunk(s) \/ OutputEnds(s) \/ OutputFails(s)
    BY <1>0, <1>2, <2>2 DEF PumpWork
  <2> QED
    BY <2>1, <2>2 DEF Pump
<1>4. \A t \in Streams \ {s} : pipe'[t] = pipe[t] /\ task'[t] = task[t]
  BY <1>1, <1>2 DEF Pump
<1>5. \A t \in Streams : task[t] = "failed" => task'[t] = "failed"
  BY <1>1, <1>2, <1>4 DEF Pump
<1>6. pc = "running" /\ UNCHANGED <<alive, exit, written, finished, pc>>
  BY DEF Pump, ReadChunk, HandleChunk, OutputEnds, OutputFails, group, call
<1>7. grace' = grace \/ (~terminating /\ ~finished)
  BY DEF Pump, ReadChunk, HandleChunk, OutputEnds, OutputFails, ending,
     RequestTermination, RecordIoFailure, BeginTermination
<1> QED
  BY <1>3, <1>4, <1>5, <1>6, <1>7 DEF PumpWork

\* A step that leaves processes, streams and the state of the call as they are, but
\* may doom or terminate, winds down and keeps the invariant.
LEMMA QuietWindsDown ==
  ASSUME TypeInv, TimerInv, KilledInv, pc # "new", pc' # "new", alive' \subseteq alive,
         UNCHANGED <<written, pipe, task, finished>>, exit' = "missing" => exit = "missing",
         alive \subseteq doomed => alive' \subseteq doomed',
         \/ grace' = grace
         \/ ~terminating /\ grace' = "armed"
         \/ grace' = "fired" /\ (~finished => alive' \subseteq doomed'),
         \A s \in Streams : ~Pump(s)
  PROVE  WindsDown /\ KilledInv'
<1>1. \A s \in Streams : PumpWork(s)' = PumpWork(s) /\ PumpWork(s) \in Nat
  BY DEF PumpWork, TypeInv, TypeOK
<1>2. Over => Over'
  BY DEF Over, TimerInv
<1>3. WindsDown
  BY <1>1, <1>2 DEF WindsDown
<1>4. KilledInv'
  BY DEF KilledInv, TimerInv, Holders
<1> QED
  BY <1>3, <1>4

\* Once the group has been killed, or its streams have closed, what is left to do only
\* gets less: run-process.ts:154 reaches descendants that ignore SIGTERM, and no one
\* is forked behind its back.  What TerminationSettles adds is the fairness.
THEOREM GroupWindsDown == Spec => [][WindsDown]_vars
<1>1. Init => TimerInv /\ KilledInv
  BY DEF Init, TimerInv, KilledInv
<1>2. ASSUME TypeInv, TypeInv', TimerInv, TimerInv', KilledInv, [Next]_vars
      PROVE  [WindsDown]_vars /\ KilledInv'
  <2>0. /\ \A s \in Streams : PumpWork(s) \in Nat /\ PumpWork(s)' \in Nat
        /\ Over => pc # "new"
    BY <1>2 DEF PumpWork, TypeInv, TypeOK, KilledInv, Over
  <2>1. CASE UNCHANGED vars
    BY <1>2, <2>1 DEF vars, group, output, ending, call, KilledInv, Holders
  <2>2. CASE Begin
    <3>1. /\ pc = "new" /\ ~finished /\ grace = "unset" /\ pc' # "new"
          /\ finished' = finished /\ grace' = grace
          /\ exit' = "missing" => alive' = {}
      BY <1>2, <2>2 DEF Begin, Refuse, Spawn, SpawnMissing, KilledInv, ending, call, group,
         TypeInv, CallInv
    <3> QED
      BY <3>1 DEF WindsDown, KilledInv, Over
  <2>3. CASE Group
    <3>1. CASE \E h \in Heirs : Fork(h)
      <4>1. ~Over /\ exit' # "missing" /\ UNCHANGED <<finished, grace, pc>>
        BY <1>2, <3>1, NobodyActs DEF Fork, Acting, KilledInv, ending, call
      <4> QED
        BY <1>2, <4>1 DEF WindsDown, KilledInv, Over
    <3>2. CASE \E s \in Streams, n \in 1 .. MaxBytes : Write(s, n)
      <4>1. ~Over /\ UNCHANGED <<finished, grace, pc, exit, alive>>
        BY <1>2, <3>2, NobodyActs DEF Write, ending, call, group
      <4> QED
        BY <1>2, <4>1 DEF WindsDown, KilledInv, Over
    <3>3. ASSUME NEW p \in Procs, End(p) PROVE WindsDown /\ KilledInv'
      <4>1. /\ alive' = alive \ {p} /\ p \in alive /\ doomed' = doomed
            /\ UNCHANGED <<written, pipe, task, finished, grace, pc>>
            /\ exit' = "missing" => exit = "missing"
        BY <3>3 DEF End, Exits, Acting, output, ending, call
      <4>2. pc # "new" /\ \A s \in Streams : ~Pump(s)
        BY <1>2, <4>1 DEF TypeInv, TypeOK, CallInv, Pump, ReadChunk, HandleChunk,
           OutputEnds, group
      <4> QED
        BY <1>2, <4>1, <4>2, QuietWindsDown
    <3> QED
      BY <2>3, <3>1, <3>2, <3>3 DEF Group
  <2>4. CASE Signals
    <3> SUFFICES ASSUME NEW p \in Procs, Die(p) PROVE WindsDown /\ KilledInv'
      BY <2>4 DEF Signals
    <3>1. /\ alive' = alive \ {p} /\ doomed' = doomed \ {p} /\ p \in alive
          /\ UNCHANGED <<written, pipe, task, finished, grace, pc>>
          /\ exit' = "missing" => exit = "missing"
      BY <1>2 DEF Die, Exits, output, ending, call, TypeInv, TypeOK
    <3>2. pc # "new" /\ \A s \in Streams : ~Pump(s)
      BY <1>2, <3>1 DEF TypeInv, TypeOK, CallInv, Pump, ReadChunk, HandleChunk,
         OutputEnds, group
    <3> QED
      BY <1>2, <3>1, <3>2, QuietWindsDown
  <2>5. CASE Abort \/ Timeout \/ GraceEnds \/ Feed
    <3>1. /\ pc = "running" /\ UNCHANGED <<pc, alive, exit, written, pipe, task, finished>>
          /\ alive \subseteq doomed => alive' \subseteq doomed'
          /\ \/ grace' = grace
             \/ ~terminating /\ grace' = "armed"
             \/ grace' = "fired" /\ (~finished => alive' \subseteq doomed')
      BY <2>5 DEF Abort, Timeout, GraceEnds, Feed, InputEnds, InputBreaks, InputThrows,
         RequestTermination, RecordIoFailure, BeginTermination, group, output, ending, call
    <3>2. \A s \in Streams : ~Pump(s)
      BY <1>2, <3>1 DEF Pump, ReadChunk, HandleChunk, OutputEnds, TypeInv, TypeOK
    <3> QED
      BY <1>2, <3>1, <3>2, QuietWindsDown
  <2>6. ASSUME NEW s \in Streams, Pump(s) \/ OutputFails(s)
        PROVE  WindsDown /\ KilledInv'
    <3>1. /\ PumpWork(s)' < PumpWork(s)
          /\ \A t \in Streams \ {s} : PumpWork(t)' = PumpWork(t)
          /\ pc = "running" /\ UNCHANGED <<alive, exit, written, finished, pc>>
          /\ grace' = grace \/ (~terminating /\ ~finished)
          /\ \A t \in Streams : task[t] = "failed" => task'[t] = "failed"
      BY <1>2, <2>6, PumpDescends
    <3>2. \A t \in Streams : Pump(t) => PumpWork(t)' < PumpWork(t)
      BY <1>2, PumpDescends
    <3>3. \A t \in Streams : PumpWork(t)' <= PumpWork(t)
      BY <2>0, <3>1
    <3>4. Over => grace' = grace /\ Over'
      BY <1>2, <3>1 DEF Over, TimerInv
    <3>5. doomed \subseteq doomed'
      BY <2>6 DEF Pump, ReadChunk, HandleChunk, OutputEnds, OutputFails, group,
         RequestTermination, RecordIoFailure, BeginTermination
    <3>6. WindsDown
      BY <3>1, <3>2, <3>3, <3>4 DEF WindsDown
    <3>7. grace' = "fired" => grace = "fired"
      BY <1>2, <2>6 DEF Pump, ReadChunk, HandleChunk, OutputEnds, OutputFails, ending,
         RequestTermination, RecordIoFailure, BeginTermination
    <3>8. KilledInv'
      BY <1>2, <3>1, <3>5, <3>7 DEF KilledInv, Holders
    <3> QED
      BY <3>6, <3>8
  <2>7. CASE Finish
    <3>1. /\ pc = "running" /\ pc' # "new" /\ grace' = grace /\ (finished => finished')
          /\ UNCHANGED <<alive, doomed, exit, written, pipe, task>>
      BY <2>7 DEF Finish, CloseEvent, ErrorEvent, Settle, group, output, ending, call
    <3>2. \A s \in Streams : ~Pump(s)
      BY <1>2, <3>1 DEF Pump, ReadChunk, HandleChunk, OutputEnds, TypeInv, TypeOK
    <3>3. WindsDown
      BY <2>0, <3>1, <3>2 DEF WindsDown, Over, PumpWork
    <3>4. KilledInv'
      BY <1>2, <2>7, <3>1 DEF Finish, CloseEvent, ErrorEvent, Settle, group, output, ending,
         call, KilledInv, Holders, Ended, TypeInv, CallInv
    <3> QED
      BY <3>3, <3>4
  <2> QED
    BY <1>2, <2>1, <2>2, <2>3, <2>4, <2>5, <2>6, <2>7 DEF Next, Timers
<1> QED
  BY <1>1, <1>2, StepFirst, InitType, StepType, PTL DEF Spec
=============================================================================
