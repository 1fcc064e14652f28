--------------------------- MODULE AgentTaskProofs ---------------------------
(***************************************************************************)
(* Proofs about AgentTask, for any number of executions and requests, any  *)
(* plan, either kind of provider, every way of starting a task.            *)
(***************************************************************************)
EXTENDS AgentTask, TLAPS

\* In the middle of a step of the plan.
InStep == {"attempt", "spawn", "register", "wait", "unregister"}

\* A command belongs to a step and to one of its tools.  How many commands an
\* execution has started after its flag was set, by where it is: one with the
\* check before each tool, and one per attempt without.
InBounds(r, s) ==
  /\ s.pc \in InStep => s.step # Steps
  /\ s.pc \in InStep \ {"attempt"} => s.tools # MaxTools
  /\ ~s.flag => s.late = 0
  /\ r \in Streaming => s.late <= 1 /\ (s.late = 1 => s.pc # "spawn")
  /\ r \notin Streaming =>
       /\ s.late <= MaxRetries + 1
       /\ s.pc \in {"attempt", "spawn"} => s.late <= s.retries
       /\ s.pc \in {"register", "wait", "unregister"} => s.late <= s.retries + 1

Resting == {"unused", "created", "publish", "finally", "ended", "dead"}

\* The state of an execution agrees with what it has reached.
RunAgrees(r, s) ==
  /\ InBounds(r, s)
  /\ s.pc \in Resting => s.status # "running"
  /\ s.pc \in {"unused", "created", "announce"} => ~s.announced
  /\ s.status \in Terminal => s.status \in reached
  /\ s.pc = "publish" /\ s.raised = "none" => "success" \in reached
  /\ s.pc = "publish" /\ s.raised = "cancelled" => "cancelled" \in reached

RuntimeIsBegun == runtime # NoRun => run[runtime].pc \notin {"unused", "created", "dead"}

\* What a request is about to write was reached; and in a life of the server in
\* which nobody asked for an end, it is the status the one execution still has.
RequestAgrees(a) ==
  /\ a.pc \in {"write", "mark"} /\ a.status \in Terminal => a.status \in reached
  /\ a.pc = "kill" => "cancelled" \in reached
  /\ a.pc \in {"kill", "mark"} => asked
  /\ a.pc = "write" /\ ~asked =>
       /\ runtime # NoRun
       /\ \A r \in Run : Begun = {r} /\ run[r].status = "running" => a.status = "running"

TaskInv ==
  /\ TypeOK
  /\ RuntimeIsBegun
  /\ \A r \in Run : RunAgrees(r, run[r])
  /\ \A q \in Request : RequestAgrees(request[q])
  /\ RowIsTruthful
  /\ RunningIsDetectable

LEMMA UnusedType == Unused \in RunState /\ Unused.pc = "unused" /\ Unused.status = "idle"
                    /\ Unused.late = 0 /\ ~Unused.flag /\ ~Unused.announced
  BY BoundAssumption DEF Unused, RunState, TaskStatus, MaxRetries

LEMMA NoRequestType == NoRequest \in RequestState /\ NoRequest.pc = "idle"
  BY DEF NoRequest, RequestState, TaskStatus

------------------------------------------------------------------------------
(* Steps of one execution that leave the rest of the system alone *)

Working == {"setup", "explore", "context", "step", "attempt", "spawn", "register", "wait",
            "unregister"}

\* The record s of execution r after such a step.
Stride(r, s) ==
  /\ s \in RunState
  /\ s.status = run[r].status /\ s.flag = run[r].flag /\ s.announced = run[r].announced
  /\ InBounds(r, s)
  /\ \/ s.pc = run[r].pc /\ s.raised = run[r].raised
     \/ run[r].pc \in Working /\ s.pc \in Working \cup {"return", "conclude"}
     \/ run[r].pc = "return" /\ s.pc = "conclude"

LEMMA RunIs ==
  ASSUME TaskInv, NEW r \in Run
  PROVE  /\ run[r] \in RunState /\ RunAgrees(r, run[r]) /\ InBounds(r, run[r])
         /\ run[r].late \in Nat /\ run[r].retries \in 0..MaxRetries /\ run[r].tools \in 0..MaxTools
         /\ run[r].step \in 0..Steps /\ run[r].flag \in BOOLEAN
  BY DEF TaskInv, TypeOK, RunState, RunAgrees

\* The parts of steps.
LEMMA RaisedStride ==
  ASSUME TaskInv, NEW r \in Run, run[r].pc \in Working, NEW e \in {"cancelled", "error"}
  PROVE  Stride(r, Raised(r, e))
<1> DEFINE s == Raised(r, e)
<1>1. /\ s \in RunState /\ s.pc = "conclude" /\ s.status = run[r].status
      /\ s.flag = run[r].flag /\ s.announced = run[r].announced
      /\ s.late = run[r].late
  BY ZenonT(60), RunIs DEF Raised, RunState
<1>2. InBounds(r, s)
  BY <1>1, RunIs DEF InBounds, InStep
<1> HIDE DEF s
<1> QED
  BY <1>1, <1>2 DEF Stride, s

LEMMA StepDoneStride ==
  ASSUME TaskInv, NEW r \in Run, run[r].pc \in Working, run[r].step # Steps
  PROVE  Stride(r, StepDone(r))
<1> DEFINE s == StepDone(r)
<1>1. run[r].step + 1 \in 0..Steps /\ 0 \in 0..MaxTools /\ 0 \in 0..MaxRetries
  BY RunIs, BoundAssumption DEF MaxRetries
<1>2. /\ s \in RunState /\ s.pc = "step" /\ s.status = run[r].status
      /\ s.flag = run[r].flag /\ s.announced = run[r].announced
      /\ s.late = run[r].late
  BY ZenonT(60), <1>1, RunIs DEF StepDone, RunState
<1>3. InBounds(r, s)
  BY <1>2, RunIs DEF InBounds, InStep
<1> HIDE DEF s
<1> QED
  BY <1>2, <1>3 DEF Stride, Working, s

LEMMA AttemptFailedStride ==
  ASSUME TaskInv, NEW r \in Run, run[r].pc \in {"attempt", "unregister"}, NEW e \in {"cancelled", "error"}
  PROVE  Stride(r, AttemptFailed(r, e))
<1>0. run[r].pc \in Working
  BY DEF Working
<1>1. CASE run[r].retries < MaxRetries
  <2> DEFINE s == [run[r] EXCEPT !.pc = "attempt", !.retries = @ + 1, !.tools = 0]
  <2>1. run[r].retries + 1 \in 0..MaxRetries /\ 0 \in 0..MaxTools
    BY <1>1, RunIs, BoundAssumption DEF MaxRetries
  <2>2. /\ s \in RunState /\ s.pc = "attempt" /\ s.status = run[r].status
        /\ s.flag = run[r].flag /\ s.announced = run[r].announced
        /\ s.late = run[r].late /\ s.retries = run[r].retries + 1 /\ s.step = run[r].step
    BY ZenonT(60), <2>1, RunIs DEF RunState
  <2>3. InBounds(r, s)
    <3> HIDE DEF s
    <3>1. InBounds(r, run[r]) /\ run[r].late \in Nat /\ run[r].retries \in 0..MaxRetries
      BY RunIs
    <3> QED
      BY <2>2, <3>1 DEF InBounds, InStep, MaxRetries
  <2>4. Stride(r, s)
    <3> HIDE DEF s
    <3> QED
      BY <1>0, <2>2, <2>3 DEF Stride, Working
  <2> QED
    BY <1>1, <2>4 DEF AttemptFailed
<1>2. CASE ~(run[r].retries < MaxRetries)
  BY <1>0, <1>2, RaisedStride DEF AttemptFailed
<1> QED
  BY <1>1, <1>2

\* A step in a step of the plan that changes neither the counts nor the flag.
LEMMA WithinStride ==
  ASSUME TaskInv, NEW r \in Run, run[r].pc \in Working, NEW s \in RunState,
         s.pc \in Working \cup {"return"}, s.pc = "spawn" => run[r].pc = "spawn",
         s.status = run[r].status, s.flag = run[r].flag, s.announced = run[r].announced, s.late = run[r].late,
         s.retries = run[r].retries, s.step = run[r].step,
         s.pc \in InStep => run[r].pc \in InStep,
         s.pc = "attempt" => run[r].pc = "attempt" \/ r \in Streaming,
         s.pc \in InStep \ {"attempt"} => s.tools = run[r].tools /\ run[r].pc \in InStep \ {"attempt"}
  PROVE  Stride(r, s)
<1>1. InBounds(r, run[r]) /\ run[r].late \in Nat /\ run[r].retries \in 0..MaxRetries
  BY RunIs
<1>2. InBounds(r, s)
  BY <1>1 DEF InBounds, InStep, MaxRetries
<1> QED
  BY <1>2 DEF Stride

LEMMA SetupStride ==
  ASSUME TaskInv, NEW r \in Run, Setup(r) \/ Context(r)
  PROVE  \E s : run' = [run EXCEPT ![r] = s] /\ Stride(r, s)
<1>1. run[r].pc \in {"setup", "context"} /\ run[r].pc \in Working
  BY DEF Setup, Context, At, Working
<1>2. Stride(r, Raised(r, "error")) /\ Stride(r, Raised(r, "cancelled"))
  BY <1>1, RaisedStride
<1>3. ASSUME NEW pc \in {"explore", "step"} PROVE Stride(r, [run[r] EXCEPT !.pc = pc])
  <2> DEFINE s == [run[r] EXCEPT !.pc = pc]
  <2>1. /\ s \in RunState /\ s.pc = pc /\ s.status = run[r].status
        /\ s.flag = run[r].flag /\ s.announced = run[r].announced
        /\ s.late = run[r].late /\ s.retries = run[r].retries /\ s.step = run[r].step
        /\ s.tools = run[r].tools
    BY RunIs DEF RunState
  <2> HIDE DEF s
  <2>2. Stride(r, s)
    BY <1>1, <2>1, WithinStride DEF Working, InStep
  <2> QED
    BY <2>2 DEF s
<1>4. \A pc \in {"explore", "step"} : Stride(r, Checked(r, pc))
  BY <1>2, <1>3 DEF Checked
<1> QED
  BY <1>2, <1>4 DEF Setup, Context

LEMMA StepStride ==
  ASSUME TaskInv, NEW r \in Run, Step(r)
  PROVE  \E s : run' = [run EXCEPT ![r] = s] /\ Stride(r, s)
<1>1. run[r].pc = "step" /\ run[r].pc \in Working
  BY DEF Step, At, Working
<1>2. CASE run[r].step = Steps
  <2> DEFINE s == [run[r] EXCEPT !.pc = "return"]
  <2>1. /\ s \in RunState /\ s.pc = "return" /\ s.status = run[r].status
        /\ s.flag = run[r].flag /\ s.announced = run[r].announced
        /\ s.late = run[r].late /\ s.retries = run[r].retries /\ s.step = run[r].step
    BY RunIs DEF RunState
  <2>2. run' = [run EXCEPT ![r] = s]
    BY <1>2 DEF Step
  <2> HIDE DEF s
  <2> QED
    BY <1>1, <2>1, <2>2, WithinStride DEF InStep
<1>3. CASE run[r].step # Steps /\ run[r].flag
  BY <1>1, <1>3, RaisedStride DEF Step
<1>4. CASE run[r].step # Steps /\ ~run[r].flag
  <2> DEFINE s == [run[r] EXCEPT !.pc = "attempt"]
  <2>1. /\ s \in RunState /\ s.pc = "attempt" /\ s.status = run[r].status
        /\ s.flag = run[r].flag /\ s.announced = run[r].announced
        /\ s.late = run[r].late /\ s.retries = run[r].retries /\ s.step = run[r].step
    BY RunIs DEF RunState
  <2>2. run' = [run EXCEPT ![r] = s]
    BY <1>4 DEF Step
  <2> HIDE DEF s
  <2>3. InBounds(r, run[r]) /\ run[r].retries \in 0..MaxRetries
    BY RunIs
  <2>4. InBounds(r, s)
    BY <1>4, <2>1, <2>3 DEF InBounds, InStep, MaxRetries
  <2> QED
    BY <1>1, <2>1, <2>2, <2>4 DEF Stride, Working
<1> QED
  BY <1>2, <1>3, <1>4, RunIs

LEMMA AttemptStride ==
  ASSUME TaskInv, NEW r \in Run, Attempt(r)
  PROVE  \E s : run' = [run EXCEPT ![r] = s] /\ Stride(r, s)
<1>0. InBounds(r, run[r]) /\ run[r].retries \in 0..MaxRetries /\ run[r].tools \in 0..MaxTools
  BY RunIs
<1>1. run[r].pc = "attempt" /\ run[r].pc \in Working /\ run[r].step # Steps
  BY <1>0 DEF Attempt, At, Working, InBounds, InStep
<1>2. \A e \in {"cancelled", "error"} : Stride(r, Raised(r, e)) /\ Stride(r, AttemptFailed(r, e))
  BY <1>1, RaisedStride, AttemptFailedStride
<1>3. Stride(r, StepDone(r))
  BY <1>1, StepDoneStride
<1>4. ASSUME run[r].tools # MaxTools, ~SeesFlag(r)
      PROVE  Stride(r, [run[r] EXCEPT !.pc = "spawn"])
  <2> DEFINE s == [run[r] EXCEPT !.pc = "spawn"]
  <2>1. /\ s \in RunState /\ s.pc = "spawn" /\ s.status = run[r].status
        /\ s.flag = run[r].flag /\ s.announced = run[r].announced
        /\ s.late = run[r].late /\ s.retries = run[r].retries /\ s.step = run[r].step
        /\ s.tools = run[r].tools
    BY RunIs DEF RunState
  <2>2. r \in Streaming => ~run[r].flag
    <3>1. run[r].tools < MaxTools
      BY <1>0, <1>4, BoundAssumption
    <3> QED
      BY <1>4, <3>1 DEF SeesFlag
  <2> HIDE DEF s
  <2>3. InBounds(r, s)
    BY <1>0, <1>1, <1>4, <2>1, <2>2 DEF InBounds, InStep, MaxRetries
  <2>4. Stride(r, s)
    BY <1>1, <2>1, <2>3 DEF Stride, Working
  <2> QED
    BY <2>4 DEF s
<1>5. ASSUME run[r].tools # MaxTools
      PROVE  Stride(r, [run[r] EXCEPT !.tools = @ + 1])
  <2> DEFINE s == [run[r] EXCEPT !.tools = @ + 1]
  <2>0. run[r].tools + 1 \in 0..MaxTools
    BY <1>0, <1>5, BoundAssumption
  <2>1. /\ s \in RunState /\ s.pc = "attempt" /\ s.status = run[r].status
        /\ s.flag = run[r].flag /\ s.announced = run[r].announced
        /\ s.late = run[r].late /\ s.retries = run[r].retries /\ s.step = run[r].step
    BY <1>1, <2>0, RunIs DEF RunState
  <2> HIDE DEF s
  <2>2. Stride(r, s)
    BY <1>1, <2>1, WithinStride DEF InStep, Working
  <2> QED
    BY <2>2 DEF s
<1>6. \E s \in IF SeesFlag(r) THEN {AttemptFailed(r, "cancelled")} ELSE Choices(r) :
        run' = [run EXCEPT ![r] = s]
  BY DEF Attempt
<1>7. \A s \in Choices(r) : ~SeesFlag(r) => Stride(r, s)
  BY <1>2, <1>3, <1>4, <1>5 DEF Choices, ToolOutcomes
<1> QED
  BY <1>2, <1>6, <1>7

LEMMA SpawnStride ==
  ASSUME TaskInv, NEW r \in Run, Spawn(r)
  PROVE  \E s : run' = [run EXCEPT ![r] = s] /\ Stride(r, s)
<1>0. InBounds(r, run[r]) /\ run[r].retries \in 0..MaxRetries /\ run[r].late \in Nat
      /\ run[r].flag \in BOOLEAN
  BY RunIs
<1>1. run[r].pc = "spawn" /\ run[r].pc \in Working
  BY DEF Spawn, At, Working
<1> DEFINE late == IF run[r].flag THEN run[r].late + 1 ELSE run[r].late
           started == [run[r] EXCEPT !.pc = "register", !.proc = "alive", !.signal = "none",
                                 !.late = late]
           failed == [run[r] EXCEPT !.pc = "unregister", !.proc = "failed"]
<1>4. PICK s : run' = [run EXCEPT ![r] = s] /\ s \in {started, failed}
  BY DEF Spawn
<1>a. late \in Nat /\ late <= run[r].late + 1 /\ (~run[r].flag => late = run[r].late)
  BY <1>0
<1> HIDE DEF late
<1>2. /\ started \in RunState /\ started.pc = "register" /\ started.status = run[r].status
     
      /\ started.flag = run[r].flag /\ started.announced = run[r].announced /\ started.retries = run[r].retries
      /\ started.step = run[r].step /\ started.tools = run[r].tools /\ started.late = late
  BY ZenonT(60), <1>a, RunIs DEF RunState
<1>3. /\ failed \in RunState /\ failed.pc = "unregister" /\ failed.status = run[r].status
     
      /\ failed.flag = run[r].flag /\ failed.announced = run[r].announced /\ failed.retries = run[r].retries
      /\ failed.step = run[r].step /\ failed.tools = run[r].tools /\ failed.late = run[r].late
  BY ZenonT(60), <1>0, RunIs DEF RunState
<1> HIDE DEF started, failed
<1>5. Stride(r, started)
  <2>1. InBounds(r, started)
    BY <1>0, <1>1, <1>a, <1>2 DEF InBounds, InStep, MaxRetries
  <2> QED
    BY <1>1, <1>2, <2>1 DEF Stride, Working
<1>6. Stride(r, failed)
  BY <1>1, <1>3, WithinStride DEF InStep, Working
<1> QED
  BY <1>4, <1>5, <1>6

LEMMA CommandStride ==
  ASSUME TaskInv, NEW r \in Run, Register(r) \/ Wait(r)
  PROVE  \E s : run' = [run EXCEPT ![r] = s] /\ Stride(r, s)
<1>0. run[r] \in RunState
  BY RunIs
<1>1. run[r].pc \in {"register", "wait"} /\ run[r].pc \in Working
  BY DEF Register, Wait, At, Working
<1>2. PICK s : /\ run' = [run EXCEPT ![r] = s]
               /\ s \in {[run[r] EXCEPT !.pc = "wait", !.registered = TRUE],
                          [run[r] EXCEPT !.pc = "unregister"],
                          [run[r] EXCEPT !.pc = "unregister", !.signal = "timeout"]}
  BY DEF Register, Wait, Goto
<1>3. /\ s \in RunState /\ s.pc \in {"wait", "unregister"}
      /\ s.status = run[r].status /\ s.flag = run[r].flag /\ s.announced = run[r].announced
      /\ s.late = run[r].late /\ s.retries = run[r].retries /\ s.step = run[r].step
      /\ s.tools = run[r].tools
  BY ZenonT(60), <1>0, <1>2 DEF RunState
<1> QED
  BY <1>1, <1>2, <1>3, WithinStride DEF InStep, Working

LEMMA UnregisterStride ==
  ASSUME TaskInv, NEW r \in Run, Unregister(r)
  PROVE  \E s : run' = [run EXCEPT ![r] = s] /\ Stride(r, s)
<1>0. InBounds(r, run[r]) /\ run[r].tools \in 0..MaxTools
  BY RunIs
<1>1. run[r].pc = "unregister" /\ run[r].pc \in Working /\ run[r].step # Steps /\ run[r].tools # MaxTools
  BY <1>0 DEF Unregister, At, Working, InBounds, InStep
<1> DEFINE next == [run[r] EXCEPT !.pc = "attempt", !.tools = @ + 1]
           s == IF r \in Streaming THEN next
                ELSE IF run[r].proc = "ok" THEN StepDone(r) ELSE AttemptFailed(r, "error")
           t == [s EXCEPT !.registered = FALSE]
<1>2. Stride(r, s)
  <2>1. ASSUME r \in Streaming PROVE Stride(r, next)
    <3>1. run[r].tools + 1 \in 0..MaxTools
      BY <1>0, <1>1, BoundAssumption
    <3>2. /\ next \in RunState /\ next.pc = "attempt" /\ next.status = run[r].status
          /\ next.flag = run[r].flag /\ next.announced = run[r].announced
          /\ next.late = run[r].late /\ next.retries = run[r].retries /\ next.step = run[r].step
      BY ZenonT(60), <3>1, RunIs DEF RunState
    <3> HIDE DEF next
    <3> QED
      BY <1>1, <2>1, <3>2, WithinStride DEF InStep, Working
  <2> QED
    BY <1>1, <2>1, StepDoneStride, AttemptFailedStride
<1>3. run' = [run EXCEPT ![r] = t]
  BY DEF Unregister
<1> HIDE DEF s
<1>4. /\ t \in RunState /\ t.pc = s.pc /\ t.status = s.status /\ t.flag = s.flag /\ t.announced = s.announced /\ t.late = s.late
      /\ t.retries = s.retries /\ t.step = s.step /\ t.tools = s.tools /\ t.raised = s.raised
  BY <1>2 DEF Stride, RunState
<1> HIDE DEF t
<1>5. Stride(r, t)
  <2>1. InBounds(r, t)
    BY <1>2, <1>4 DEF Stride, InBounds
  <2> QED
    BY <1>2, <1>4, <2>1 DEF Stride
<1> QED
  BY <1>3, <1>5

LEMMA ExitStride ==
  ASSUME TaskInv, NEW r \in Run, ProcessExits(r)
  PROVE  \E s : run' = [run EXCEPT ![r] = s] /\ Stride(r, s)
<1>1. PICK p \in {"ok", "failed"} : run' = [run EXCEPT ![r].proc = p]
  BY DEF ProcessExits
<1> DEFINE s == [run[r] EXCEPT !.proc = p]
<1>2. /\ s \in RunState /\ s.pc = run[r].pc /\ s.status = run[r].status
      /\ s.flag = run[r].flag /\ s.announced = run[r].announced
      /\ s.late = run[r].late /\ s.retries = run[r].retries /\ s.step = run[r].step
      /\ s.tools = run[r].tools /\ s.raised = run[r].raised
  BY RunIs DEF RunState
<1>3. run' = [run EXCEPT ![r] = s]
  BY <1>1
<1> HIDE DEF s
<1>4. InBounds(r, s)
  BY <1>2, RunIs DEF InBounds
<1> QED
  BY <1>2, <1>3, <1>4 DEF Stride

LEMMA ReturnStride ==
  ASSUME TaskInv, NEW r \in Run, Return(r)
  PROVE  \E s : run' = [run EXCEPT ![r] = s] /\ Stride(r, s)
<1>1. run[r].pc = "return"
  BY DEF Return, At
<1> DEFINE s == [run[r] EXCEPT !.pc = "conclude", !.raised = IF run[r].flag THEN "cancelled" ELSE "none"]
<1>2. /\ s \in RunState /\ s.pc = "conclude" /\ s.status = run[r].status
      /\ s.flag = run[r].flag /\ s.announced = run[r].announced
      /\ s.late = run[r].late
  BY ZenonT(60), RunIs DEF RunState
<1>3. run' = [run EXCEPT ![r] = s]
  BY DEF Return
<1> HIDE DEF s
<1>4. InBounds(r, s)
  BY <1>2, RunIs DEF InBounds, InStep
<1> QED
  BY <1>1, <1>2, <1>3, <1>4 DEF Stride

------------------------------------------------------------------------------
(* What every step keeps *)

\* One execution changes, to the record s, and is begun before and after it or
\* neither; nothing that has been reached is taken back.
LEMMA RunChanges ==
  ASSUME TaskInv, NEW r \in Run, NEW s \in RunState, run' = [run EXCEPT ![r] = s]
  PROVE  /\ run' \in [Run -> RunState] /\ run'[r] = s
         /\ \A q \in Run \ {r} : run'[q] = run[q]
         /\ (s.pc \in {"unused", "dead"} <=> run[r].pc \in {"unused", "dead"}) => Begun' = Begun
  BY DEF TaskInv, TypeOK, Begun

LEMMA OthersAgree ==
  ASSUME TaskInv, NEW r \in Run, NEW s \in RunState, run' = [run EXCEPT ![r] = s],
         reached \subseteq reached', RunAgrees(r, s)'
  PROVE  \A q \in Run : RunAgrees(q, run[q])'
<1>1. \A q \in Run : RunAgrees(q, run[q])
  BY DEF TaskInv
<1> QED
  BY <1>1, RunChanges DEF RunAgrees, InBounds

LEMMA StrideKeeps ==
  ASSUME TaskInv, NEW r \in Run, NEW s, run' = [run EXCEPT ![r] = s], Stride(r, s), OnlyRunChanges
  PROVE  TaskInv'
<1>1. /\ s \in RunState /\ s.status = run[r].status
      /\ s.flag = run[r].flag /\ s.announced = run[r].announced /\ InBounds(r, s)
  BY DEF Stride
<1>2. \/ s.pc = run[r].pc /\ s.raised = run[r].raised
      \/ run[r].pc \in Working /\ s.pc \in Working \cup {"return", "conclude"}
      \/ run[r].pc = "return" /\ s.pc = "conclude"
  BY DEF Stride
<1>3. run' \in [Run -> RunState] /\ run'[r] = s /\ \A q \in Run \ {r} : run'[q] = run[q]
  BY <1>1, RunChanges
<1>4. Begun' = Begun
  <2>1. s.pc \in {"unused", "dead"} <=> run[r].pc \in {"unused", "dead"}
    BY <1>2 DEF Working
  <2> QED
    BY <1>1, <2>1, RunChanges
<1>5. TypeOK'
  BY <1>3 DEF OnlyRunChanges, TaskInv, TypeOK
<1>6. RuntimeIsBegun'
  BY <1>2, <1>3 DEF OnlyRunChanges, TaskInv, TypeOK, RuntimeIsBegun, Working
<1>7. \A q \in Run : RunAgrees(q, run[q])'
  <2>1. RunAgrees(r, s)'
    BY <1>1, <1>2, RunIs DEF OnlyRunChanges, RunAgrees, Resting, Working, InBounds
  <2> QED
    BY <1>1, <2>1, OthersAgree DEF OnlyRunChanges
<1>8. \A q \in Request : RequestAgrees(request[q])'
  BY <1>1, <1>3, <1>4 DEF OnlyRunChanges, TaskInv, RequestAgrees
<1>9. RowIsTruthful' /\ RunningIsDetectable'
  BY <1>1, <1>2, <1>3, <1>4 DEF OnlyRunChanges, TaskInv, RowIsTruthful, RunningIsDetectable, At, Working
<1> QED
  BY <1>5, <1>6, <1>7, <1>8, <1>9 DEF TaskInv

------------------------------------------------------------------------------
(* The other steps of the thread *)

LEMMA BeginKeeps ==
  ASSUME TaskInv, NEW r \in Run, Begin(r)
  PROVE  TaskInv'
<1>0. run[r].pc = "created" /\ run[r] \in RunState /\ RunAgrees(r, run[r])
  BY RunIs DEF Begin, At
<1>1. PICK s : s = [run[r] EXCEPT !.pc = "announce", !.status = "running"]
  OBVIOUS
<1>2. run' = [run EXCEPT ![r] = s]
  BY <1>1 DEF Begin
<1>3. /\ s \in RunState /\ s.pc = "announce" /\ s.status = "running"
      /\ s.flag = run[r].flag /\ s.announced = run[r].announced
      /\ s.late = run[r].late
  BY <1>0, <1>1 DEF RunState, TaskStatus
<1>4. runtime' = r /\ UNCHANGED <<row, created, request, reached, asked>>
  BY DEF Begin
<1>5. run' \in [Run -> RunState] /\ run'[r] = s /\ \A q \in Run \ {r} : run'[q] = run[q]
  BY <1>2, <1>3, RunChanges
<1>6. Begun' = Begun /\ r \in Begun
  BY <1>0, <1>2, <1>3, RunChanges DEF Begun
<1>7. TypeOK'
  BY <1>4, <1>5 DEF TaskInv, TypeOK
<1>8. RuntimeIsBegun'
  BY <1>3, <1>4, <1>5 DEF RuntimeIsBegun
<1>9. \A q \in Run : RunAgrees(q, run[q])'
  <2>1. InBounds(r, s)
    BY <1>0, <1>3 DEF RunAgrees, InBounds, InStep
  <2>2. RunAgrees(r, s)'
    BY <1>0, <1>3, <2>1 DEF RunAgrees, Resting, Terminal, InBounds
  <2> QED
    BY <1>2, <1>3, <1>4, <2>2, OthersAgree
<1>10. runtime # NoRun => runtime \in Begun /\ runtime # r
  BY <1>0 DEF TaskInv, TypeOK, RuntimeIsBegun, Begun
<1>11. \A q \in Request : RequestAgrees(request[q])'
  <2>1. \A q \in Request : RequestAgrees(request[q])
    BY DEF TaskInv
  <2>2. NoRun # r
    BY RunAssumption
  <2> QED
    BY <1>4, <1>6, <1>10, <2>1, <2>2 DEF RequestAgrees
<1>12. RowIsTruthful'
  BY <1>4 DEF TaskInv, RowIsTruthful
<1>13. RunningIsDetectable'
  <2>1. ~s.announced
    BY <1>0, <1>3 DEF RunAgrees
  <2> QED
    BY <1>3, <1>5, <1>6, <2>1 DEF RunningIsDetectable
<1> QED
  BY <1>7, <1>8, <1>9, <1>11, <1>12, <1>13 DEF TaskInv

LEMMA AnnounceKeeps ==
  ASSUME TaskInv, NEW r \in Run, Announce(r)
  PROVE  TaskInv'
<1>0. run[r].pc = "announce" /\ run[r] \in RunState /\ RunAgrees(r, run[r])
  BY RunIs DEF Announce, At
<1>t. PICK taken \in BOOLEAN :
        /\ run' = [run EXCEPT ![r] = [@ EXCEPT !.pc = "setup", !.announced = taken]]
        /\ row' = IF taken THEN "running" ELSE row
  BY DEF Announce
<1>1. PICK s : s = [run[r] EXCEPT !.pc = "setup", !.announced = taken]
  OBVIOUS
<1>2. run' = [run EXCEPT ![r] = s]
  BY <1>t, <1>1
<1>3. /\ s \in RunState /\ s.pc = "setup" /\ s.status = run[r].status
      /\ s.flag = run[r].flag /\ s.announced = taken
      /\ s.late = run[r].late
  BY <1>0, <1>1 DEF RunState
<1>4. row' \in {"running", row} /\ UNCHANGED <<runtime, created, request, reached, asked>>
  BY <1>t DEF Announce
<1>5. run' \in [Run -> RunState] /\ run'[r] = s /\ \A q \in Run \ {r} : run'[q] = run[q]
  BY <1>2, <1>3, RunChanges
<1>6. Begun' = Begun /\ r \in Begun
  BY <1>0, <1>2, <1>3, RunChanges DEF Begun
<1>7. TypeOK'
  BY <1>4, <1>5 DEF TaskInv, TypeOK, TaskStatus
<1>8. RuntimeIsBegun'
  BY <1>3, <1>4, <1>5 DEF TaskInv, TypeOK, RuntimeIsBegun
<1>9. \A q \in Run : RunAgrees(q, run[q])'
  <2>1. InBounds(r, s)
    BY <1>0, <1>3 DEF RunAgrees, InBounds, InStep
  <2>2. RunAgrees(r, s)'
    BY <1>0, <1>3, <1>4, <2>1 DEF RunAgrees, Resting, InBounds
  <2> QED
    BY <1>2, <1>3, <1>4, <2>2, OthersAgree
<1>10. \A q \in Request : RequestAgrees(request[q])'
  BY <1>3, <1>4, <1>5, <1>6 DEF TaskInv, RequestAgrees
<1>11. RowIsTruthful'
  BY <1>4 DEF TaskInv, RowIsTruthful, Terminal
<1>12. RunningIsDetectable'
  BY <1>t, <1>3, <1>5, <1>6 DEF RunningIsDetectable
<1> QED
  BY <1>7, <1>8, <1>9, <1>10, <1>11, <1>12 DEF TaskInv

\* Indexing the workspace, or answering at once: only the answered question
\* says something new.
LEMMA ExploreKeeps ==
  ASSUME TaskInv, NEW r \in Run, Explore(r)
  PROVE  TaskInv'
<1>0. run[r].pc = "explore" /\ run[r] \in RunState /\ RunAgrees(r, run[r])
  BY RunIs DEF Explore, At
<1>1. ASSUME NEW pc \in {"context", "return"}, Goto(r, pc)
      PROVE  \E s : /\ run' = [run EXCEPT ![r] = s] /\ Stride(r, s)
                    /\ s.pc = pc /\ s.raised = run[r].raised
  <2>1. PICK s : s = [run[r] EXCEPT !.pc = pc]
    OBVIOUS
  <2>2. run' = [run EXCEPT ![r] = s]
    BY <1>1, <2>1 DEF Goto
  <2>3. /\ s \in RunState /\ s.pc = pc /\ s.status = run[r].status
        /\ s.flag = run[r].flag /\ s.announced = run[r].announced
        /\ s.late = run[r].late /\ s.retries = run[r].retries /\ s.step = run[r].step
        /\ s.tools = run[r].tools /\ s.raised = run[r].raised
    BY <1>0, <2>1 DEF RunState
  <2>4. Stride(r, s)
    BY <1>0, <2>3, WithinStride DEF InStep, Working
  <2> QED
    BY <2>2, <2>3, <2>4
<1>2. CASE UNCHANGED <<row, reached>>
  <2>1. \E s : run' = [run EXCEPT ![r] = s] /\ Stride(r, s)
    BY <1>0, <1>1, RaisedStride DEF Explore, Working
  <2> QED
    BY <1>2, <2>1, StrideKeeps DEF Explore, OnlyRunChanges
<1>3. CASE Goto(r, "return") /\ row' = "success" /\ reached' = reached \cup {"success"}
  <2>1. PICK s : /\ run' = [run EXCEPT ![r] = s] /\ Stride(r, s)
                 /\ s.pc = "return" /\ s.raised = run[r].raised
    BY <1>1, <1>3
  <2>2. /\ s \in RunState /\ s.status = run[r].status
        /\ s.flag = run[r].flag /\ s.announced = run[r].announced /\ InBounds(r, s)
    BY <2>1 DEF Stride
  <2>3. UNCHANGED <<runtime, created, request, asked>>
    BY DEF Explore
  <2>4. run' \in [Run -> RunState] /\ run'[r] = s /\ \A q \in Run \ {r} : run'[q] = run[q]
    BY <2>1, <2>2, RunChanges
  <2>5. Begun' = Begun /\ r \in Begun
    BY <1>0, <2>1, <2>2, RunChanges DEF Begun
  <2>6. TypeOK'
    BY <1>3, <2>3, <2>4 DEF TaskInv, TypeOK, TaskStatus, Terminal
  <2>7. RuntimeIsBegun'
    BY <2>1, <2>3, <2>4 DEF TaskInv, TypeOK, RuntimeIsBegun
  <2>8. \A q \in Run : RunAgrees(q, run[q])'
    <3>1. RunAgrees(r, s)'
      BY <1>0, <1>3, <2>1, <2>2 DEF RunAgrees, Resting, InBounds
    <3> QED
      BY <1>3, <2>1, <2>2, <3>1, OthersAgree
  <2>9. \A q \in Request : RequestAgrees(request[q])'
    BY <1>3, <2>2, <2>3, <2>4, <2>5 DEF TaskInv, RequestAgrees
  <2>10. RowIsTruthful'
    BY <1>3 DEF RowIsTruthful
  <2>11. RunningIsDetectable'
    BY <1>3, <2>1, <2>4, <2>5 DEF RunningIsDetectable, At
  <2> QED
    BY <2>6, <2>7, <2>8, <2>9, <2>10, <2>11 DEF TaskInv
<1> QED
  BY <1>2, <1>3 DEF Explore

LEMMA ConcludeKeeps ==
  ASSUME TaskInv, NEW r \in Run, Conclude(r)
  PROVE  TaskInv'
<1>0. run[r].pc = "conclude" /\ run[r] \in RunState /\ RunAgrees(r, run[r])
  BY RunIs DEF Conclude, At
<1>1. PICK s : s = [run[r] EXCEPT !.pc = "publish", !.status = Outcome(r)]
  OBVIOUS
<1>2. run' = [run EXCEPT ![r] = s]
  BY <1>1 DEF Conclude
<1>a. /\ Outcome(r) \in Terminal
      /\ run[r].raised = "none" => Outcome(r) = "success"
      /\ run[r].raised = "cancelled" => Outcome(r) = "cancelled"
  BY <1>0 DEF Outcome, Terminal, RunState
<1>3. /\ s \in RunState /\ s.pc = "publish" /\ s.status = Outcome(r)
      /\ s.flag = run[r].flag /\ s.announced = run[r].announced
      /\ s.late = run[r].late /\ s.raised = run[r].raised
  BY <1>0, <1>1, <1>a DEF RunState, TaskStatus, Terminal
<1>4. reached' = reached \cup {Outcome(r)} /\ UNCHANGED <<runtime, row, created, request, asked>>
  BY DEF Conclude
<1>5. run' \in [Run -> RunState] /\ run'[r] = s /\ \A q \in Run \ {r} : run'[q] = run[q]
  BY <1>2, <1>3, RunChanges
<1>6. Begun' = Begun /\ r \in Begun
  BY <1>0, <1>2, <1>3, RunChanges DEF Begun
<1>b. s.status # "running"
  BY <1>3, <1>a DEF Terminal
<1>7. TypeOK'
  BY <1>a, <1>4, <1>5 DEF TaskInv, TypeOK
<1>8. RuntimeIsBegun'
  BY <1>3, <1>4, <1>5 DEF TaskInv, TypeOK, RuntimeIsBegun
<1>9. \A q \in Run : RunAgrees(q, run[q])'
  <2>1. InBounds(r, s)
    BY <1>0, <1>3 DEF RunAgrees, InBounds, InStep
  <2>2. RunAgrees(r, s)'
    BY <1>a, <1>b, <1>3, <1>4, <2>1 DEF RunAgrees, InBounds
  <2> QED
    BY <1>2, <1>3, <1>4, <2>2, OthersAgree
<1>10. \A q \in Request : RequestAgrees(request[q])'
  BY <1>b, <1>4, <1>5, <1>6 DEF TaskInv, RequestAgrees
<1>11. RowIsTruthful'
  BY <1>4 DEF TaskInv, RowIsTruthful
<1>12. RunningIsDetectable'
  BY <1>b, <1>4, <1>5, <1>6 DEF RunningIsDetectable
<1> QED
  BY <1>7, <1>8, <1>9, <1>10, <1>11, <1>12 DEF TaskInv

LEMMA PublishKeeps ==
  ASSUME TaskInv, NEW r \in Run, Publish(r)
  PROVE  TaskInv'
<1>0. run[r].pc = "publish" /\ run[r] \in RunState /\ RunAgrees(r, run[r])
  BY RunIs DEF Publish, At
<1>1. PICK s : s = [run[r] EXCEPT !.pc = "finally"]
  OBVIOUS
<1>2. run' = [run EXCEPT ![r] = s]
  BY <1>1 DEF Publish, Goto
<1>3. /\ s \in RunState /\ s.pc = "finally" /\ s.status = run[r].status
      /\ s.flag = run[r].flag /\ s.announced = run[r].announced
      /\ s.late = run[r].late
  BY <1>0, <1>1 DEF RunState
<1>4. row' \in {Mirrored(r), row} /\ UNCHANGED <<runtime, created, request, reached, asked>>
  BY DEF Publish
<1>a. row' = row \/ row' \in reached
  BY <1>0, <1>4 DEF Mirrored, Outcome, RunAgrees, RunState
<1>5. run' \in [Run -> RunState] /\ run'[r] = s /\ \A q \in Run \ {r} : run'[q] = run[q]
  BY <1>2, <1>3, RunChanges
<1>6. Begun' = Begun /\ r \in Begun
  BY <1>0, <1>2, <1>3, RunChanges DEF Begun
<1>b. s.status # "running"
  BY <1>0, <1>3 DEF RunAgrees, Resting
<1>7. TypeOK'
  BY <1>a, <1>4, <1>5 DEF TaskInv, TypeOK, TaskStatus, Terminal
<1>8. RuntimeIsBegun'
  BY <1>3, <1>4, <1>5 DEF TaskInv, TypeOK, RuntimeIsBegun
<1>9. \A q \in Run : RunAgrees(q, run[q])'
  <2>1. InBounds(r, s)
    BY <1>0, <1>3 DEF RunAgrees, InBounds, InStep
  <2>2. RunAgrees(r, s)'
    BY <1>0, <1>b, <1>3, <1>4, <2>1 DEF RunAgrees, InBounds
  <2> QED
    BY <1>2, <1>3, <1>4, <2>2, OthersAgree
<1>10. \A q \in Request : RequestAgrees(request[q])'
  BY <1>b, <1>4, <1>5, <1>6 DEF TaskInv, RequestAgrees
<1>11. RowIsTruthful'
  BY <1>a, <1>4 DEF TaskInv, RowIsTruthful
<1>12. RunningIsDetectable'
  BY <1>b, <1>4, <1>5, <1>6 DEF RunningIsDetectable
<1> QED
  BY <1>7, <1>8, <1>9, <1>10, <1>11, <1>12 DEF TaskInv

LEMMA FinallyKeeps ==
  ASSUME TaskInv, NEW r \in Run, Finally(r)
  PROVE  TaskInv'
<1>0. run[r].pc = "finally" /\ run[r] \in RunState /\ RunAgrees(r, run[r])
  BY RunIs DEF Finally, At
<1>1. PICK s : s = [run[r] EXCEPT !.pc = "ended", !.awaited = FALSE]
  OBVIOUS
<1>2. run' = [run EXCEPT ![r] = s]
  BY <1>1 DEF Finally
<1>3. /\ s \in RunState /\ s.pc = "ended" /\ s.status = run[r].status
      /\ s.flag = run[r].flag /\ s.announced = run[r].announced
      /\ s.late = run[r].late
  BY <1>0, <1>1 DEF RunState
<1>4. runtime' = r /\ r # NoRun /\ UNCHANGED <<row, created, request, reached, asked>>
  BY RunAssumption DEF Finally
<1>5. run' \in [Run -> RunState] /\ run'[r] = s /\ \A q \in Run \ {r} : run'[q] = run[q]
  BY <1>2, <1>3, RunChanges
<1>6. Begun' = Begun /\ r \in Begun
  BY <1>0, <1>2, <1>3, RunChanges DEF Begun
<1>a. s.status # "running"
  BY <1>0, <1>3 DEF RunAgrees, Resting
<1>7. TypeOK'
  BY <1>4, <1>5 DEF TaskInv, TypeOK
<1>8. RuntimeIsBegun'
  BY <1>3, <1>4, <1>5 DEF RuntimeIsBegun
<1>9. \A q \in Run : RunAgrees(q, run[q])'
  <2>1. InBounds(r, s)
    BY <1>0, <1>3 DEF RunAgrees, InBounds, InStep
  <2>2. RunAgrees(r, s)'
    BY <1>0, <1>a, <1>3, <1>4, <2>1 DEF RunAgrees, InBounds
  <2> QED
    BY <1>2, <1>3, <1>4, <2>2, OthersAgree
<1>10. \A q \in Request : RequestAgrees(request[q])'
  BY <1>a, <1>4, <1>5, <1>6 DEF TaskInv, RequestAgrees
<1>11. RowIsTruthful'
  BY <1>4 DEF TaskInv, RowIsTruthful
<1>12. RunningIsDetectable'
  BY <1>a, <1>4, <1>5, <1>6 DEF RunningIsDetectable
<1> QED
  BY <1>7, <1>8, <1>9, <1>10, <1>11, <1>12 DEF TaskInv

------------------------------------------------------------------------------
(* Starting an execution, the deadline, and the requests *)

\* A new execution is neither the runtime nor at work: with it there is no
\* only execution, or it has not begun to run.
LEMMA LaunchKeeps ==
  ASSUME TaskInv, NEW waits \in BOOLEAN, Launch(waits), UNCHANGED <<runtime, row, reached, asked>>,
         created' \in {"no"} \cup Ways, request' \in [Request -> RequestState],
         \A q \in Request : request'[q] \in {request[q], NoRequest}
  PROVE  TaskInv'
<1>0. PICK r \in Run :
        At(r, "unused") /\ run' = [run EXCEPT ![r] = [@ EXCEPT !.pc = "created", !.awaited = waits]]
  BY DEF Launch
<1>1. run[r].pc = "unused" /\ run[r] \in RunState /\ RunAgrees(r, run[r])
  BY <1>0, RunIs DEF At
<1>2. PICK s : s = [run[r] EXCEPT !.pc = "created", !.awaited = waits]
  OBVIOUS
<1>3. run' = [run EXCEPT ![r] = s]
  BY <1>0, <1>2
<1>4. /\ s \in RunState /\ s.pc = "created" /\ s.status = run[r].status
      /\ s.flag = run[r].flag /\ s.announced = run[r].announced
      /\ s.late = run[r].late
  BY <1>1, <1>2 DEF RunState
<1>5. run' \in [Run -> RunState] /\ run'[r] = s /\ \A q \in Run \ {r} : run'[q] = run[q]
  BY <1>3, <1>4, RunChanges
<1>6. s.status # "running"
  BY <1>1, <1>4 DEF RunAgrees, Resting
<1>7. r \in Begun' /\ Begun \subseteq Begun'
  BY <1>4, <1>5 DEF Begun
<1>8. runtime # NoRun => runtime \in Begun' /\ runtime # r
  <2>1. runtime # NoRun => runtime \in Begun /\ runtime # r
    BY <1>1 DEF TaskInv, TypeOK, RuntimeIsBegun, Begun
  <2> QED
    BY <2>1, <1>7
<1>9. TypeOK'
  BY <1>5 DEF TaskInv, TypeOK
<1>10. RuntimeIsBegun'
  BY <1>5, <1>8 DEF TaskInv, TypeOK, RuntimeIsBegun
<1>11. \A q \in Run : RunAgrees(q, run[q])'
  <2>1. InBounds(r, s)
    BY <1>1, <1>4 DEF RunAgrees, InBounds, InStep
  <2>2. RunAgrees(r, s)'
    BY <1>1, <1>4, <1>6, <2>1 DEF RunAgrees, InBounds
  <2> QED
    BY <1>3, <1>4, <2>2, OthersAgree
<1>12. \A q \in Request : RequestAgrees(request[q])'
  <2>1. ASSUME NEW a, RequestAgrees(a) PROVE RequestAgrees(a)'
    BY <1>7, <1>8, <2>1 DEF RequestAgrees
  <2>2. RequestAgrees(NoRequest)'
    BY NoRequestType DEF RequestAgrees
  <2>3. ASSUME NEW q \in Request PROVE RequestAgrees(request[q])'
    <3>1. CASE request'[q] = NoRequest
      BY <2>2, <3>1 DEF RequestAgrees
    <3>2. CASE request'[q] = request[q]
      <4>1. PICK a : a = request[q]
        OBVIOUS
      <4>2. RequestAgrees(a)'
        BY <2>1, <4>1 DEF TaskInv
      <4> QED
        BY <3>2, <4>1, <4>2 DEF RequestAgrees
    <3> QED
      BY <3>1, <3>2
  <2> QED
    BY <2>3
<1>13. RowIsTruthful'
  BY DEF TaskInv, RowIsTruthful
<1>14. RunningIsDetectable'
  BY <1>5, <1>6, <1>7 DEF RunningIsDetectable
<1> QED
  BY <1>9, <1>10, <1>11, <1>12, <1>13, <1>14 DEF TaskInv

LEMMA DeadlineKeeps ==
  ASSUME TaskInv, NEW r \in Run, Deadline(r)
  PROVE  TaskInv'
<1>0. run[r] \in RunState /\ RunAgrees(r, run[r])
  BY RunIs
<1>1. PICK s : s = [run[r] EXCEPT !.flag = TRUE, !.status = "failed", !.awaited = FALSE]
  OBVIOUS
<1>2. run' = [run EXCEPT ![r] = s]
  BY <1>1 DEF Deadline
<1>3. /\ s \in RunState /\ s.pc = run[r].pc /\ s.status = "failed" /\ s.flag
      /\ s.late = run[r].late /\ s.step = run[r].step /\ s.tools = run[r].tools
      /\ s.retries = run[r].retries /\ s.raised = run[r].raised /\ s.announced = run[r].announced
  BY <1>0, <1>1 DEF RunState, TaskStatus
<1>4. reached' = reached \cup {"failed"} /\ UNCHANGED <<runtime, row, created, request, asked>>
  BY DEF Deadline
<1>5. run' \in [Run -> RunState] /\ run'[r] = s /\ \A q \in Run \ {r} : run'[q] = run[q]
  BY <1>2, <1>3, RunChanges
<1>6. Begun' = Begun
  BY ZenonT(60), <1>2, <1>3, RunChanges
<1>7. TypeOK'
  BY <1>4, <1>5 DEF TaskInv, TypeOK, Terminal
<1>8. RuntimeIsBegun'
  BY <1>3, <1>4, <1>5 DEF TaskInv, TypeOK, RuntimeIsBegun
<1>9. \A q \in Run : RunAgrees(q, run[q])'
  <2>1. InBounds(r, s)
    BY <1>0, <1>3 DEF RunAgrees, InBounds
  <2>2. RunAgrees(r, s)'
    BY <1>0, <1>3, <1>4, <2>1 DEF RunAgrees, InBounds
  <2> QED
    BY <1>2, <1>3, <1>4, <2>2, OthersAgree
<1>10. \A q \in Request : RequestAgrees(request[q])'
  BY <1>3, <1>4, <1>5, <1>6 DEF TaskInv, RequestAgrees
<1>11. RowIsTruthful'
  BY <1>4 DEF TaskInv, RowIsTruthful
<1>12. RunningIsDetectable'
  BY <1>3, <1>4, <1>5, <1>6 DEF TaskInv, RunningIsDetectable, At
<1> QED
  BY <1>7, <1>8, <1>9, <1>10, <1>11, <1>12 DEF TaskInv

\* A request sets the flag or signals the process of an execution: what that
\* execution has done so far agrees as before.
LEMMA FlagKeepsRuns ==
  ASSUME TaskInv, NEW r \in Run, reached \subseteq reached',
         \/ run' = [run EXCEPT ![r].flag = TRUE]
         \/ run' = [run EXCEPT ![r].signal = "cancel"]
  PROVE  /\ run' \in [Run -> RunState]
         /\ \A q \in Run : RunAgrees(q, run[q])'
         /\ \A q \in Run : run'[q].pc = run[q].pc
<1>0. run[r] \in RunState /\ RunAgrees(r, run[r])
  BY RunIs
<1>1. PICK s : /\ run' = [run EXCEPT ![r] = s]
               /\ s \in {[run[r] EXCEPT !.flag = TRUE], [run[r] EXCEPT !.signal = "cancel"]}
  OBVIOUS
<1>2. /\ s \in RunState /\ s.pc = run[r].pc /\ s.status = run[r].status /\ (run[r].flag => s.flag)
      /\ s.late = run[r].late /\ s.step = run[r].step /\ s.tools = run[r].tools
      /\ s.retries = run[r].retries /\ s.raised = run[r].raised
      /\ s.announced = run[r].announced
      /\ ~s.flag => ~run[r].flag
  BY ZenonT(60), <1>0, <1>1 DEF RunState
<1>3. run' \in [Run -> RunState] /\ run'[r] = s /\ \A q \in Run \ {r} : run'[q] = run[q]
  BY <1>1, <1>2, RunChanges
<1>4. \A q \in Run : RunAgrees(q, run[q])'
  <2>1. InBounds(r, s)
    BY <1>0, <1>2 DEF RunAgrees, InBounds
  <2>2. RunAgrees(r, s)'
    BY <1>0, <1>2, <2>1 DEF RunAgrees, InBounds
  <2> QED
    BY <1>1, <1>2, <2>2, OthersAgree
<1> QED
  BY <1>2, <1>3, <1>4

\* One request goes on to a; with every other, what it is about to write was
\* reached.
LEMMA OneRequest ==
  ASSUME TaskInv, NEW q \in Request, NEW a \in RequestState, request' = [request EXCEPT ![q] = a]
  PROVE  /\ request' \in [Request -> RequestState] /\ request'[q] = a
         /\ \A p \in Request \ {q} : request'[p] = request[p]
  BY DEF TaskInv, TypeOK

\* The operator asks for an end: a request is about to signal, or to write, or done.
LEMMA AskKeeps ==
  ASSUME TaskInv, NEW q \in Request, NEW a \in RequestState, request' = [request EXCEPT ![q] = a],
         run' \in [Run -> RunState], \A r \in Run : RunAgrees(r, run[r])',
         \A r \in Run : run'[r].pc = run[r].pc,
         UNCHANGED <<runtime, row, created>>, asked', asked' \in BOOLEAN,
         reached \subseteq reached', reached' \subseteq Terminal,
         a.pc \in {"write", "mark"} => a.status \in reached',
         a.pc = "kill" => "cancelled" \in reached'
  PROVE  TaskInv'
<1>1. TypeOK'
  BY OneRequest DEF TaskInv, TypeOK
<1>2. RuntimeIsBegun'
  BY DEF TaskInv, TypeOK, RuntimeIsBegun
<1>3. \A p \in Request : RequestAgrees(request[p])'
  BY OneRequest DEF TaskInv, RequestAgrees
<1>4. RowIsTruthful' /\ RunningIsDetectable'
  BY DEF TaskInv, RowIsTruthful, RunningIsDetectable
<1> QED
  BY <1>1, <1>2, <1>3, <1>4 DEF TaskInv

\* A request begins that asks for nothing, and what it writes, if it does,
\* agrees with what it has read.
LEMMA ArrivalKeeps ==
  ASSUME TaskInv, NEW q \in Request, NEW a \in RequestState, request' = [request EXCEPT ![q] = a],
         UNCHANGED <<run, runtime, row, created, reached, asked>>, RequestAgrees(a)
  PROVE  TaskInv'
<1>1. TypeOK'
  BY OneRequest DEF TaskInv, TypeOK
<1>2. Begun' = Begun
  BY DEF Begun
<1>3. \A p \in Request : RequestAgrees(request[p])'
  BY <1>2, OneRequest DEF TaskInv, RequestAgrees
<1>4. RuntimeIsBegun' /\ RowIsTruthful' /\ RunningIsDetectable' /\ \A r \in Run : RunAgrees(r, run[r])'
  BY <1>2 DEF TaskInv, RuntimeIsBegun, RowIsTruthful, RunningIsDetectable, RunAgrees, InBounds, At
<1> QED
  BY <1>1, <1>3, <1>4 DEF TaskInv

LEMMA CancelFlagKeeps ==
  ASSUME TaskInv, NEW q \in Request, CancelFlag(q)
  PROVE  TaskInv'
<1>1. runtime \in Run
  BY DEF CancelFlag, TaskInv, TypeOK
<1>2. PICK w \in BOOLEAN : Await(q, "kill", runtime, w, "idle")
  BY DEF CancelFlag
<1>3. PICK a : a = [pc |-> "kill", on |-> runtime, writes |-> w, status |-> "idle"]
  OBVIOUS
<1>4. a \in RequestState /\ a.pc = "kill" /\ request' = [request EXCEPT ![q] = a]
  BY <1>1, <1>2, <1>3 DEF Await, RequestState, TaskStatus
<1>5. /\ run' = [run EXCEPT ![runtime].flag = TRUE] /\ asked' = TRUE
      /\ reached' = reached \cup {"cancelled"} /\ UNCHANGED <<runtime, row, created>>
  BY DEF CancelFlag
<1>6. reached' \subseteq Terminal
  BY <1>5 DEF TaskInv, TypeOK, Terminal
<1>7. /\ run' \in [Run -> RunState] /\ \A r \in Run : RunAgrees(r, run[r])'
      /\ \A r \in Run : run'[r].pc = run[r].pc
  BY <1>1, <1>5, FlagKeepsRuns
<1> QED
  BY <1>4, <1>5, <1>6, <1>7, AskKeeps

LEMMA CancelKillKeeps ==
  ASSUME TaskInv, NEW q \in Request, CancelKill(q)
  PROVE  TaskInv'
<1>0. request[q] \in RequestState /\ RequestAgrees(request[q]) /\ request[q].pc = "kill"
  BY DEF CancelKill, TaskInv, TypeOK
<1>1. asked = TRUE /\ "cancelled" \in reached /\ reached \subseteq Terminal
  BY <1>0 DEF RequestAgrees, TaskInv, TypeOK
<1>2. UNCHANGED <<runtime, row, created, reached, asked>>
  BY DEF CancelKill
<1>3. PICK a : /\ a \in {[pc |-> "write", on |-> NoRun, writes |-> TRUE, status |-> "cancelled"], NoRequest}
               /\ request' = [request EXCEPT ![q] = a]
  BY DEF CancelKill, Await, Respond
<1>4. /\ a \in RequestState /\ a.pc \in {"write", "idle"}
      /\ a.pc = "write" => a.status = "cancelled"
  <2>1. CASE a = NoRequest
    BY <2>1, NoRequestType
  <2>2. CASE a = [pc |-> "write", on |-> NoRun, writes |-> TRUE, status |-> "cancelled"]
    BY <2>2 DEF RequestState, TaskStatus
  <2> QED
    BY <1>3, <2>1, <2>2
<1>5. /\ run' \in [Run -> RunState] /\ \A r \in Run : RunAgrees(r, run[r])'
      /\ \A r \in Run : run'[r].pc = run[r].pc
  <2>1. CASE UNCHANGED run
    BY <1>2, <2>1 DEF TaskInv, TypeOK, RunAgrees, InBounds
  <2>2. CASE run' # run
    <3>1. PICK r : /\ r = request[q].on /\ run[r].registered
                   /\ run' = [run EXCEPT ![r].signal = "cancel"]
      BY <2>2 DEF CancelKill
    <3>2. r \in Run
      <4>1. CASE r \in Run
        BY <4>1
      <4>2. CASE r \notin Run
        <5>1. run' = run
          BY <3>1, <4>2 DEF TaskInv, TypeOK
        <5> QED
          BY <2>2, <5>1
      <4> QED
        BY <4>1, <4>2
    <3> QED
      BY <1>2, <3>1, <3>2, FlagKeepsRuns
  <2> QED
    BY <2>1, <2>2
<1> QED
  BY <1>1, <1>2, <1>3, <1>4, <1>5, AskKeeps

\* A cancel or a mark-failed of a task without a runtime is about to write.
LEMMA AskUnknownKeeps ==
  ASSUME TaskInv, NEW q \in Request, CancelUnknown(q) \/ MarkFailed(q)
  PROVE  TaskInv'
<1>1. PICK pc \in {"write", "mark"}, status \in {"cancelled", "failed"} :
        /\ Await(q, pc, NoRun, TRUE, status)
        /\ reached' = reached \cup {status}
  BY DEF CancelUnknown, MarkFailed
<1>2. asked' = TRUE /\ UNCHANGED <<run, runtime, row, created>>
  BY DEF CancelUnknown, MarkFailed
<1>3. PICK a : a = [pc |-> pc, on |-> NoRun, writes |-> TRUE, status |-> status]
  OBVIOUS
<1>4. a \in RequestState /\ a.pc = pc /\ a.status = status /\ request' = [request EXCEPT ![q] = a]
  BY <1>1, <1>3 DEF Await, RequestState, TaskStatus
<1>5. reached' \subseteq Terminal
  BY <1>1 DEF TaskInv, TypeOK, Terminal
<1>6. run' \in [Run -> RunState] /\ \A r \in Run : RunAgrees(r, run[r])'
  BY <1>1, <1>2 DEF TaskInv, TypeOK, RunAgrees, InBounds
<1> QED
  BY <1>1, <1>2, <1>4, <1>5, <1>6, AskKeeps

LEMMA ReadKeeps ==
  ASSUME TaskInv, NEW q \in Request, SyncRead(q) \/ Resume(q)
  PROVE  TaskInv'
<1>1. CASE SyncRead(q)
  <2>1. runtime \in Run /\ runtime \in Begun /\ run[runtime] \in RunState /\ RunAgrees(runtime, run[runtime])
    BY <1>1, RunIs DEF SyncRead, TaskInv, TypeOK, RuntimeIsBegun, Begun
  <2>2. PICK a : a = [pc |-> "write", on |-> NoRun, writes |-> TRUE, status |-> run[runtime].status]
    OBVIOUS
  <2>3. a \in RequestState /\ a.pc = "write" /\ a.status = run[runtime].status
        /\ request' = [request EXCEPT ![q] = a]
    BY <1>1, <2>1, <2>2 DEF SyncRead, Await, RequestState, RunState
  <2>4. RequestAgrees(a)
    BY <1>1, <2>1, <2>3 DEF SyncRead, RequestAgrees, RunAgrees
  <2> QED
    BY <1>1, <2>3, <2>4, ArrivalKeeps DEF SyncRead
<1>2. CASE Resume(q)
  <2>1. PICK a : a = [pc |-> "resume", on |-> NoRun, writes |-> FALSE, status |-> "idle"]
    OBVIOUS
  <2>2. a \in RequestState /\ a.pc = "resume" /\ request' = [request EXCEPT ![q] = a]
    BY <1>2, <2>1 DEF Resume, Await, RequestState, TaskStatus
  <2>3. RequestAgrees(a)
    BY <2>2 DEF RequestAgrees
  <2> QED
    BY <1>2, <2>2, <2>3, ArrivalKeeps DEF Resume
<1> QED
  BY <1>1, <1>2

LEMMA WriteRowKeeps ==
  ASSUME TaskInv, NEW q \in Request, WriteRow(q)
  PROVE  TaskInv'
<1>1. /\ request[q] \in RequestState /\ RequestAgrees(request[q]) /\ request[q].pc \in {"write", "mark"}
      /\ row' \in {request[q].status, row} /\ request' = [request EXCEPT ![q] = NoRequest]
      /\ UNCHANGED <<run, runtime, created, reached, asked>>
  BY DEF WriteRow, Respond, TaskInv, TypeOK
<1>2. TypeOK'
  BY <1>1, NoRequestType, OneRequest DEF TaskInv, TypeOK, RequestState
<1>3. Begun' = Begun
  BY <1>1 DEF Begun
<1>4. \A p \in Request : RequestAgrees(request[p])'
  BY <1>1, <1>3, NoRequestType, OneRequest DEF TaskInv, RequestAgrees
<1>5. RuntimeIsBegun' /\ \A r \in Run : RunAgrees(r, run[r])'
  BY <1>1 DEF TaskInv, RuntimeIsBegun, RunAgrees, InBounds
<1>6. RowIsTruthful'
  BY <1>1 DEF TaskInv, RequestAgrees, RowIsTruthful
<1>7. RunningIsDetectable'
  BY <1>1, <1>3 DEF TaskInv, RequestAgrees, RunningIsDetectable, At
<1> QED
  BY <1>2, <1>4, <1>5, <1>6, <1>7 DEF TaskInv

LEMMA CrashKeeps ==
  ASSUME TaskInv, Crash
  PROVE  TaskInv'
<1>1. \A r \in Run : /\ run'[r] \in RunState /\ run'[r].pc \in {"unused", "dead"}
                     /\ run'[r].status = "idle" /\ run'[r].late = 0
                     /\ ~run'[r].announced
  BY UnusedType DEF Crash, RunState
<1>2. /\ run' \in [Run -> RunState] /\ runtime' = NoRun /\ asked' = FALSE
      /\ request' = [q \in Request |-> NoRequest] /\ UNCHANGED <<row, created, reached>>
  BY <1>1 DEF Crash
<1>3. TypeOK' /\ RuntimeIsBegun'
  BY <1>2, NoRequestType DEF TaskInv, TypeOK, RuntimeIsBegun
<1>4. \A r \in Run : RunAgrees(r, run[r])'
  BY <1>1 DEF RunAgrees, InBounds, InStep, Resting, Terminal, MaxRetries
<1>5. \A q \in Request : RequestAgrees(request[q])'
  BY <1>2, NoRequestType DEF RequestAgrees
<1>6. RowIsTruthful' /\ RunningIsDetectable'
  BY <1>1, <1>2 DEF TaskInv, RowIsTruthful, RunningIsDetectable
<1> QED
  BY <1>3, <1>4, <1>5, <1>6 DEF TaskInv

------------------------------------------------------------------------------
(* The invariant, and the properties *)

LEMMA InitHolds == Init => TaskInv
<1> SUFFICES ASSUME Init PROVE TaskInv
  OBVIOUS
<1>1. TypeOK /\ RuntimeIsBegun
  BY UnusedType, NoRequestType DEF Init, TypeOK, TaskStatus, RuntimeIsBegun
<1>2. \A r \in Run : RunAgrees(r, run[r])
  BY UnusedType DEF Init, RunAgrees, InBounds, InStep, Resting, Terminal, MaxRetries
<1>3. \A q \in Request : RequestAgrees(request[q])
  BY NoRequestType DEF Init, RequestAgrees
<1>4. RowIsTruthful /\ RunningIsDetectable
  BY UnusedType DEF Init, RowIsTruthful, RunningIsDetectable, Terminal
<1> QED
  BY <1>1, <1>2, <1>3, <1>4 DEF TaskInv

LEMMA ThreadKeeps ==
  ASSUME TaskInv, NEW r \in Run, ThreadStep(r) \/ ProcessExits(r)
  PROVE  TaskInv'
<1>1. CASE \/ Setup(r) \/ Context(r) \/ Step(r) \/ Attempt(r) \/ Spawn(r) \/ Register(r) \/ Wait(r)
           \/ Unregister(r) \/ Return(r) \/ ProcessExits(r)
  <2>1. \E s : run' = [run EXCEPT ![r] = s] /\ Stride(r, s)
    BY <1>1, SetupStride, StepStride, AttemptStride, SpawnStride, CommandStride, UnregisterStride,
       ReturnStride, ExitStride
  <2>2. OnlyRunChanges
    BY <1>1 DEF Setup, Context, Step, Attempt, Spawn, Register, Wait, Unregister, Return, ProcessExits
  <2> QED
    BY <2>1, <2>2, StrideKeeps
<1>2. CASE \/ Begin(r) \/ Announce(r) \/ Explore(r) \/ Conclude(r) \/ Publish(r) \/ Finally(r)
  BY <1>2, BeginKeeps, AnnounceKeeps, ExploreKeeps, ConcludeKeeps, PublishKeeps, FinallyKeeps
<1> QED
  BY <1>1, <1>2 DEF ThreadStep

LEMMA RequestKeeps ==
  ASSUME TaskInv, NEW q \in Request, RequestStep(q)
  PROVE  TaskInv'
<1>1. CASE ResumeStart(q)
  <2>1. /\ Launch(FALSE) /\ request' = [request EXCEPT ![q] = NoRequest]
        /\ UNCHANGED <<runtime, row, created, reached, asked>>
    BY <1>1 DEF ResumeStart, Respond
  <2>2. /\ request' \in [Request -> RequestState]
        /\ \A p \in Request : request'[p] \in {request[p], NoRequest}
    BY <2>1, NoRequestType, OneRequest
  <2>3. created' \in {"no"} \cup Ways
    BY <2>1 DEF TaskInv, TypeOK
  <2> QED
    BY <2>1, <2>2, <2>3, LaunchKeeps
<1> QED
  BY <1>1, CancelFlagKeeps, CancelKillKeeps, AskUnknownKeeps, ReadKeeps, WriteRowKeeps DEF RequestStep

LEMMA NextKeeps ==
  ASSUME TaskInv, [Next]_vars
  PROVE  TaskInv'
<1>1. CASE Create \/ Dispatch
  <2>1. /\ created' \in {"no"} \cup Ways /\ UNCHANGED <<runtime, row, request, reached, asked>>
        /\ UNCHANGED run \/ \E w \in BOOLEAN : Launch(w)
    BY <1>1 DEF Create, Dispatch, OnlyRunChanges, TaskInv, TypeOK
  <2>2. request' \in [Request -> RequestState] /\ \A q \in Request : request'[q] = request[q]
    BY <2>1 DEF TaskInv, TypeOK
  <2>3. CASE UNCHANGED run
    BY <2>1, <2>3 DEF TaskInv, TypeOK, RuntimeIsBegun, RunAgrees, InBounds, RequestAgrees,
       RowIsTruthful, RunningIsDetectable, Begun, At
  <2> QED
    BY <2>1, <2>2, <2>3, LaunchKeeps
<1>2. ASSUME NEW r \in Run, ThreadStep(r) \/ ProcessExits(r) \/ Deadline(r)
      PROVE  TaskInv'
  BY <1>2, ThreadKeeps, DeadlineKeeps
<1>3. ASSUME NEW q \in Request, RequestStep(q)
      PROVE  TaskInv'
  BY <1>3, RequestKeeps
<1>4. CASE UNCHANGED vars
  BY <1>4 DEF vars, TaskInv, TypeOK, RuntimeIsBegun, RunAgrees, InBounds, RequestAgrees, RowIsTruthful,
     RunningIsDetectable, Begun, At
<1> QED
  BY <1>1, <1>2, <1>3, <1>4, CrashKeeps DEF Next, Running

LEMMA InvariantHolds == Spec => []TaskInv
<1>1. TaskInv /\ [Next]_vars => TaskInv'
  BY NextKeeps
<1> QED
  BY <1>1, InitHolds, PTL DEF Spec

\* The state of an execution, of a request and of the row is always one of
\* those the model gives them, and the counts stay in their bounds.
THEOREM TaskTypeCorrect == Spec => []TypeOK
<1>1. TaskInv => TypeOK
  BY DEF TaskInv
<1> QED
  BY <1>1, InvariantHolds, PTL

\* The row names no end of the task that no execution, deadline or operator
\* gave it: stale reads of the git endpoints, late writes of cancel and
\* mark-failed, several executions and crashes included (agent.py _persist,
\* main.py update_task).
THEOREM RowNeverInvents == Spec => []RowIsTruthful
<1>1. TaskInv => RowIsTruthful
  BY DEF TaskInv
<1> QED
  BY <1>1, InvariantHolds, PTL

\* Once the row has taken the start of the only execution of the task, a crash
\* of the server at any moment finds it in the table as running, so recovery
\* offers it: no stale read of a git endpoint, no write of an earlier life and no
\* refused write takes that back (recovery.py detect_interrupted).
THEOREM WorkIsDetectable == Spec => []RunningIsDetectable
<1>1. TaskInv => RunningIsDetectable
  BY DEF TaskInv
<1> QED
  BY <1>1, InvariantHolds, PTL

\* However the plan, the retries and the tools go, an execution starts at most
\* one command after its flag was set, and without the check before each tool
\* at most one per attempt of the step it is in (agent.py _execute_plan_steps).
THEOREM LateCommandsAreFew == Spec => []LateCommandsBounded
<1>1. ASSUME TaskInv, NEW r \in Run
      PROVE  run[r].late <= IF r \in Streaming THEN 1 ELSE MaxRetries + 1
  BY <1>1, RunIs DEF InBounds
<1>2. TaskInv => LateCommandsBounded
  BY <1>1 DEF LateCommandsBounded
<1> QED
  BY <1>2, InvariantHolds, PTL
==============================================================================
