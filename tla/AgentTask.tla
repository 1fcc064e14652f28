------------------------------ MODULE AgentTask ------------------------------
(***************************************************************************)
(* One task through backend/agent.py and the handlers of main.py that act  *)
(* on it: the thread that runs Agent.run with its plan steps, retries and  *)
(* commands (terminal.run_command), the registry _RUNTIMES, the task's row *)
(* in the table tasks, cancel_task, and the recovery endpoints after a     *)
(* crash (recovery.py).                                                    *)
(*                                                                         *)
(* A run is one execution: a TaskRuntime and its thread.  A task may have  *)
(* several: resume after a crash starts one, so does a re-queued task.     *)
(* Handlers are coroutines: a request in progress stands where it awaits   *)
(* the database, and other requests and the runs go on meanwhile.          *)
(*                                                                         *)
(* The multi-agent path (_run_via_coordinator, off by default) and the     *)
(* workspace a run edits are not part of this module.                      *)
(*                                                                         *)
(* An operator XMutant is X with a plausible bug; no action uses it.       *)
(***************************************************************************)
EXTENDS Integers, FiniteSets

CONSTANTS
  Run,           \* bound on the executions of the task
  Request,       \* bound on the handlers' requests in progress at once
  NoRun,         \* get_runtime's None
  Steps,         \* how many steps the plan has
  MaxTools,      \* max_loops of the tool-selection loop (10 in the code)
  Streaming,     \* the executions whose provider is an AI provider (not LocalProvider)
  Ways           \* how the create handler may have the task run: by the scheduler's
                 \* worker ("queue"), in a thread of a server that stays up
                 \* ("server"), or in the handler's own time ("serverless")

ASSUME RunAssumption == IsFiniteSet(Run) /\ NoRun \notin Run
ASSUME BoundAssumption == Steps \in Nat /\ MaxTools \in Nat
ASSUME ModeAssumption ==
  Streaming \subseteq Run /\ Ways \subseteq {"queue", "server", "serverless"}

VARIABLES
  run,        \* the executions
  runtime,    \* _RUNTIMES[task]
  row,        \* the status column of the task's row
  created,    \* the way the create handler has chosen ("no" before it)
  request,    \* the requests in progress
  reached,    \* history: the statuses at which an execution or an operator has
              \* ended the task
  asked       \* history: has the operator asked this life of the server for a
              \* cancel or a mark-failed

vars == <<run, runtime, row, created, request, reached, asked>>

------------------------------------------------------------------------------
(* Data *)

TaskStatus == {"idle", "running", "success", "failed", "cancelled"}

Terminal == {"success", "failed", "cancelled"}

\* _execute_plan_steps: "retry up to 2 times for recoverable failures".
MaxRetries == 2

\* Where the thread is, the TaskRuntime's status, cancel flag, current_proc
\* (registered), the state of the last command's process and whether cancel
\* or a timeout has signalled it, the step and its counts, the exception on
\* its way to run(), whether the create handler waits for the run, and two
\* histories: whether the row took the execution's session_started, and how many
\* commands were started after the flag was set.
RunState ==
  [pc: {"unused", "created", "announce", "setup", "explore", "context", "step",
        "attempt", "spawn", "register", "wait", "unregister", "return", "conclude", "publish",
        "finally", "ended", "dead"},
   status: TaskStatus, flag: BOOLEAN, registered: BOOLEAN,
   proc: {"none", "alive", "ok", "failed"}, signal: {"none", "cancel", "timeout"},
   step: 0..Steps, retries: 0..MaxRetries, tools: 0..MaxTools,
   raised: {"none", "cancelled", "error"}, awaited: BOOLEAN, announced: BOOLEAN, late: Nat]

Unused ==
  [pc |-> "unused", status |-> "idle", flag |-> FALSE, registered |-> FALSE,
   proc |-> "none", signal |-> "none", step |-> 0, retries |-> 0, tools |-> 0,
   raised |-> "none", awaited |-> FALSE, announced |-> FALSE, late |-> 0]

RequestState ==
  [pc: {"idle", "kill", "write", "mark", "resume"},
   on: Run \cup {NoRun}, writes: BOOLEAN, status: TaskStatus]

NoRequest == [pc |-> "idle", on |-> NoRun, writes |-> FALSE, status |-> "idle"]

TypeOK ==
  /\ run \in [Run -> RunState]
  /\ runtime \in Run \cup {NoRun}
  /\ row \in TaskStatus
  /\ created \in {"no"} \cup Ways
  /\ request \in [Request -> RequestState]
  /\ reached \subseteq Terminal
  /\ asked \in BOOLEAN

At(r, pc) == run[r].pc = pc

\* A thread that has registered its runtime and not returned from run().
Live(r) == run[r].pc \notin {"unused", "created", "ended", "dead"}

Goto(r, pc) == run' = [run EXCEPT ![r].pc = pc]

OnlyRunChanges == UNCHANGED <<runtime, row, created, request, reached, asked>>

\* start_task, or the submission to a thread the handler waits for: a new
\* TaskRuntime and its thread.
Launch(waits) ==
  \E r \in Run :
    /\ At(r, "unused")
    /\ run' = [run EXCEPT ![r] = [@ EXCEPT !.pc = "created", !.awaited = waits]]

------------------------------------------------------------------------------
(* Agent.run: before and after the loop *)

Begin(r) ==
  /\ At(r, "created")
  /\ run' = [run EXCEPT ![r] = [@ EXCEPT !.pc = "announce", !.status = "running"]]
  /\ runtime' = r
  /\ UNCHANGED <<row, created, request, reached, asked>>

\* status_map without session_started.
AnnounceMutant(r) ==
  /\ At(r, "announce")
  /\ run' = [run EXCEPT ![r] = [@ EXCEPT !.pc = "setup", !.announced = TRUE]]
  /\ UNCHANGED <<runtime, row, created, request, reached, asked>>

\* session_started: _persist mirrors it into the row.  When it cannot write,
\* the bus logs it and the execution goes on.
Announce(r) ==
  /\ At(r, "announce")
  /\ \E taken \in BOOLEAN :
       /\ run' = [run EXCEPT ![r] = [@ EXCEPT !.pc = "setup", !.announced = taken]]
       /\ row' = IF taken THEN "running" ELSE row
  /\ UNCHANGED <<runtime, created, request, reached, asked>>

\* _loop has returned: run() looks at the flag, then sets the status.
Return(r) ==
  /\ At(r, "return")
  /\ run' = [run EXCEPT ![r] =
               [@ EXCEPT !.pc = "conclude",
                         !.raised = IF run[r].flag THEN "cancelled" ELSE "none"]]
  /\ OnlyRunChanges

Outcome(r) == CASE run[r].raised = "none" -> "success"
                [] run[r].raised = "cancelled" -> "cancelled"
                [] run[r].raised = "error" -> "failed"

Conclude(r) ==
  /\ At(r, "conclude")
  /\ run' = [run EXCEPT ![r] = [@ EXCEPT !.pc = "publish", !.status = Outcome(r)]]
  /\ reached' = reached \cup {Outcome(r)}
  /\ UNCHANGED <<runtime, row, created, request, asked>>

MirroredMutant(r) ==
  IF run[r].raised = "cancelled" THEN "cancelled" ELSE "success"

\* The row after the last event, if it takes it: status_map has completed and
\* cancelled, but not error.
Mirrored(r) == IF run[r].raised = "error" THEN row ELSE Outcome(r)

Publish(r) ==
  /\ At(r, "publish")
  /\ Goto(r, "finally")
  /\ row' \in {Mirrored(r), row}
  /\ UNCHANGED <<runtime, created, request, reached, asked>>

\* run()'s finally clause registers its runtime again.
Finally(r) ==
  /\ At(r, "finally")
  /\ run' = [run EXCEPT ![r] = [@ EXCEPT !.pc = "ended", !.awaited = FALSE]]
  /\ runtime' = r
  /\ UNCHANGED <<row, created, request, reached, asked>>

------------------------------------------------------------------------------
(* _loop and _execute_plan_steps.  An operator that ends in a pc is a part of *)
(* an action: the record of the run after it.                                 *)

Raised(r, e) == [run[r] EXCEPT !.pc = "conclude", !.raised = e]

StepDone(r) == [run[r] EXCEPT !.pc = "step", !.step = @ + 1,
                              !.retries = 0, !.tools = 0]

AttemptFailedMutant(r, e) ==
  IF run[r].retries < MaxRetries
  THEN [run[r] EXCEPT !.pc = "attempt", !.tools = 0]
  ELSE Raised(r, e)

\* "except Exception" of the attempt catches everything, _Cancelled too.
AttemptFailed(r, e) ==
  IF run[r].retries < MaxRetries
  THEN [run[r] EXCEPT !.pc = "attempt", !.retries = @ + 1, !.tools = 0]
  ELSE Raised(r, e)

\* A check of the flag raises; without it the execution goes on to pc.
Checked(r, pc) == IF run[r].flag THEN Raised(r, "cancelled") ELSE [run[r] EXCEPT !.pc = pc]

\* Workspace and repository, then the first look at the flag.
Setup(r) ==
  /\ At(r, "setup")
  /\ \E s \in {Raised(r, "error"), Checked(r, "explore")} : run' = [run EXCEPT ![r] = s]
  /\ OnlyRunChanges

\* Index the workspace; a question about GitHub is answered at once, and its
\* event completed, which is not the execution's last, is mirrored into the row.
Explore(r) ==
  /\ At(r, "explore")
  /\ \/ Goto(r, "context") /\ UNCHANGED <<row, reached>>
     \/ /\ Goto(r, "return")
        /\ \/ row' = "success" /\ reached' = reached \cup {"success"}
           \/ UNCHANGED <<row, reached>>
     \/ run' = [run EXCEPT ![r] = Raised(r, "error")] /\ UNCHANGED <<row, reached>>
  /\ UNCHANGED <<runtime, created, request, asked>>

\* Read the relevant files, look at the flag, and plan.
Context(r) ==
  /\ At(r, "context")
  /\ \E s \in {Raised(r, "error"), Checked(r, "step")} : run' = [run EXCEPT ![r] = s]
  /\ OnlyRunChanges

\* The head of the for loop over the plan's steps.
Step(r) ==
  /\ At(r, "step")
  /\ run' = [run EXCEPT ![r] =
               IF @.step = Steps THEN [@ EXCEPT !.pc = "return"]
               ELSE IF @.flag THEN Raised(r, "cancelled")
               ELSE [@ EXCEPT !.pc = "attempt"]]
  /\ OnlyRunChanges

SeesFlagMutant(r) == FALSE

\* The tool-selection loop checks the flag before every tool; the
\* LocalProvider's single tool is not preceded by a check.
SeesFlag(r) == r \in Streaming /\ run[r].tools < MaxTools /\ run[r].flag

\* A tool fails, is refused as unsafe, runs a command, or returns.
ToolOutcomes(r) ==
  {AttemptFailed(r, "error"), Raised(r, "error"), [run[r] EXCEPT !.pc = "spawn"],
   IF r \in Streaming THEN [run[r] EXCEPT !.tools = @ + 1] ELSE StepDone(r)}

\* The next tool, or the end of the step: decided by the AI, or taken to be
\* finish_step when it has failed twice to name a tool.
Choices(r) ==
  {StepDone(r)} \cup IF run[r].tools = MaxTools THEN {} ELSE ToolOutcomes(r)

Attempt(r) ==
  /\ At(r, "attempt")
  /\ \E s \in IF SeesFlag(r) THEN {AttemptFailed(r, "cancelled")} ELSE Choices(r) :
       run' = [run EXCEPT ![r] = s]
  /\ OnlyRunChanges

------------------------------------------------------------------------------
(* run_command: start the process, register it, wait for it, unregister it *)

\* Popen may fail: the command then reports 127.
Spawn(r) ==
  /\ At(r, "spawn")
  /\ \E s \in {[run[r] EXCEPT !.pc = "register", !.proc = "alive", !.signal = "none",
                             !.late = IF run[r].flag THEN @ + 1 ELSE @],
               [run[r] EXCEPT !.pc = "unregister", !.proc = "failed"]} :
       run' = [run EXCEPT ![r] = s]
  /\ OnlyRunChanges

Register(r) ==
  /\ At(r, "register")
  /\ run' = [run EXCEPT ![r] = [@ EXCEPT !.pc = "wait", !.registered = TRUE]]
  /\ OnlyRunChanges

\* The process ends; one that was signalled does not succeed.
ProcessExits(r) ==
  /\ run[r].proc = "alive" /\ ~At(r, "dead")
  /\ \E p \in IF run[r].signal = "none" THEN {"ok", "failed"} ELSE {"failed"} :
       run' = [run EXCEPT ![r].proc = p]
  /\ OnlyRunChanges

\* The polling loop sees the exit, or runs into the command's timeout: it
\* signals the process and goes on, whether the process obeys or not.
Wait(r) ==
  /\ At(r, "wait")
  /\ \/ run[r].proc # "alive" /\ Goto(r, "unregister")
     \/ /\ run[r].proc = "alive"
        /\ run' = [run EXCEPT ![r] =
                     [@ EXCEPT !.pc = "unregister", !.signal = "timeout"]]
  /\ OnlyRunChanges

\* The finally clause; then the result goes to the AI, or decides the attempt.
Unregister(r) ==
  /\ At(r, "unregister")
  /\ LET s == IF r \in Streaming THEN [run[r] EXCEPT !.pc = "attempt", !.tools = @ + 1]
              ELSE IF run[r].proc = "ok" THEN StepDone(r)
              ELSE AttemptFailed(r, "error")
     IN  run' = [run EXCEPT ![r] = [s EXCEPT !.registered = FALSE]]
  /\ OnlyRunChanges

------------------------------------------------------------------------------
(* The handlers *)

\* api_create_task writes the row, and leaves the task to the scheduler or
\* starts it.
Create ==
  /\ created = "no"
  /\ created' \in Ways
  /\ IF created' = "queue" THEN UNCHANGED run ELSE Launch(created' = "serverless")
  /\ UNCHANGED <<runtime, row, request, reached, asked>>

\* The worker calls start_task, for a task the operator has re-queued again.
Dispatch ==
  /\ created = "queue"
  /\ Launch(FALSE)
  /\ OnlyRunChanges

\* The serverless create handler gives up waiting; the thread goes on.
Deadline(r) ==
  /\ run[r].awaited
  /\ run' = [run EXCEPT ![r] =
               [@ EXCEPT !.flag = TRUE, !.status = "failed", !.awaited = FALSE]]
  /\ reached' = reached \cup {"failed"}
  /\ UNCHANGED <<runtime, row, created, request, asked>>

\* A handler waiting for a run does not yield the event loop.
LoopFree == \A r \in Run : ~run[r].awaited

\* A handler of the task that may begin.
Arrives(q) ==
  /\ LoopFree
  /\ created # "no"
  /\ request[q] = NoRequest

Await(q, pc, r, w, s) ==
  request' = [request EXCEPT ![q] = [pc |-> pc, on |-> r, writes |-> w, status |-> s]]

Respond(q) == request' = [request EXCEPT ![q] = NoRequest]

\* cancel_task, called by the cancel endpoint (which then writes the row) and
\* by the queue's (which does not): set the flag ...
CancelFlag(q) ==
  /\ Arrives(q)
  /\ runtime # NoRun
  /\ run' = [run EXCEPT ![runtime].flag = TRUE]
  /\ \E w \in BOOLEAN : Await(q, "kill", runtime, w, "idle")
  /\ asked' = TRUE
  /\ reached' = reached \cup {"cancelled"}
  /\ UNCHANGED <<runtime, row, created>>

\* ... and signal the registered process.
CancelKill(q) ==
  /\ request[q].pc = "kill"
  /\ LET r == request[q].on
     IN  IF run[r].registered /\ run[r].proc = "alive"
         THEN run' = [run EXCEPT ![r].signal = "cancel"]
         ELSE UNCHANGED run
  /\ IF request[q].writes THEN Await(q, "write", NoRun, TRUE, "cancelled")
                          ELSE Respond(q)
  /\ UNCHANGED <<runtime, row, created, reached, asked>>

\* The WebSocket's cancel message writes the row without a runtime too.
CancelUnknown(q) ==
  /\ Arrives(q)
  /\ runtime = NoRun
  /\ Await(q, "write", NoRun, TRUE, "cancelled")
  /\ asked' = TRUE
  /\ reached' = reached \cup {"cancelled"}
  /\ UNCHANGED <<run, runtime, row, created>>

\* A git endpoint reads the runtime's status, to write it with the branch.
SyncRead(q) ==
  /\ Arrives(q)
  /\ runtime # NoRun
  /\ Await(q, "write", NoRun, TRUE, run[runtime].status)
  /\ UNCHANGED <<run, runtime, row, created, reached, asked>>

\* Recovery's mark-failed: 409 if there is a runtime, else read the row ...
MarkFailed(q) ==
  /\ Arrives(q)
  /\ runtime = NoRun
  /\ Await(q, "mark", NoRun, TRUE, "failed")
  /\ asked' = TRUE
  /\ reached' = reached \cup {"failed"}
  /\ UNCHANGED <<run, runtime, row, created>>

\* ... and, as the other requests, update the status column, or fail to.
WriteRow(q) ==
  /\ LoopFree
  /\ request[q].pc \in {"write", "mark"}
  /\ row' \in {request[q].status, row}
  /\ Respond(q)
  /\ UNCHANGED <<run, runtime, created, reached, asked>>

\* Recovery's resume: 409 if there is a runtime, else read the row ...
Resume(q) ==
  /\ Arrives(q)
  /\ runtime = NoRun
  /\ Await(q, "resume", NoRun, FALSE, "idle")
  /\ UNCHANGED <<run, runtime, row, created, reached, asked>>

\* ... and start a new run, whatever the row says.
ResumeStart(q) ==
  /\ LoopFree
  /\ request[q].pc = "resume"
  /\ Launch(FALSE)
  /\ Respond(q)
  /\ UNCHANGED <<runtime, row, created, reached, asked>>

\* The server dies and comes back: only the row is left.
Crash ==
  /\ run' = [r \in Run |-> IF At(r, "unused") THEN Unused
                           ELSE [Unused EXCEPT !.pc = "dead"]]
  /\ runtime' = NoRun
  /\ request' = [q \in Request |-> NoRequest]
  /\ asked' = FALSE
  /\ UNCHANGED <<row, created, reached>>

------------------------------------------------------------------------------

Init ==
  /\ run = [r \in Run |-> Unused]
  /\ runtime = NoRun
  /\ row = "idle"
  /\ created = "no"
  /\ request = [q \in Request |-> NoRequest]
  /\ reached = {}
  /\ asked = FALSE

ThreadStep(r) ==
  \/ Begin(r) \/ Announce(r) \/ Setup(r) \/ Explore(r) \/ Context(r) \/ Step(r) \/ Attempt(r)
  \/ Spawn(r) \/ Register(r) \/ Wait(r) \/ Unregister(r)
  \/ Return(r) \/ Conclude(r) \/ Publish(r) \/ Finally(r)

RequestStep(q) ==
  \/ CancelFlag(q) \/ CancelKill(q) \/ CancelUnknown(q) \/ SyncRead(q)
  \/ MarkFailed(q) \/ WriteRow(q) \/ Resume(q) \/ ResumeStart(q)

Running ==
  \/ Create \/ Dispatch
  \/ \E r \in Run : ThreadStep(r) \/ ProcessExits(r) \/ Deadline(r)
  \/ \E q \in Request : RequestStep(q)

Next == Running \/ Crash

Spec == Init /\ [][Next]_vars

------------------------------------------------------------------------------
(* Properties *)

\* The row never says more than happened: whichever handler, execution or
\* stale read wrote it last, the end it names is one that an execution or an
\* operator's request gave the task, or an answered question announced.
RowIsTruthful == row \in Terminal => row \in reached

\* What a cancel (or the deadline) cannot stop is bounded: after the flag is
\* set an execution starts at most the command it had decided on, or, without
\* the check before each tool, the remaining attempts of its step.
LateCommandsBounded ==
  \A r \in Run : run[r].late <= IF r \in Streaming THEN 1 ELSE MaxRetries + 1

\* The executions of this life of the server.
Begun == {r \in Run : run[r].pc \notin {"unused", "dead"}}

\* If the server died now, detect_interrupted would find the task: its only
\* execution is at work, the row took its start, and the operator asked for no
\* other end.  Nothing since has written over it, neither what a git endpoint had
\* read before nor the end of an execution of an earlier life.  Only an execution
\* that has already answered, and has nothing left to do, is not found.
RunningIsDetectable ==
  \A r \in Run :
    /\ Begun = {r} /\ ~asked
    /\ run[r].status = "running" /\ run[r].announced
    => \/ row = "running"
       \/ row = "success" /\ run[r].pc \in {"return", "conclude"}

\* A serverless platform freezes the threads that no request waits for.
Frozen(r) == created = "serverless" /\ ~run[r].awaited

\* Every execution ends, through retries, tools, commands that never exit and
\* cancels, and so does a cancelled one; on a serverless platform, while its
\* request waits for it.
RunsEnd == \A r \in Run : Live(r) ~> ~Live(r) \/ Frozen(r)

\* What detect_interrupted's docstring says: the tasks that were running when
\* the process died.  One whose start the database refused is not among them.
RunningIsFound ==
  \A r \in Run : Begun = {r} /\ ~asked /\ run[r].pc \in {"step", "attempt"} => row = "running"

\* What agent.py's header says of the flag and the kill: a cancel actually
\* stops work.  No command is started after the flag was set but the one that
\* was about to start.
CancelStopsWork == \A r \in Run : run[r].late <= 1

\* What models.py says of cancelled: the user cancelled the running task.  A
\* finished task does not become cancelled.
CancelledWasRunning ==
  [][row = "success" => row' # "cancelled"]_vars

\* What cancel_task's docstring says: it sets the flag of the running task.
CancelReachesRunning ==
  [][\A q \in Request :
       CancelFlag(q) => \A r \in Run : Live(r) => run'[r].flag]_vars

\* What recovery.py's header says of an interrupted task: the process died and
\* the task never reached a terminal status.
InterruptedWasRunning ==
  [][Crash /\ row = "running" => \E r \in Run : Live(r) \/ At(r, "created")]_vars

\* What recovery.py says of terminal statuses: recovery should not touch them.
RecoverySparesTerminal ==
  [][\A q \in Request :
       request[q].pc = "mark" /\ WriteRow(q) => row \notin Terminal]_vars

\* What the resume endpoint's 409 says: a task with a live runtime is not
\* started again.
OneExecution == Cardinality({r \in Run : Live(r)}) <= 1
==============================================================================
