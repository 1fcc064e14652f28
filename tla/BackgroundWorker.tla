-------------------------- MODULE BackgroundWorker ---------------------------
(***************************************************************************)
(* backend/worker.py on top of the scheduler: the polling loop of each     *)
(* BackgroundWorker, the runner thread it starts for every task it pops,   *)
(* and the functions that replace and stop the worker.                     *)
(*                                                                         *)
(* start_fn is a parameter of the worker.  One that blocks returns when    *)
(* the task's execution ends (the contract the worker is written for).     *)
(* One that does not is agent.start_task, what main.py passes: it starts   *)
(* an agent thread and returns at once.                                    *)
(***************************************************************************)
EXTENDS TaskScheduler, FiniteSetsExt

CONSTANTS
  MaxConcurrency,  \* WORKER_MAX_CONCURRENCY
  Workers,         \* bound on the BackgroundWorkers init_worker makes in turn
  Runner,          \* bound on the runner threads alive at once
  Blocking         \* does start_fn block: the answers to allow, call by call

ASSUME WorkerAssumption ==
  MaxConcurrency \in Nat \ {0} /\ Workers \in Nat /\ Blocking \subseteq BOOLEAN

VARIABLES
  current,    \* the worker _WORKER refers to, 0 if none
  made,       \* how many workers have been made
  stopEvent,  \* _stop_event of each worker
  loop,       \* where each worker's loop thread is
  taken,      \* the item each loop has popped
  active,     \* _active of each worker
  runner,     \* the runner threads
  agents,     \* agent executions alive, of each task
  requeued    \* history: how often the operator re-queued a task already
              \* handed out and not yet reported on

workerVars ==
  <<current, made, stopEvent, loop, taken, active, runner, agents, requeued>>

allVars == <<vars, workerVars>>

Worker == 1..Workers

FreeRunner == [pc |-> "free", task |-> NoTask, worker |-> 0]

WorkerInit ==
  /\ Init
  /\ current = 0 /\ made = 0
  /\ stopEvent = [w \in Worker |-> FALSE]
  /\ loop = [w \in Worker |-> "unborn"]
  /\ taken = [w \in Worker |-> NoTask]
  /\ active = [w \in Worker |-> 0]
  /\ runner = [r \in Runner |-> FreeRunner]
  /\ agents = [t \in Task |-> 0]
  /\ requeued = [t \in Task |-> 0]

------------------------------------------------------------------------------
(* init_worker and stop_worker.  stop joins the loop thread with a timeout:  *)
(* a loop still busy then goes on to its next look at the stop event.        *)

Stopped == IF current = 0 THEN stopEvent
           ELSE [stopEvent EXCEPT ![current] = TRUE]

InitWorker ==
  /\ made < Workers
  /\ stopEvent' = Stopped
  /\ made' = made + 1
  /\ current' = made + 1
  /\ loop' = [loop EXCEPT ![made + 1] = "check"]
  /\ UNCHANGED <<vars, taken, active, runner, agents, requeued>>

StopWorker ==
  /\ current # 0
  /\ stopEvent' = Stopped
  /\ current' = 0
  /\ UNCHANGED <<vars, made, loop, taken, active, runner, agents, requeued>>

------------------------------------------------------------------------------
(* _loop and _try_dispatch.  A loop that finds the limit reached, or nothing *)
(* to pop, waits for poll_interval and looks again.                          *)

HasRoomMutant(w) == active[w] <= MaxConcurrency

HasRoomStrictMutant(w) == active[w] < MaxConcurrency - 1

HasRoom(w) == active[w] < MaxConcurrency

LoopCheck(w) ==
  /\ loop[w] = "check"
  /\ stopEvent[w] \/ HasRoom(w)
  /\ loop' = [loop EXCEPT ![w] = IF stopEvent[w] THEN "ended" ELSE "pop"]
  /\ UNCHANGED <<vars, current, made, stopEvent, taken, active, runner, agents,
                 requeued>>

AfterPopMutant(w, t) ==
  IF t = NoTask \/ stopEvent[w] THEN "check" ELSE "spawn"

\* A task popped is started even if the worker has been stopped meanwhile.
AfterPop(w, t) == IF t = NoTask THEN "check" ELSE "spawn"

LoopPop(w) ==
  /\ loop[w] = "pop"
  /\ PopNext
  /\ taken' = [taken EXCEPT ![w] = handed']
  /\ loop' = [loop EXCEPT ![w] = AfterPop(w, handed')]
  /\ UNCHANGED <<current, made, stopEvent, active, runner, agents, requeued>>

\* _active += 1, then start a thread for the item.
LoopSpawn(w) ==
  /\ loop[w] = "spawn"
  /\ \E r \in Runner :
       /\ runner[r] = FreeRunner
       /\ runner' = [runner EXCEPT ![r] =
                       [pc |-> "call", task |-> taken[w], worker |-> w]]
  /\ active' = [active EXCEPT ![w] = @ + 1]
  /\ taken' = [taken EXCEPT ![w] = NoTask]
  /\ loop' = [loop EXCEPT ![w] = "check"]
  /\ UNCHANGED <<vars, current, made, stopEvent, agents, requeued>>

------------------------------------------------------------------------------
(* _run_one, on thread r, and the execution it starts *)

At(r, pc) == runner[r].pc = pc

Goto(r, pc) == runner' = [runner EXCEPT ![r].pc = pc]

Alive(t, d) == agents' = [agents EXCEPT ![t] = @ + d]

\* start_fn begins an execution of the task, or raises before it.
StartFn(r) ==
  /\ At(r, "call")
  /\ \/ /\ \E blocks \in Blocking : Goto(r, IF blocks THEN "execute" ELSE "done")
        /\ Alive(runner[r].task, 1)
     \/ Goto(r, "failed") /\ UNCHANGED agents
  /\ UNCHANGED <<vars, current, made, stopEvent, loop, taken, active, requeued>>

\* A blocking start_fn returns or raises when the execution ends.
StartFnEnds(r) ==
  /\ At(r, "execute")
  /\ Goto(r, "done") \/ Goto(r, "failed")
  /\ Alive(runner[r].task, -1)
  /\ UNCHANGED <<vars, current, made, stopEvent, loop, taken, active, requeued>>

\* An agent thread started by start_task ends; nothing tells the scheduler.
AgentEnds(t) ==
  /\ agents[t] > Cardinality({r \in Runner : At(r, "execute") /\ runner[r].task = t})
  /\ Alive(t, -1)
  /\ UNCHANGED <<vars, current, made, stopEvent, loop, taken, active, runner,
                 requeued>>

\* mark_done or mark_failed; None if the task was removed meanwhile.
Report(r) ==
  /\ LET t == runner[r].task
     IN  \/ At(r, "done") /\ (MarkDone(t) \/ ReportRemoved(t))
         \/ At(r, "failed") /\ (MarkFailed(t) \/ ReportRemoved(t))
  /\ Goto(r, "release")
  /\ UNCHANGED <<current, made, stopEvent, loop, taken, active, agents, requeued>>

\* The finally clause: _active -= 1 of the worker that started the thread.
Release(r) ==
  /\ At(r, "release")
  /\ active' = [active EXCEPT ![runner[r].worker] = @ - 1]
  /\ runner' = [runner EXCEPT ![r] = FreeRunner]
  /\ UNCHANGED <<vars, current, made, stopEvent, loop, taken, agents, requeued>>

------------------------------------------------------------------------------
(* The handlers' calls, and the count of those that re-queue a running task *)

Requeue ==
  \E t \in Task :
    /\ Resume(t) \/ Retry(t)
    /\ requeued' = [requeued EXCEPT ![t] = @ + (IF owed[t] > 0 THEN 1 ELSE 0)]

OtherCall ==
  /\ \/ \E t \in Task, p \in Priority, m \in RetryBudget :
          \E D \in SUBSET (Task \ {t}) : EnqueueCheck(t, p, m, D)
     \/ \E t \in Task : Pause(t) \/ Cancel(t) \/ Remove(t)
     \/ \E t \in Task, p \in Priority : Reorder(t, p)
  /\ UNCHANGED requeued

Handler ==
  /\ Requeue \/ OtherCall
  /\ UNCHANGED <<current, made, stopEvent, loop, taken, active, runner, agents>>

HandlerContinues == ApiContinue /\ UNCHANGED workerVars

LoopStep(w) == LoopCheck(w) \/ LoopPop(w) \/ LoopSpawn(w)

RunnerStep(r) == StartFn(r) \/ StartFnEnds(r) \/ Report(r) \/ Release(r)

ThreadNext ==
  \/ \E w \in Worker : LoopStep(w)
  \/ \E r \in Runner : RunnerStep(r)
  \/ \E t \in Task : AgentEnds(t)

WorkerSystemNext ==
  Handler \/ HandlerContinues \/ InitWorker \/ StopWorker \/ ThreadNext

WorkerSpec == WorkerInit /\ [][WorkerSystemNext]_allVars

------------------------------------------------------------------------------
(* Properties *)

\* The threads worker w started that have not decremented its _active.
StartedBy(w) == {r \in Runner : ~At(r, "free") /\ runner[r].worker = w}

\* _active of a worker is exact and within its limit, although the limit is
\* checked under the lock, the task popped outside it, and _active raised
\* under it again.
ActiveIsExact ==
  \A w \in Worker :
    active[w] = Cardinality(StartedBy(w)) /\ active[w] <= MaxConcurrency

\* Threads that still owe the scheduler a report on t.
Owing(t) ==
  {r \in Runner : runner[r].task = t /\ runner[r].pc \notin {"free", "release"}}

\* Nothing is left RUNNING for ever: a RUNNING task has a loop about to start
\* its thread or a thread that will report on it, over every replacement of
\* the worker, pause, retry and removal.
RunningHasRunner ==
  \A t \in Task : items[t].status = "running"
    => Owing(t) # {} \/ \E w \in Worker : loop[w] = "spawn" /\ taken[w] = t

\* The worker itself never runs a task twice at once: more than one hand-out
\* of a task is outstanding only if an operator re-queued it while it ran.
OneRunPerRequeue == \A t \in Task : owed[t] <= 1 + requeued[t]

\* Every task that could be dispatched - QUEUED, or WAITING with all of its
\* dependencies DONE, whichever of the dependency check, the insertion and the
\* last mark_done came first - is handed out or withdrawn, with runners busy,
\* the limit reached, the more urgent tasks first and the worker replaced.
ReadyIsServed == \A t \in Task : t \in Ready ~> t \notin Ready

\* Executions of all tasks alive now.
Executions == MapThenSumSet(LAMBDA t : agents[t], Task)

\* What worker.py's header says: at most WORKER_MAX_CONCURRENCY tasks run at
\* once; the rest stay queued until a worker is free.
ConcurrencyLimited == Executions <= MaxConcurrency
==============================================================================
