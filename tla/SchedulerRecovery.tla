-------------------------- MODULE SchedulerRecovery --------------------------
(***************************************************************************)
(* The scheduler across restarts of the server: the process dies at any    *)
(* point, only scheduler_queue survives, and the next process loads it     *)
(* (init_scheduler and scheduler_persistence.load_queue) before its        *)
(* handlers or its worker run.  load_queue re-enqueues one row after       *)
(* another, each a commit of its own, and may itself be cut short.         *)
(***************************************************************************)
EXTENDS TaskScheduler

VARIABLES
  mode,     \* "up", "down" or "loading"
  toLoad,   \* tasks of the rows load_queue fetched and has not handled yet
  before,   \* history: the status of each task in memory when the server died
  held      \* history: tasks the operator paused and has not released since

recoveryVars == <<mode, toLoad, before, held>>

restartVars == <<vars, recoveryVars>>

RecoveryTypeOK ==
  /\ TypeOK
  /\ mode \in {"up", "down", "loading"}
  /\ toLoad \subseteq Task
  /\ before \in [Task -> QueueStatus \cup {"absent"}]
  /\ held \subseteq Task

------------------------------------------------------------------------------

\* A call that would insert, write or delete t's row is in progress.
Unsettled(t) == call.task = t

\* The server dies, at any point of a call or of load_queue.
Crash ==
  /\ mode # "down"
  /\ mode' = "down"
  /\ before' = IF mode = "loading" THEN before
               ELSE [t \in Task |->
                       IF Unsettled(t) THEN "absent" ELSE items[t].status]
  /\ items' = [t \in Task |-> NoItem]
  /\ heap' = {}
  /\ counter' = 0
  /\ call' = Idle
  /\ handed' = NoTask
  /\ owed' = [t \in Task |-> 0]
  /\ toLoad' = {}
  /\ UNCHANGED <<rows, held>>

\* init_scheduler makes an empty scheduler and load_queue fetches the rows.
Restart ==
  /\ mode = "down"
  /\ mode' = "loading"
  /\ toLoad' = {t \in Task : rows[t].status \in Recoverable}
  /\ UNCHANGED <<vars, before, held>>

\* RUNNING was interrupted and goes back to QUEUED.
LoadedStatus(s) == IF s = "paused" THEN "paused" ELSE "queued"

\* enqueue replaces the row by that of a task just enqueued, without
\* dependencies or attempts ...
LoadedRow(r) ==
  [r EXCEPT !.status = "queued", !.retries = 0, !.depends_on = {}]

LoadedItem(r, n) ==
  [status |-> LoadedStatus(r.status), priority |-> r.priority,
   retries |-> r.retries, max_retries |-> r.max_retries,
   depends_on |-> r.depends_on, seq |-> n]

\* ... pushes an entry, and load_queue then sets the item's status, attempts
\* and dependencies in memory.  Rows come by priority (and enqueued_at, which
\* is not modelled: any order among equals).
LoadRow(t) ==
  /\ mode = "loading"
  /\ t \in toLoad
  /\ \A u \in toLoad : rows[t].priority <= rows[u].priority
  /\ toLoad' = toLoad \ {t}
  /\ items' = [items EXCEPT ![t] = LoadedItem(rows[t], counter)]
  /\ Push(t, rows[t].priority)
  /\ rows' = [rows EXCEPT ![t] = LoadedRow(rows[t])]
  /\ UNCHANGED <<call, handed, owed, mode, before, held>>

LoadDone ==
  /\ mode = "loading"
  /\ toLoad = {}
  /\ mode' = "up"
  /\ UNCHANGED <<vars, toLoad, before, held>>

------------------------------------------------------------------------------

\* What the operator's calls do to the hold on a task: pause sets it, every
\* other control that says what should become of the task lifts it.
Running(A) == mode = "up" /\ A /\ UNCHANGED <<mode, toLoad, before>>

Hold == \E t \in Task : Running(Pause(t)) /\ held' = held \cup {t}

LiftHold ==
  \E t \in Task :
    /\ Running(Resume(t) \/ Cancel(t) \/ Retry(t) \/ Remove(t))
    /\ held' = held \ {t}

Enqueue ==
  \E t \in Task, p \in Priority, m \in RetryBudget :
    \E D \in SUBSET (Task \ {t}) : Running(EnqueueCheck(t, p, m, D))

Adjust == Running(PeekNext \/ \E t \in Task, p \in Priority : Reorder(t, p))

RecoveryInit ==
  /\ Init
  /\ mode = "up"
  /\ toLoad = {}
  /\ before = [t \in Task |-> "absent"]
  /\ held = {}

OperatorStep == Hold \/ LiftHold \/ ((Enqueue \/ Adjust) /\ UNCHANGED held)

ServerStep == Running(ApiContinue \/ WorkerNext) /\ UNCHANGED held

LoadStep == Restart \/ (\E t \in Task : LoadRow(t)) \/ LoadDone

RecoveryNext == OperatorStep \/ ServerStep \/ Crash \/ LoadStep

RecoverySpec == RecoveryInit /\ [][RecoveryNext]_restartVars

------------------------------------------------------------------------------
(* Properties *)

\* While the server runs, every live task has a row load_queue would find;
\* while it loads, the rows it has still to handle stay recoverable, so a
\* second crash in the middle of recovery loses none of them.
RowsStayRecoverable ==
  /\ mode = "up" => LiveTasksAreRecoverable
  /\ \A t \in toLoad : rows[t].status \in Recoverable
  /\ \A t \in Task : mode = "loading" /\ Known(t) => rows[t].status \in Recoverable

\* A task that was QUEUED, RUNNING or PAUSED when the server died, its enqueue
\* complete, is back once recovery ends, however often recovery was itself
\* interrupted (a row that an enqueue left at WAITING excepted).
LiveTasksReturn ==
  [][LoadDone =>
       \A t \in Task : before[t] \in Live /\ rows[t].status # "waiting"
                         => Known(t)]_restartVars

\* Recovery brings back no task that was cancelled or waiting: what the
\* operator stopped stays stopped over a restart.
CancelledStaysCancelled ==
  [][\A t \in Task : LoadRow(t) => before[t] \notin {"cancelled", "waiting"}]_restartVars

\* What the module's header says: queue state survives restarts.  Every task
\* that had not finished when the server died is in the queue after recovery.
QueueSurvivesRestart ==
  [][LoadDone =>
       \A t \in Task : before[t] \in Live \cup {"waiting"} => Known(t)]_restartVars

\* What QueueStatus says of PAUSED: held by the operator; will not run until
\* resumed.
HeldUntilResumed ==
  [][\A t \in Task : Dispatched(t) => t \notin held]_restartVars
==============================================================================
