---------------------------- MODULE TaskScheduler ----------------------------
(***************************************************************************)
(* backend/scheduler.py: the in-process priority queue of tasks, and its   *)
(* mirror in the SQLite table scheduler_queue (scheduler_persistence.py).  *)
(*                                                                         *)
(* Every mutating method holds one threading.Lock from its first read to   *)
(* its last write, the write of the table row included: it is one action.  *)
(* Two methods do part of their work outside the lock and take several     *)
(* actions: enqueue (dependency check, locked insertion, reading the item  *)
(* for the row, writing the row) and remove (locked removal, row delete).  *)
(*                                                                         *)
(* Two kinds of threads call it.  The HTTP handlers are coroutines of one  *)
(* event loop and call it synchronously, so their calls (ApiNext) are      *)
(* serial and an enqueue or a remove in progress holds the loop.  The      *)
(* worker's threads (WorkerNext) run at any time between those steps.      *)
(*                                                                         *)
(* An operator XMutant is X with a plausible bug; no action uses it.       *)
(***************************************************************************)
EXTENDS Integers, FiniteSets

CONSTANTS
  Task,         \* task ids
  Priority,     \* priorities callers may ask for (a smaller one is more urgent)
  RetryBudget,  \* max_retries callers may ask for
  NoTask        \* pop_next's None

ASSUME TaskAssumption == IsFiniteSet(Task) /\ NoTask \notin Task
ASSUME PriorityAssumption == Priority \subseteq Int
ASSUME RetryBudgetAssumption == RetryBudget \subseteq Nat

VARIABLES
  items,    \* _items: the QueueItem of every task, status "absent" if none
  heap,     \* _heap: the entries pushed and not yet popped, stale ones too
  counter,  \* _counter: the next sequence number
  rows,     \* the rows of scheduler_queue, status "absent" if none
  call,     \* the event loop's enqueue or remove in progress
  handed,   \* what the last pop_next returned
  owed      \* how often a task was handed out and not yet reported on

vars == <<items, heap, counter, rows, call, handed, owed>>

------------------------------------------------------------------------------
(* Data *)

QueueStatus ==
  {"queued", "running", "paused", "cancelled", "done", "failed", "waiting"}

QueueItem ==
  [status: QueueStatus \cup {"absent"}, priority: Int, retries: Nat,
   max_retries: Nat, depends_on: SUBSET Task, seq: Nat]

NoItem == [status |-> "absent", priority |-> 0, retries |-> 0,
           max_retries |-> 0, depends_on |-> {}, seq |-> 0]

\* A heap entry compares by priority, then by sequence, never by task.
HeapEntry == [priority: Int, sequence: Nat, task: Task]

BeforeMutant(e, f) == e.sequence < f.sequence

Before(e, f) == \/ e.priority < f.priority
                \/ e.priority = f.priority /\ e.sequence < f.sequence

\* A row of the table has every field of the item but the in-memory _seq.
Row == [status: QueueStatus \cup {"absent"}, priority: Int, retries: Nat,
        max_retries: Nat, depends_on: SUBSET Task]

AsRow(i) == [status |-> i.status, priority |-> i.priority,
             retries |-> i.retries, max_retries |-> i.max_retries,
             depends_on |-> i.depends_on]

Idle == [step |-> "idle", task |-> NoTask, item |-> NoItem]

Call == [step: {"insert", "read", "write", "delete"},
         task: Task, item: QueueItem] \cup {Idle}

TypeOK ==
  /\ items \in [Task -> QueueItem]
  /\ heap \subseteq HeapEntry
  /\ counter \in Nat
  /\ rows \in [Task -> Row]
  /\ call \in Call
  /\ handed \in Task \cup {NoTask}
  /\ owed \in [Task -> Nat]

------------------------------------------------------------------------------
(* Helpers: what the methods do with the heap, the table and WAITING tasks *)

Known(t) == items[t].status # "absent"

\* heapq.heappush of t at priority p with next(counter).
Push(t, p) ==
  /\ heap' = heap \cup {[priority |-> p, sequence |-> counter, task |-> t]}
  /\ counter' = counter + 1

PersistStatusMutant(R, t, s, n) == R

\* UPDATE scheduler_queue SET status, retries WHERE task_id = t: changes
\* nothing when the row is not there (yet).
PersistStatus(R, t, s, n) ==
  IF R[t].status = "absent" THEN R
  ELSE [R EXCEPT ![t] = [@ EXCEPT !.status = s, !.retries = n]]

\* INSERT OR REPLACE of an item's row.
PersistEnqueue(t, i) == rows' = [rows EXCEPT ![t] = AsRow(i)]

RecoverableMutant == {"queued", "paused"}

RecoverableAllMutant == QueueStatus

\* load_queue's WHERE clause.
Recoverable == {"queued", "running", "paused"}

\* Every dependency of t is in the queue and DONE.
DepsDone(I, t) == \A d \in I[t].depends_on : I[d].status = "done"

\* WAITING tasks that _promote_waiting moves to QUEUED.
Promotable(I) == {t \in Task : I[t].status = "waiting" /\ DepsDone(I, t)}

\* _promote_waiting goes through _items in insertion order, which is the
\* order of _seq, and pushes each promotable task with a fresh sequence.
PromotedBefore(I, t) == {u \in Promotable(I) : I[u].seq < I[t].seq}

PromotedItems(I) ==
  [t \in Task |-> IF t \in Promotable(I)
                  THEN [I[t] EXCEPT !.status = "queued"] ELSE I[t]]

PromotedHeapMutant(I) == heap

PromotedHeap(I) ==
  heap \cup {[priority |-> I[t].priority,
              sequence |-> counter + Cardinality(PromotedBefore(I, t)),
              task |-> t] : t \in Promotable(I)}

PromotedCounterMutant(I) == counter

PromotedCounter(I) == counter + Cardinality(Promotable(I))

PromotedRows(I, R) ==
  [t \in Task |-> IF t \in Promotable(I) /\ R[t].status # "absent"
                  THEN [R[t] EXCEPT !.status = "queued"] ELSE R[t]]

------------------------------------------------------------------------------
(* enqueue, in the four pieces between which other threads run *)

\* Unlocked: decide the initial status from the dependencies' statuses.  A
\* task id is new (new_task_id): it has no row, is not that of a removed task
\* still running, and depends_on cannot name it.  A duplicate is a known task.
EnqueueCheck(t, p, m, D) ==
  /\ call = Idle
  /\ Known(t) \/ (owed[t] = 0 /\ rows[t].status = "absent")
  /\ call' = [step |-> "insert", task |-> t,
              item |-> [status |-> IF \A d \in D : items[d].status = "done"
                                   THEN "queued" ELSE "waiting",
                        priority |-> p, retries |-> 0, max_retries |-> m,
                        depends_on |-> D, seq |-> 0]]
  /\ UNCHANGED <<items, heap, counter, rows, handed, owed>>

\* Locked: ValueError for a duplicate, else insert and push if QUEUED.
EnqueueInsert ==
  /\ call.step = "insert"
  /\ IF Known(call.task)
     THEN call' = Idle /\ UNCHANGED <<items, heap, counter>>
     ELSE /\ items' = [items EXCEPT ![call.task] =
                         [call.item EXCEPT !.seq = counter]]
          /\ IF call.item.status = "queued"
             THEN Push(call.task, call.item.priority)
             ELSE counter' = counter + 1 /\ UNCHANGED heap
          /\ call' = [call EXCEPT !.step = "read"]
  /\ UNCHANGED <<rows, handed, owed>>

\* Unlocked: persist_enqueue reads the item's fields ...
EnqueueRead ==
  /\ call.step = "read"
  /\ call' = [call EXCEPT !.step = "write", !.item = items[call.task]]
  /\ UNCHANGED <<items, heap, counter, rows, handed, owed>>

\* ... and commits the row; a status persisted in between found no row.
EnqueueWrite ==
  /\ call.step = "write"
  /\ PersistEnqueue(call.task, call.item)
  /\ call' = Idle
  /\ UNCHANGED <<items, heap, counter, handed, owed>>

------------------------------------------------------------------------------
(* pop_next and peek_next *)

LiveEntriesMutant(H, I) ==
  {e \in H : I[e.task].status \notin {"absent", "paused", "cancelled"}}

\* The entries that are not stale: those of QUEUED tasks.
LiveEntries(H, I) == {e \in H : I[e.task].status = "queued"}

\* What is in heap H once the entries up to e have been popped.
Remaining(H, e) == {f \in H : Before(e, f)}

\* Promote, then pop entries until one belongs to a QUEUED task.
PopNext ==
  LET I    == PromotedItems(items)
      H    == PromotedHeap(items)
      live == LiveEntries(H, I)
      R    == PromotedRows(items, rows)
  IN  /\ \/ /\ live = {}
            /\ items' = I /\ heap' = {} /\ rows' = R /\ handed' = NoTask
            /\ UNCHANGED owed
         \/ \E e \in live :
              /\ \A f \in live : f = e \/ Before(e, f)
              /\ items' = [I EXCEPT ![e.task].status = "running"]
              /\ heap' = Remaining(H, e)
              /\ rows' = PersistStatus(R, e.task, "running",
                                       R[e.task].retries)
              /\ handed' = e.task
              /\ owed' = [owed EXCEPT ![e.task] = @ + 1]
      /\ counter' = PromotedCounter(items)
      /\ UNCHANGED call

\* Promote and look at the least live entry: only the promotion is a change.
PeekNext ==
  /\ call = Idle
  /\ items' = PromotedItems(items)
  /\ heap' = PromotedHeap(items)
  /\ rows' = PromotedRows(items, rows)
  /\ counter' = PromotedCounter(items)
  /\ UNCHANGED <<call, handed, owed>>

------------------------------------------------------------------------------
(* Lifecycle controls, called by the HTTP handlers.  A method returns None  *)
(* for an unknown task and changes nothing for a status it does not accept. *)

Pause(t) ==
  /\ call = Idle
  /\ items[t].status \in {"queued", "running", "waiting"}
  /\ items' = [items EXCEPT ![t].status = "paused"]
  /\ rows' = PersistStatus(rows, t, "paused", rows[t].retries)
  /\ UNCHANGED <<heap, counter, call, handed, owed>>

Resume(t) ==
  /\ call = Idle
  /\ items[t].status = "paused"
  /\ IF DepsDone(items, t)
     THEN /\ items' = [items EXCEPT ![t].status = "queued"]
          /\ Push(t, items[t].priority)
          /\ rows' = PersistStatus(rows, t, "queued", rows[t].retries)
     ELSE /\ items' = [items EXCEPT ![t].status = "waiting"]
          /\ rows' = PersistStatus(rows, t, "waiting", rows[t].retries)
          /\ UNCHANGED <<heap, counter>>
  /\ UNCHANGED <<call, handed, owed>>

Cancel(t) ==
  /\ call = Idle
  /\ Known(t) /\ items[t].status \notin {"done", "failed", "cancelled"}
  /\ items' = [items EXCEPT ![t].status = "cancelled"]
  /\ rows' = PersistStatus(rows, t, "cancelled", rows[t].retries)
  /\ UNCHANGED <<heap, counter, call, handed, owed>>

\* retry's "bump the cap so it can run".
RaisedCap(i) ==
  IF i.retries >= i.max_retries THEN i.retries + 1 ELSE i.max_retries

\* Whatever the status: raise the cap if it is used up, count the attempt.
Retry(t) ==
  /\ call = Idle
  /\ Known(t)
  /\ LET i == items[t]
         n == i.retries + 1
     IN  /\ items' = [items EXCEPT ![t] =
                        [@ EXCEPT !.status = "queued", !.retries = n,
                                  !.max_retries = RaisedCap(i)]]
         /\ Push(t, i.priority)
         /\ rows' = PersistStatus(rows, t, "queued", n)
  /\ UNCHANGED <<call, handed, owed>>

\* A QUEUED task gets a second entry; the old one stays in the heap.  The
\* row keeps the old priority: persist_status has no such field.
Reorder(t, p) ==
  /\ call = Idle
  /\ Known(t)
  /\ items' = [items EXCEPT ![t].priority = p]
  /\ IF items[t].status = "queued" THEN Push(t, p)
                                   ELSE UNCHANGED <<heap, counter>>
  /\ rows' = PersistStatus(rows, t, items[t].status, rows[t].retries)
  /\ UNCHANGED <<call, handed, owed>>

\* Locked removal from _items; the task's heap entries stay ...
Remove(t) ==
  /\ call = Idle
  /\ Known(t)
  /\ items' = [items EXCEPT ![t] = NoItem]
  /\ call' = [step |-> "delete", task |-> t, item |-> NoItem]
  /\ UNCHANGED <<heap, counter, rows, handed, owed>>

\* ... and then, unlocked, the row is deleted.
RemoveRow ==
  /\ call.step = "delete"
  /\ rows' = [rows EXCEPT ![call.task] = AsRow(NoItem)]
  /\ call' = Idle
  /\ UNCHANGED <<items, heap, counter, handed, owed>>

------------------------------------------------------------------------------
(* What a runner, the thread a handed-out task is given to, reports once. A  *)
(* removed task's report changes nothing in the scheduler.                   *)

Reported(t) == owed[t] > 0 /\ owed' = [owed EXCEPT ![t] = @ - 1]

ReportRemoved(t) ==
  /\ Reported(t)
  /\ ~Known(t)
  /\ UNCHANGED <<items, heap, counter, rows, call, handed>>

\* DONE whatever the status was, then promote what waited for it.
MarkDone(t) ==
  /\ Reported(t)
  /\ Known(t)
  /\ LET I == [items EXCEPT ![t].status = "done"]
         R == PersistStatus(rows, t, "done", rows[t].retries)
     IN  /\ items' = PromotedItems(I)
         /\ heap' = PromotedHeap(I)
         /\ counter' = PromotedCounter(I)
         /\ rows' = PromotedRows(I, R)
  /\ UNCHANGED <<call, handed>>

\* FAILED, or QUEUED again while the retry budget lasts.
MarkFailed(t) ==
  /\ Reported(t)
  /\ Known(t)
  /\ LET i == items[t]
         n == i.retries + 1
     IN  IF i.retries < i.max_retries
         THEN /\ items' = [items EXCEPT ![t] =
                           [@ EXCEPT !.status = "queued", !.retries = n]]
              /\ Push(t, i.priority)
              /\ rows' = PersistStatus(rows, t, "queued", n)
         ELSE /\ items' = [items EXCEPT ![t].status = "failed"]
              /\ rows' = PersistStatus(rows, t, "failed", rows[t].retries)
              /\ UNCHANGED <<heap, counter>>
  /\ UNCHANGED <<call, handed>>

------------------------------------------------------------------------------

Init ==
  /\ items = [t \in Task |-> NoItem]
  /\ heap = {}
  /\ counter = 0
  /\ rows = [t \in Task |-> AsRow(NoItem)]
  /\ call = Idle
  /\ handed = NoTask
  /\ owed = [t \in Task |-> 0]

\* The calls an HTTP handler starts.
ApiStart ==
  \/ \E t \in Task, p \in Priority, m \in RetryBudget :
       \E D \in SUBSET (Task \ {t}) : EnqueueCheck(t, p, m, D)
  \/ \E t \in Task : Pause(t) \/ Resume(t) \/ Cancel(t) \/ Retry(t) \/ Remove(t)
  \/ \E t \in Task, p \in Priority : Reorder(t, p)
  \/ PeekNext

\* The rest of an enqueue or of a remove.
ApiContinue == EnqueueInsert \/ EnqueueRead \/ EnqueueWrite \/ RemoveRow

\* The calls of the worker's threads.
WorkerNext ==
  PopNext \/ \E t \in Task : MarkDone(t) \/ MarkFailed(t) \/ ReportRemoved(t)

Next == ApiStart \/ ApiContinue \/ WorkerNext

Spec == Init /\ [][Next]_vars

------------------------------------------------------------------------------
(* Properties *)

\* Entry e would put t among the ready tasks at its current priority.
EntryFor(e, t) == e.task = t /\ e.priority = items[t].priority

\* No ready task is lost: lazy deletion (pop_next throws away the entries of
\* tasks that are not QUEUED), reorder and remove leave every QUEUED task at
\* least one entry of the heap, at the priority the task has now.
QueuedHasEntry ==
  \A t \in Task : items[t].status = "queued" => \E e \in heap : EntryFor(e, t)

\* The heap order is total: two entries never carry the same sequence number
\* and none carries one still to be given, so the FIFO tie-break of
\* pop_next is decided by the sequence alone.
SequencesUnique ==
  /\ \A e, f \in heap : e.sequence = f.sequence => e = f
  /\ \A e \in heap : e.sequence < counter

\* The row of a task is missing or about to be written or deleted.
InFlight(t) == call.task = t /\ call.step \in {"read", "write", "delete"}

\* The statuses of a task that has been accepted, is not finished and waits
\* for no other.
Live == {"queued", "running", "paused"}

\* A task that is QUEUED, RUNNING or PAUSED in memory would be found by
\* load_queue after a crash at this point, unless its row still says WAITING
\* (persist_enqueue wrote a status that a promotion had overtaken).
LiveTasksAreRecoverable ==
  \A t \in Task :
    items[t].status \in Live /\ ~InFlight(t)
      => rows[t].status \in Recoverable \cup {"waiting"}

\* A task pop_next may hand out: QUEUED, or WAITING for tasks all DONE by now.
Ready == {t \in Task : items[t].status = "queued"} \cup Promotable(items)

\* The heap, the lazy deletion and the promotions implement a plain pool of
\* ready tasks: no call to pop_next returns None while a task is ready, hands
\* out one that is not, or makes another one unready.
Pool == INSTANCE ReadyPool WITH ready <- Ready

ImplementsReadyPool == Pool!PoolSpec

\* pop_next hands out t in this step.
Dispatched(t) == items[t].status # "running" /\ items'[t].status = "running"

\* pop_next never overlooks a more urgent task: the task it takes has, or was
\* enqueued or reordered with, a priority no larger than that of every task
\* still QUEUED.
PopTakesMostUrgent ==
  [][\A t, u \in Task :
       Dispatched(t) /\ items'[u].status = "queued"
         => \/ items[t].priority <= items[u].priority
            \/ \E e \in heap : e.task = t /\ e.priority <= items[u].priority]_vars

\* What pop_next's docstring says ("Pop the highest-priority ready (QUEUED)
\* task"): no task still QUEUED is more urgent than the one handed out.
PopTakesHighestPriority ==
  [][\A t, u \in Task :
       Dispatched(t) /\ items'[u].status = "queued"
         => items[t].priority <= items[u].priority]_vars

\* What enqueue's docstring says of depends_on: the task will not be
\* dispatched until all dependencies have status DONE.
DispatchedAfterDependencies ==
  [][\A t \in Task : Dispatched(t) => DepsDone(items, t)]_vars

\* What the scheduler's tests say of a cancelled task ("cancelled tasks are
\* skipped during pop"): it is ready again only through the operator's retry.
CancelledUntilRetried ==
  [][\A t \in Task :
       items[t].status = "cancelled" /\ items'[t].status = "queued"
         => Retry(t)]_vars
==============================================================================
