------------------------- MODULE TaskSchedulerProofs -------------------------
(* Theorems about TaskScheduler, for every set of tasks, priorities and     *)
(* retry budgets and any number of calls; then about SchedulerRecovery,     *)
(* over crashes and restarts; then about BackgroundWorker, for every number *)
(* of workers, of runner threads and of slots, and whether or not start_fn  *)
(* blocks.                                                                  *)
EXTENDS SchedulerRecovery, BackgroundWorker, FiniteSetTheorems, TLAPS

(***************************************************************************)
(* Counting promoted tasks gives natural numbers: the sequence numbers     *)
(* _promote_waiting hands out.                                             *)
(***************************************************************************)
LEMMA PromotedFinite ==
  ASSUME NEW I
  PROVE  /\ IsFiniteSet(Promotable(I))
         /\ \A t \in Task : IsFiniteSet(PromotedBefore(I, t))
<1>1. Promotable(I) \subseteq Task
  BY DEF Promotable
<1>2. IsFiniteSet(Promotable(I))
  BY <1>1, FS_Subset, TaskAssumption
<1>3. \A t \in Task : PromotedBefore(I, t) \subseteq Promotable(I)
  BY DEF PromotedBefore
<1>4. QED
  BY <1>2, <1>3, FS_Subset

LEMMA PromotionNumbers ==
  ASSUME NEW I
  PROVE  /\ Cardinality(Promotable(I)) \in Nat
         /\ \A t \in Task : Cardinality(PromotedBefore(I, t)) \in Nat
BY PromotedFinite, FS_CardinalityType

(***************************************************************************)
(* A promotion keeps items, heap, counter and rows well typed.             *)
(***************************************************************************)
LEMMA PromotionTyped ==
  ASSUME TypeOK, NEW I \in [Task -> QueueItem], NEW R \in [Task -> Row]
  PROVE  /\ PromotedItems(I) \in [Task -> QueueItem]
         /\ PromotedHeap(I) \subseteq HeapEntry
         /\ PromotedCounter(I) \in Nat
         /\ PromotedRows(I, R) \in [Task -> Row]
<1>1. PromotedItems(I) \in [Task -> QueueItem]
  BY DEF PromotedItems, QueueItem, QueueStatus
<1>2. PromotedHeap(I) \subseteq HeapEntry
  <2> SUFFICES ASSUME NEW t \in Promotable(I)
               PROVE  [priority |-> I[t].priority,
                       sequence |-> counter + Cardinality(PromotedBefore(I, t)),
                       task |-> t] \in HeapEntry
    BY DEF PromotedHeap, TypeOK
  <2>1. t \in Task
    BY DEF Promotable
  <2>2. counter + Cardinality(PromotedBefore(I, t)) \in Nat
    BY <2>1, PromotionNumbers DEF TypeOK
  <2>3. I[t].priority \in Int
    BY <2>1 DEF QueueItem
  <2>4. QED
    BY <2>1, <2>2, <2>3 DEF HeapEntry
<1>3. PromotedCounter(I) \in Nat
  BY PromotionNumbers DEF PromotedCounter, TypeOK
<1>4. PromotedRows(I, R) \in [Task -> Row]
  BY DEF PromotedRows, Row, QueueStatus
<1>5. QED
  BY <1>1, <1>2, <1>3, <1>4

\* A row or an item with another status and other attempts is still one.
LEMMA UpdatesTyped ==
  ASSUME NEW s \in QueueStatus, NEW n \in Nat
  PROVE  /\ \A i \in QueueItem : [i EXCEPT !.status = s] \in QueueItem
         /\ \A r \in Row : [r EXCEPT !.status = s, !.retries = n] \in Row
         /\ \A i \in QueueItem :
              [i EXCEPT !.status = s, !.retries = n] \in QueueItem
         /\ \A i \in QueueItem, m \in Nat :
              [i EXCEPT !.status = s, !.retries = n, !.max_retries = m]
                \in QueueItem
BY DEF Row, QueueItem

\* Writing a status and a number of attempts keeps the table well typed.
LEMMA PersistStatusTyped ==
  ASSUME NEW R \in [Task -> Row], NEW t \in Task, NEW s \in QueueStatus,
         NEW n \in Nat
  PROVE  PersistStatus(R, t, s, n) \in [Task -> Row]
<1>1. CASE R[t].status = "absent"
  BY <1>1 DEF PersistStatus
<1>2. CASE R[t].status # "absent"
  <2>1. [R[t] EXCEPT !.status = s, !.retries = n] \in Row
    BY UpdatesTyped
  <2>2. PersistStatus(R, t, s, n)
          = [R EXCEPT ![t] = [R[t] EXCEPT !.status = s, !.retries = n]]
    BY <1>2 DEF PersistStatus
  <2>3. QED
    BY <2>1, <2>2
<1>3. QED
  BY <1>1, <1>2

\* A row keeps the fields of its item.
LEMMA AsRowTyped ==
  ASSUME NEW i \in QueueItem
  PROVE  AsRow(i) \in Row
BY DEF AsRow, Row, QueueItem

LEMMA NoItemTyped == NoItem \in QueueItem
BY DEF NoItem, QueueItem

LEMMA IdleTyped == Idle \in Call
BY NoItemTyped DEF Idle, Call

\* A push keeps heap and counter well typed.
LEMMA PushTyped ==
  ASSUME TypeOK, NEW t \in Task, NEW p \in Int, Push(t, p)
  PROVE  heap' \subseteq HeapEntry /\ counter' \in Nat
BY DEF TypeOK, Push, HeapEntry

------------------------------------------------------------------------------

LEMMA InitTypeOK == Init => TypeOK
<1> SUFFICES ASSUME Init PROVE TypeOK
  OBVIOUS
<1>1. items \in [Task -> QueueItem]
  BY NoItemTyped DEF Init
<1>2. rows \in [Task -> Row]
  BY NoItemTyped, AsRowTyped DEF Init
<1>3. QED
  BY <1>1, <1>2, IdleTyped DEF Init, TypeOK

LEMMA ApiStartTypeOK ==
  ASSUME TypeOK, ApiStart
  PROVE  TypeOK'
<1> USE DEF TypeOK
<1>1. ASSUME NEW t \in Task, NEW p \in Priority, NEW m \in RetryBudget,
             NEW D \in SUBSET (Task \ {t}), EnqueueCheck(t, p, m, D)
      PROVE  TypeOK'
  <2>1. p \in Int /\ m \in Nat
    BY PriorityAssumption, RetryBudgetAssumption
  <2>2. call' \in Call
    BY <1>1, <2>1 DEF EnqueueCheck, Call, QueueItem, QueueStatus
  <2>3. QED
    BY <1>1, <2>2 DEF EnqueueCheck
<1>2. ASSUME NEW t \in Task, Pause(t) PROVE TypeOK'
  <2>1. rows' \in [Task -> Row]
    BY <1>2, PersistStatusTyped DEF Pause, QueueStatus, Row
  <2>2. items' \in [Task -> QueueItem]
    BY <1>2 DEF Pause, QueueItem, QueueStatus
  <2>3. QED
    BY <1>2, <2>1, <2>2 DEF Pause
<1>3. ASSUME NEW t \in Task, Resume(t) PROVE TypeOK'
  <2>1. items' \in [Task -> QueueItem]
    BY SMTT(30), <1>3 DEF Resume, QueueItem, QueueStatus
  <2>2. rows' \in [Task -> Row]
    <3>1. rows[t].retries \in Nat /\ {"queued", "waiting"} \subseteq QueueStatus
      BY DEF Row, QueueStatus
    <3>2. \/ rows' = PersistStatus(rows, t, "queued", rows[t].retries)
          \/ rows' = PersistStatus(rows, t, "waiting", rows[t].retries)
      BY <1>3 DEF Resume
    <3>3. QED
      BY <3>1, <3>2, PersistStatusTyped
  <2>3. heap' \subseteq HeapEntry /\ counter' \in Nat
    BY <1>3, PushTyped DEF Resume, QueueItem
  <2>4. QED
    BY <1>3, <2>1, <2>2, <2>3 DEF Resume
<1>4. ASSUME NEW t \in Task, Cancel(t) PROVE TypeOK'
  <2>1. rows' \in [Task -> Row]
    BY <1>4, PersistStatusTyped DEF Cancel, QueueStatus, Row
  <2>2. items' \in [Task -> QueueItem]
    BY <1>4 DEF Cancel, QueueItem, QueueStatus
  <2>3. QED
    BY <1>4, <2>1, <2>2 DEF Cancel
<1>5. ASSUME NEW t \in Task, Retry(t) PROVE TypeOK'
  <2>1. items[t].retries + 1 \in Nat /\ RaisedCap(items[t]) \in Nat
    BY DEF RaisedCap, QueueItem
  <2>2. items' \in [Task -> QueueItem]
    <3>1. [items[t] EXCEPT !.status = "queued", !.retries = items[t].retries + 1,
                           !.max_retries = RaisedCap(items[t])] \in QueueItem
      BY <2>1, UpdatesTyped DEF QueueStatus
    <3>2. items' = [items EXCEPT ![t] =
            [items[t] EXCEPT !.status = "queued",
                             !.retries = items[t].retries + 1,
                             !.max_retries = RaisedCap(items[t])]]
      BY <1>5 DEF Retry
    <3>3. QED
      BY <3>1, <3>2
  <2>3. rows' \in [Task -> Row]
    BY <1>5, <2>1, PersistStatusTyped DEF Retry, QueueStatus
  <2>4. heap' \subseteq HeapEntry /\ counter' \in Nat
    BY <1>5, PushTyped DEF Retry, QueueItem
  <2>5. QED
    BY <1>5, <2>2, <2>3, <2>4 DEF Retry
<1>6. ASSUME NEW t \in Task, Remove(t) PROVE TypeOK'
  <2>1. items' \in [Task -> QueueItem] /\ call' \in Call
    BY <1>6, NoItemTyped DEF Remove, Call
  <2>2. QED
    BY <1>6, <2>1 DEF Remove
<1>7. ASSUME NEW t \in Task, NEW p \in Priority, Reorder(t, p) PROVE TypeOK'
  <2>1. p \in Int
    BY PriorityAssumption
  <2>2. items' \in [Task -> QueueItem]
    BY <1>7, <2>1 DEF Reorder, QueueItem
  <2>3. items[t].status \in QueueStatus /\ rows[t].retries \in Nat
    BY <1>7 DEF Reorder, Known, QueueItem, Row
  <2>4. rows' \in [Task -> Row]
    BY <1>7, <2>3, PersistStatusTyped DEF Reorder
  <2>5. heap' \subseteq HeapEntry /\ counter' \in Nat
    BY <1>7, <2>1, PushTyped DEF Reorder
  <2>6. QED
    BY <1>7, <2>2, <2>4, <2>5 DEF Reorder
<1>8. CASE PeekNext
  BY <1>8, PromotionTyped DEF PeekNext
<1>9. QED
  BY <1>1, <1>2, <1>3, <1>4, <1>5, <1>6, <1>7, <1>8 DEF ApiStart

LEMMA ApiContinueTypeOK ==
  ASSUME TypeOK, ApiContinue
  PROVE  TypeOK'
<1> USE DEF TypeOK
<1>1. /\ call.step # "idle" /\ call.task \in Task /\ call.item \in QueueItem
      /\ \A s \in {"insert", "read", "write", "delete"}, i \in QueueItem :
           [call EXCEPT !.step = s, !.item = i] \in Call
      /\ \A s \in {"insert", "read", "write", "delete"} :
           [call EXCEPT !.step = s] \in Call
  <2>1. call.step # "idle"
    BY DEF ApiContinue, EnqueueInsert, EnqueueRead, EnqueueWrite, RemoveRow
  <2>2. call \in [step: {"insert", "read", "write", "delete"},
                  task: Task, item: QueueItem]
    BY <2>1 DEF Call, Idle
  <2>3. QED
    BY <2>1, <2>2 DEF Call
<1>2. CASE EnqueueInsert
  <2>1. CASE Known(call.task)
    BY <1>2, <2>1, IdleTyped DEF EnqueueInsert
  <2>2. CASE ~Known(call.task)
    <3>1. [call.item EXCEPT !.seq = counter] \in QueueItem
      BY <1>1 DEF QueueItem
    <3>2. items' \in [Task -> QueueItem]
      BY <1>2, <2>2, <3>1 DEF EnqueueInsert
    <3>3. call' \in Call
      BY <1>1, <1>2, <2>2 DEF EnqueueInsert
    <3>4. heap' \subseteq HeapEntry /\ counter' \in Nat
      <4>1. CASE call.item.status # "queued"
        BY <1>2, <2>2, <4>1 DEF EnqueueInsert
      <4>2. CASE call.item.status = "queued"
        <5>1. call.item.priority \in Int
          BY <1>1 DEF QueueItem
        <5>2. Push(call.task, call.item.priority)
          BY <1>2, <2>2, <4>2 DEF EnqueueInsert
        <5>3. QED
          BY <1>1, <5>1, <5>2, PushTyped
      <4>3. QED
        BY <4>1, <4>2
    <3>5. QED
      BY <1>2, <3>2, <3>3, <3>4 DEF EnqueueInsert
  <2>3. QED
    BY <2>1, <2>2
<1>3. CASE EnqueueRead
  <2>1. call' \in Call
    BY <1>1, <1>3 DEF EnqueueRead
  <2>2. QED
    BY <1>3, <2>1 DEF EnqueueRead
<1>4. CASE EnqueueWrite
  <2>1. AsRow(call.item) \in Row
    BY <1>1, AsRowTyped
  <2>2. rows' \in [Task -> Row]
    BY <1>4, <2>1 DEF EnqueueWrite, PersistEnqueue
  <2>3. QED
    BY <1>4, <2>2, IdleTyped DEF EnqueueWrite
<1>5. CASE RemoveRow
  <2>1. AsRow(NoItem) \in Row
    BY NoItemTyped, AsRowTyped
  <2>2. rows' \in [Task -> Row]
    BY <1>5, <2>1 DEF RemoveRow
  <2>3. QED
    BY <1>5, <2>2, IdleTyped DEF RemoveRow
<1>6. QED
  BY <1>2, <1>3, <1>4, <1>5 DEF ApiContinue

LEMMA PopNextTypeOK ==
  ASSUME TypeOK, PopNext
  PROVE  TypeOK'
<1> USE DEF TypeOK
<1> DEFINE I == PromotedItems(items)
           H == PromotedHeap(items)
           R == PromotedRows(items, rows)
<1>1. /\ I \in [Task -> QueueItem] /\ H \subseteq HeapEntry
      /\ R \in [Task -> Row] /\ counter' \in Nat
  BY PromotionTyped DEF PopNext
<1> HIDE DEF I, H, R
<1>2. CASE items' = I /\ heap' = {} /\ rows' = R /\ handed' = NoTask
             /\ UNCHANGED owed
  BY <1>1, <1>2 DEF PopNext
<1>3. ASSUME NEW e \in LiveEntries(H, I),
             items' = [I EXCEPT ![e.task].status = "running"],
             heap' = Remaining(H, e),
             rows' = PersistStatus(R, e.task, "running", R[e.task].retries),
             handed' = e.task,
             owed' = [owed EXCEPT ![e.task] = @ + 1]
      PROVE  TypeOK'
  <2>1. e.task \in Task
    BY <1>1 DEF LiveEntries, HeapEntry
  <2>2. items' \in [Task -> QueueItem]
    <3>1. [I[e.task] EXCEPT !.status = "running"] \in QueueItem
      BY <1>1, <2>1, UpdatesTyped DEF QueueStatus
    <3>2. QED
      BY <1>1, <1>3, <2>1, <3>1
  <2>3. R[e.task].retries \in Nat /\ "running" \in QueueStatus
    BY <1>1, <2>1 DEF Row, QueueStatus
  <2>4. rows' \in [Task -> Row]
    BY <1>1, <1>3, <2>1, <2>3, PersistStatusTyped
  <2>5. heap' \subseteq HeapEntry
    BY <1>1, <1>3 DEF Remaining
  <2>6. owed' \in [Task -> Nat]
    BY <1>3, <2>1
  <2>7. QED
    BY <1>1, <1>3, <2>1, <2>2, <2>4, <2>5, <2>6 DEF PopNext
<1>4. QED
  BY <1>2, <1>3 DEF PopNext, I, H, R

LEMMA WorkerNextTypeOK ==
  ASSUME TypeOK, WorkerNext
  PROVE  TypeOK'
<1> USE DEF TypeOK
<1>1. ASSUME NEW t \in Task, Reported(t) PROVE owed' \in [Task -> Nat]
  BY <1>1 DEF Reported
<1>2. ASSUME NEW t \in Task, MarkDone(t) PROVE TypeOK'
  <2> DEFINE I == [items EXCEPT ![t].status = "done"]
             R == PersistStatus(rows, t, "done", rows[t].retries)
  <2>1. I \in [Task -> QueueItem]
    BY DEF QueueItem, QueueStatus
  <2>2. rows[t].retries \in Nat /\ "done" \in QueueStatus
    BY DEF Row, QueueStatus
  <2>3. R \in [Task -> Row]
    BY <2>2, PersistStatusTyped
  <2>4. /\ items' = PromotedItems(I) /\ heap' = PromotedHeap(I)
        /\ counter' = PromotedCounter(I) /\ rows' = PromotedRows(I, R)
        /\ UNCHANGED <<call, handed>> /\ Reported(t)
    BY <1>2 DEF MarkDone
  <2> HIDE DEF I, R
  <2>5. QED
    BY <1>1, <2>1, <2>3, <2>4, PromotionTyped
<1>3. ASSUME NEW t \in Task, MarkFailed(t) PROVE TypeOK'
  <2>1. items[t].retries + 1 \in Nat /\ rows[t].retries \in Nat
        /\ {"queued", "failed"} \subseteq QueueStatus
    BY DEF QueueItem, Row, QueueStatus
  <2>2. CASE items[t].retries < items[t].max_retries
    <3>1. /\ items' = [items EXCEPT ![t] =
               [items[t] EXCEPT !.status = "queued",
                                !.retries = items[t].retries + 1]]
          /\ rows' = PersistStatus(rows, t, "queued", items[t].retries + 1)
          /\ Push(t, items[t].priority)
          /\ UNCHANGED <<call, handed>> /\ Reported(t)
      BY <1>3, <2>2 DEF MarkFailed
    <3>2. [items[t] EXCEPT !.status = "queued",
                           !.retries = items[t].retries + 1] \in QueueItem
      BY <2>1, UpdatesTyped
    <3>3. items' \in [Task -> QueueItem] /\ rows' \in [Task -> Row]
      BY <2>1, <3>1, <3>2, PersistStatusTyped
    <3>4. heap' \subseteq HeapEntry /\ counter' \in Nat
      BY <3>1, PushTyped DEF QueueItem
    <3>5. QED
      BY <1>1, <3>1, <3>3, <3>4
  <2>3. CASE ~(items[t].retries < items[t].max_retries)
    <3>1. /\ items' = [items EXCEPT ![t].status = "failed"]
          /\ rows' = PersistStatus(rows, t, "failed", rows[t].retries)
          /\ UNCHANGED <<heap, counter, call, handed>> /\ Reported(t)
      BY <1>3, <2>3 DEF MarkFailed
    <3>2. items' \in [Task -> QueueItem]
      BY <3>1 DEF QueueItem, QueueStatus
    <3>3. rows' \in [Task -> Row]
      BY <2>1, <3>1, PersistStatusTyped
    <3>4. QED
      BY <1>1, <3>1, <3>2, <3>3
  <2>4. QED
    BY <2>2, <2>3
<1>4. ASSUME NEW t \in Task, ReportRemoved(t) PROVE TypeOK'
  BY <1>1, <1>4 DEF ReportRemoved
<1>5. QED
  BY <1>2, <1>3, <1>4, PopNextTypeOK DEF WorkerNext

LEMMA NextTypeOK ==
  ASSUME TypeOK, [Next]_vars
  PROVE  TypeOK'
<1>1. CASE UNCHANGED vars
  BY <1>1 DEF vars, TypeOK
<1>2. QED
  BY <1>1, ApiStartTypeOK, ApiContinueTypeOK, WorkerNextTypeOK DEF Next

(***************************************************************************)
(* The state is well typed in every behaviour, in particular a heap entry  *)
(* always names a task and a sequence number, and no report is ever made   *)
(* that was not owed.                                                      *)
(***************************************************************************)
THEOREM TypeCorrect == Spec => []TypeOK
<1>1. Init => TypeOK
  BY InitTypeOK
<1>2. TypeOK /\ [Next]_vars => TypeOK'
  BY NextTypeOK
<1>3. QED
  BY <1>1, <1>2, PTL DEF Spec

------------------------------------------------------------------------------
(* No ready task is lost.  The argument: a task becomes QUEUED, or changes  *)
(* its priority while QUEUED, only together with a push at that priority;   *)
(* pop_next removes, besides the entry it takes, entries before it, and the *)
(* entry it takes is the least of the live ones, so what it throws away     *)
(* belongs to tasks that are not QUEUED.                                    *)

\* Heap H has an entry for every task that items I say is QUEUED.
Covered(I, H) ==
  \A t \in Task : I[t].status = "queued"
    => \E e \in H : e.task = t /\ e.priority = I[t].priority

\* QueuedHasEntry speaks of the current items and heap.
LEMMA CoveredNow == QueuedHasEntry <=> Covered(items, heap)
BY DEF QueuedHasEntry, EntryFor, Covered

\* A push covers its task and leaves the others covered.
LEMMA PushCovers ==
  ASSUME QueuedHasEntry, NEW t \in Task, Push(t, items'[t].priority),
         \A u \in Task \ {t} : items'[u] = items[u]
  PROVE  QueuedHasEntry'
<1> DEFINE e == [priority |-> items'[t].priority, sequence |-> counter,
                 task |-> t]
<1>1. heap' = heap \cup {e}
  BY DEF Push
<1>2. e.task = t /\ e.priority = items'[t].priority
  OBVIOUS
<1> HIDE DEF e
<1>3. QED
  BY <1>1, <1>2 DEF QueuedHasEntry, EntryFor

\* So does a change of t that leaves it not QUEUED, the heap unchanged.
LEMMA UnqueueCovers ==
  ASSUME QueuedHasEntry, NEW t \in Task, UNCHANGED heap,
         items'[t].status # "queued",
         \A u \in Task \ {t} : items'[u] = items[u]
  PROVE  QueuedHasEntry'
BY DEF QueuedHasEntry, EntryFor

\* _promote_waiting pushes every task it makes QUEUED.
LEMMA PromotionCovers ==
  ASSUME NEW I \in [Task -> QueueItem], Covered(I, heap)
  PROVE  Covered(PromotedItems(I), PromotedHeap(I))
<1> SUFFICES ASSUME NEW t \in Task, PromotedItems(I)[t].status = "queued"
             PROVE  \E e \in PromotedHeap(I) :
                      e.task = t /\ e.priority = PromotedItems(I)[t].priority
  BY DEF Covered
<1>1. CASE t \in Promotable(I)
  <2>1. PromotedItems(I)[t].priority = I[t].priority
    BY <1>1 DEF PromotedItems, QueueItem
  <2> DEFINE e == [priority |-> I[t].priority,
                   sequence |-> counter + Cardinality(PromotedBefore(I, t)),
                   task |-> t]
  <2>2. e \in PromotedHeap(I)
    BY <1>1 DEF PromotedHeap
  <2>3. e.task = t /\ e.priority = I[t].priority
    OBVIOUS
  <2>4. QED
    BY <2>1, <2>2, <2>3
<1>2. CASE t \notin Promotable(I)
  <2>1. PromotedItems(I)[t] = I[t]
    BY <1>2 DEF PromotedItems
  <2>2. QED
    BY <2>1 DEF Covered, PromotedHeap
<1>3. QED
  BY <1>1, <1>2

LEMMA PopNextCovers ==
  ASSUME TypeOK, QueuedHasEntry, PopNext
  PROVE  QueuedHasEntry'
<1> DEFINE I == PromotedItems(items)
           H == PromotedHeap(items)
<1>1. Covered(I, H) /\ H \subseteq HeapEntry /\ I \in [Task -> QueueItem]
  BY CoveredNow, PromotionCovers, PromotionTyped DEF TypeOK
<1> HIDE DEF I, H
<1>2. CASE LiveEntries(H, I) = {} /\ items' = I /\ heap' = {}
  <2>1. \A t \in Task : I[t].status # "queued"
    BY <1>1, <1>2 DEF Covered, LiveEntries
  <2>2. QED
    BY <1>2, <2>1 DEF QueuedHasEntry
<1>3. ASSUME NEW e \in LiveEntries(H, I),
             \A f \in LiveEntries(H, I) : f = e \/ Before(e, f),
             items' = [I EXCEPT ![e.task].status = "running"],
             heap' = Remaining(H, e)
      PROVE  QueuedHasEntry'
  <2> SUFFICES ASSUME NEW t \in Task, items'[t].status = "queued"
               PROVE  \E f \in heap' :
                        f.task = t /\ f.priority = items'[t].priority
    BY DEF QueuedHasEntry, EntryFor
  <2>1. e.task \in Task
    BY <1>1 DEF LiveEntries, HeapEntry
  <2>2. t # e.task
    BY <1>1, <1>3, <2>1 DEF QueueItem
  <2>3. items'[t] = I[t]
    BY <1>1, <1>3, <2>1, <2>2
  <2>4. PICK f \in H : f.task = t /\ f.priority = I[t].priority
    BY <1>1, <2>3 DEF Covered
  <2>5. f \in LiveEntries(H, I) /\ f # e
    BY <2>2, <2>3, <2>4 DEF LiveEntries
  <2>6. f \in heap'
    BY <1>3, <2>4, <2>5 DEF Remaining
  <2>7. QED
    BY <2>3, <2>4, <2>6
<1>4. QED
  BY <1>2, <1>3 DEF PopNext, I, H

LEMMA ApiStartCovers ==
  ASSUME TypeOK, QueuedHasEntry, ApiStart
  PROVE  QueuedHasEntry'
<1> USE DEF TypeOK
<1>1. ASSUME NEW t \in Task, NEW p \in Priority, NEW m \in RetryBudget,
             NEW D \in SUBSET (Task \ {t}), EnqueueCheck(t, p, m, D)
      PROVE  QueuedHasEntry'
  BY <1>1 DEF EnqueueCheck, QueuedHasEntry, EntryFor
<1>2. ASSUME NEW t \in Task, Pause(t) PROVE QueuedHasEntry'
  <2>1. items'[t].status = "paused" /\ UNCHANGED heap
    BY <1>2 DEF Pause, QueueItem
  <2>2. \A u \in Task \ {t} : items'[u] = items[u]
    BY <1>2 DEF Pause
  <2>3. QED
    BY <2>1, <2>2, UnqueueCovers
<1>3. ASSUME NEW t \in Task, Resume(t) PROVE QueuedHasEntry'
  <2>1. \A u \in Task \ {t} : items'[u] = items[u]
    BY <1>3 DEF Resume
  <2>2. CASE DepsDone(items, t)
    <3>1. Push(t, items'[t].priority)
      BY <1>3, <2>2 DEF Resume, QueueItem
    <3>2. QED
      BY <2>1, <3>1, PushCovers
  <2>3. CASE ~DepsDone(items, t)
    <3>1. items'[t].status = "waiting" /\ UNCHANGED heap
      BY <1>3, <2>3 DEF Resume, QueueItem
    <3>2. QED
      BY <2>1, <3>1, UnqueueCovers
  <2>4. QED
    BY <2>2, <2>3
<1>4. ASSUME NEW t \in Task, Cancel(t) PROVE QueuedHasEntry'
  <2>1. items'[t].status = "cancelled" /\ UNCHANGED heap
    BY <1>4 DEF Cancel, QueueItem
  <2>2. \A u \in Task \ {t} : items'[u] = items[u]
    BY <1>4 DEF Cancel
  <2>3. QED
    BY <2>1, <2>2, UnqueueCovers
<1>5. ASSUME NEW t \in Task, Retry(t) PROVE QueuedHasEntry'
  <2>1. \A u \in Task \ {t} : items'[u] = items[u]
    BY <1>5 DEF Retry
  <2>2. items'[t].priority = items[t].priority
    BY <1>5 DEF Retry, QueueItem
  <2>3. Push(t, items'[t].priority)
    BY <1>5, <2>2 DEF Retry
  <2>4. QED
    BY <2>1, <2>3, PushCovers
<1>6. ASSUME NEW t \in Task, Remove(t) PROVE QueuedHasEntry'
  <2>1. items'[t].status = "absent" /\ UNCHANGED heap
    BY <1>6 DEF Remove, NoItem
  <2>2. \A u \in Task \ {t} : items'[u] = items[u]
    BY <1>6 DEF Remove
  <2>3. QED
    BY <2>1, <2>2, UnqueueCovers
<1>7. ASSUME NEW t \in Task, NEW p \in Priority, Reorder(t, p)
      PROVE  QueuedHasEntry'
  <2>1. \A u \in Task \ {t} : items'[u] = items[u]
    BY <1>7 DEF Reorder
  <2>2. items'[t].priority = p /\ items'[t].status = items[t].status
    BY <1>7 DEF Reorder, QueueItem
  <2>3. CASE items[t].status = "queued"
    BY <1>7, <2>1, <2>2, <2>3, PushCovers DEF Reorder
  <2>4. CASE items[t].status # "queued"
    BY <1>7, <2>1, <2>2, <2>4, UnqueueCovers DEF Reorder
  <2>5. QED
    BY <2>3, <2>4
<1>8. CASE PeekNext
  BY <1>8, CoveredNow, PromotionCovers DEF PeekNext, Covered, QueuedHasEntry,
     EntryFor
<1>9. QED
  BY <1>1, <1>2, <1>3, <1>4, <1>5, <1>6, <1>7, <1>8 DEF ApiStart

LEMMA ApiContinueCovers ==
  ASSUME TypeOK, QueuedHasEntry, ApiContinue
  PROVE  QueuedHasEntry'
<1>1. CASE EnqueueInsert /\ ~Known(call.task)
  <2>1. call.task \in Task /\ call.item \in QueueItem
    BY <1>1 DEF EnqueueInsert, TypeOK, Call, Idle
  <2>2. items' = [items EXCEPT ![call.task] = [call.item EXCEPT !.seq = counter]]
    BY <1>1 DEF EnqueueInsert
  <2>3. items'[call.task].priority = call.item.priority
        /\ items'[call.task].status = call.item.status
    BY <2>1, <2>2 DEF TypeOK, QueueItem
  <2>4. \A u \in Task \ {call.task} : items'[u] = items[u]
    BY <2>2 DEF TypeOK
  <2>5. CASE call.item.status = "queued"
    BY <1>1, <2>1, <2>3, <2>4, <2>5, PushCovers DEF EnqueueInsert
  <2>6. CASE call.item.status # "queued"
    BY <1>1, <2>1, <2>3, <2>4, <2>6, UnqueueCovers DEF EnqueueInsert
  <2>7. QED
    BY <2>5, <2>6
<1>2. CASE UNCHANGED <<items, heap>>
  BY <1>2 DEF QueuedHasEntry, EntryFor
<1>3. QED
  BY <1>1, <1>2
     DEF ApiContinue, EnqueueInsert, EnqueueRead, EnqueueWrite, RemoveRow

LEMMA WorkerNextCovers ==
  ASSUME TypeOK, QueuedHasEntry, WorkerNext
  PROVE  QueuedHasEntry'
<1> USE DEF TypeOK
<1>1. ASSUME NEW t \in Task, MarkDone(t) PROVE QueuedHasEntry'
  <2> DEFINE I == [items EXCEPT ![t].status = "done"]
  <2>1. I \in [Task -> QueueItem]
    BY DEF QueueItem, QueueStatus
  <2>2. I[t].status = "done" /\ \A u \in Task \ {t} : I[u] = items[u]
    BY DEF QueueItem
  <2>3. items' = PromotedItems(I) /\ heap' = PromotedHeap(I)
    BY <1>1 DEF MarkDone
  <2> HIDE DEF I
  <2>4. Covered(I, heap)
    BY <2>2, CoveredNow DEF Covered
  <2>5. Covered(items', heap')
    BY <2>1, <2>3, <2>4, PromotionCovers
  <2>6. QED
    BY <2>5 DEF Covered, QueuedHasEntry, EntryFor
<1>2. ASSUME NEW t \in Task, MarkFailed(t) PROVE QueuedHasEntry'
  <2>1. \A u \in Task \ {t} : items'[u] = items[u]
    BY <1>2 DEF MarkFailed
  <2>2. CASE items[t].retries < items[t].max_retries
    <3>1. items'[t].priority = items[t].priority
      BY <1>2, <2>2 DEF MarkFailed, QueueItem
    <3>2. Push(t, items'[t].priority)
      BY <1>2, <2>2, <3>1 DEF MarkFailed
    <3>3. QED
      BY <2>1, <3>2, PushCovers
  <2>3. CASE ~(items[t].retries < items[t].max_retries)
    <3>1. items'[t].status = "failed" /\ UNCHANGED heap
      BY <1>2, <2>3 DEF MarkFailed, QueueItem
    <3>2. QED
      BY <2>1, <3>1, UnqueueCovers
  <2>4. QED
    BY <2>2, <2>3
<1>3. ASSUME NEW t \in Task, ReportRemoved(t) PROVE QueuedHasEntry'
  BY <1>3 DEF ReportRemoved, QueuedHasEntry, EntryFor
<1>4. QED
  BY <1>1, <1>2, <1>3, PopNextCovers DEF WorkerNext

(***************************************************************************)
(* No ready task is lost: at any time every QUEUED task has an entry in    *)
(* the heap at its current priority, whatever was paused, reordered,       *)
(* retried, removed or promoted before.                                    *)
(***************************************************************************)
THEOREM NoReadyTaskLost == Spec => []QueuedHasEntry
<1>1. Init => QueuedHasEntry
  BY DEF Init, QueuedHasEntry, NoItem
<1>2. TypeOK /\ QueuedHasEntry /\ [Next]_vars => QueuedHasEntry'
  <2> SUFFICES ASSUME TypeOK, QueuedHasEntry, [Next]_vars
               PROVE  QueuedHasEntry'
    OBVIOUS
  <2>1. CASE UNCHANGED vars
    BY <2>1 DEF vars, QueuedHasEntry, EntryFor
  <2>2. QED
    BY <2>1, ApiStartCovers, ApiContinueCovers, WorkerNextCovers DEF Next
<1>3. QED
  BY <1>1, <1>2, TypeCorrect, PTL DEF Spec

------------------------------------------------------------------------------
(* The scheduler implements the pool of ready tasks.  Under the mapping, a  *)
(* promotion changes nothing: a WAITING task whose dependencies are DONE is *)
(* ready already.  pop_next is Take or Miss, every other call is Change.    *)

\* Promotion leaves nothing to promote: it makes no further task DONE.
LEMMA PromotionComplete ==
  ASSUME NEW I \in [Task -> QueueItem]
  PROVE  Promotable(PromotedItems(I)) = {}
<1> SUFFICES ASSUME NEW t \in Promotable(PromotedItems(I)) PROVE FALSE
  OBVIOUS
<1> DEFINE J == PromotedItems(I)
<1>1. t \in Task /\ J[t].status = "waiting" /\ DepsDone(J, t)
  BY DEF Promotable
<1>2. \A u \in Task : J[u].status \in {"waiting", "done"} => J[u] = I[u]
  BY DEF PromotedItems, QueueItem
<1>3. J[t] = I[t]
  BY <1>1, <1>2
<1>4. t \notin Promotable(I)
  <2>1. t \in Promotable(I) => J[t].status = "queued"
    BY <1>1 DEF PromotedItems, QueueItem
  <2>2. QED
    BY <1>1, <2>1
<1> HIDE DEF J
<1>5. I[t].depends_on \subseteq Task
  BY <1>1 DEF QueueItem
<1>6. DepsDone(I, t)
  BY <1>1, <1>2, <1>3, <1>5 DEF DepsDone
<1>7. QED
  BY <1>1, <1>3, <1>4, <1>6 DEF Promotable

\* The ready tasks are those a promotion leaves QUEUED.
LEMMA ReadyAfterPromotion ==
  ASSUME TypeOK
  PROVE  Ready = {t \in Task : PromotedItems(items)[t].status = "queued"}
<1>1. \A t \in Promotable(items) :
         t \in Task /\ PromotedItems(items)[t].status = "queued"
  BY DEF TypeOK, PromotedItems, Promotable, QueueItem
<1>2. \A t \in Task \ Promotable(items) : PromotedItems(items)[t] = items[t]
  BY DEF PromotedItems
<1>3. QED
  BY <1>1, <1>2 DEF Ready

LEMMA PopNextImplementsPool ==
  ASSUME TypeOK, QueuedHasEntry, PopNext
  PROVE  Pool!Take \/ Pool!Miss
<1> DEFINE I == PromotedItems(items)
           H == PromotedHeap(items)
<1>1. Covered(I, H) /\ H \subseteq HeapEntry /\ I \in [Task -> QueueItem]
  BY CoveredNow, PromotionCovers, PromotionTyped DEF TypeOK
<1>2. Promotable(I) = {} /\ Ready = {t \in Task : I[t].status = "queued"}
  BY PromotionComplete, ReadyAfterPromotion DEF TypeOK
<1> HIDE DEF I, H
<1>3. CASE LiveEntries(H, I) = {} /\ items' = I /\ handed' = NoTask
  <2>1. Ready = {}
    BY <1>1, <1>2, <1>3 DEF Covered, LiveEntries
  <2>2. Ready' = {}
    BY <1>2, <1>3, <2>1 DEF Ready
  <2>3. QED
    BY <1>3, <2>1, <2>2 DEF Pool!Miss
<1>4. ASSUME NEW e \in LiveEntries(H, I),
             items' = [I EXCEPT ![e.task].status = "running"],
             handed' = e.task
      PROVE  Pool!Take
  <2>1. e.task \in Ready
    BY <1>1, <1>2 DEF LiveEntries, HeapEntry
  <2>2. e.task \in Task
    BY <1>2, <2>1
  <2>3. items'[e.task].status = "running"
    BY <1>1, <1>4, <2>2 DEF QueueItem
  <2>4. \A u \in Task \ {e.task} : items'[u] = I[u]
    BY <1>1, <1>4, <2>2
  <2>5. \A d \in Task : items'[d].status = "done" => I[d].status = "done"
    BY <2>3, <2>4
  <2>6. Promotable(items') = {}
    <3> SUFFICES ASSUME NEW u \in Promotable(items') PROVE FALSE
      OBVIOUS
    <3>1. u \in Task /\ items'[u].status = "waiting" /\ DepsDone(items', u)
      BY DEF Promotable
    <3>2. items'[u] = I[u]
      BY <2>3, <2>4, <3>1
    <3>3. I[u].depends_on \subseteq Task
      BY <1>1, <3>1 DEF QueueItem
    <3>4. DepsDone(I, u)
      BY <2>5, <3>1, <3>2, <3>3 DEF DepsDone
    <3>5. u \in Promotable(I)
      BY <3>1, <3>2, <3>4 DEF Promotable
    <3>6. QED
      BY <1>2, <3>5
  <2>7. Ready' = Ready \ {e.task}
    BY <1>2, <2>2, <2>3, <2>4, <2>6 DEF Ready
  <2>8. QED
    BY <1>4, <2>1, <2>7 DEF Pool!Take
<1>5. QED
  BY <1>3, <1>4 DEF PopNext, I, H

LEMMA CallsImplementPool ==
  ASSUME UNCHANGED handed
  PROVE  Pool!Change
BY DEF Pool!Change, Ready, Promotable

(***************************************************************************)
(* The priority heap with lazy deletion, the promotions and the lifecycle  *)
(* controls implement a plain pool: pop_next takes out exactly one ready   *)
(* task, or returns None and then no task was ready.                       *)
(***************************************************************************)
THEOREM SchedulerImplementsPool == Spec => ImplementsReadyPool
<1>1. Init => Pool!PoolInit
  BY DEF Init, NoItem, Ready, Promotable, Pool!PoolInit
<1>2. TypeOK /\ QueuedHasEntry /\ [Next]_vars
        => [Pool!PoolNext]_(Pool!poolVars)
  <2> SUFFICES ASSUME TypeOK, QueuedHasEntry, [Next]_vars
               PROVE  [Pool!PoolNext]_(Pool!poolVars)
    OBVIOUS
  <2>1. CASE PopNext
    BY <2>1, PopNextImplementsPool DEF Pool!PoolNext
  <2>2. CASE ApiStart \/ ApiContinue
             \/ \E t \in Task : MarkDone(t) \/ MarkFailed(t) \/ ReportRemoved(t)
    <3>1. UNCHANGED handed
      BY <2>2
         DEF ApiStart, EnqueueCheck, Pause, Resume, Cancel, Retry, Remove,
             Reorder, PeekNext, ApiContinue, EnqueueInsert, EnqueueRead,
             EnqueueWrite, RemoveRow, MarkDone, MarkFailed, ReportRemoved
    <3>2. QED
      BY <3>1, CallsImplementPool DEF Pool!PoolNext
  <2>3. CASE UNCHANGED vars
    BY <2>3, CallsImplementPool DEF vars, Pool!PoolNext
  <2>4. QED
    BY <2>1, <2>2, <2>3 DEF Next, WorkerNext
<1>3. QED
  BY <1>1, <1>2, TypeCorrect, NoReadyTaskLost, PTL
     DEF Spec, ImplementsReadyPool, Pool!PoolSpec

------------------------------------------------------------------------------
(* What the scheduler's calls do to the status and the debts of a task t.   *)

Promoted(t) == items[t].status = "waiting" /\ items'[t].status = "queued"

LEMMA PromotedStatus ==
  ASSUME NEW I \in [Task -> QueueItem], NEW t \in Task
  PROVE  \/ PromotedItems(I)[t].status = I[t].status
         \/ I[t].status = "waiting" /\ PromotedItems(I)[t].status = "queued"
BY DEF PromotedItems, Promotable, QueueItem

LEMMA PopStatus ==
  ASSUME TypeOK, PopNext, NEW t \in Task
  PROVE  \/ /\ items'[t].status = items[t].status \/ Promoted(t)
            /\ owed'[t] = owed[t]
         \/ /\ items[t].status \in {"queued", "waiting"}
            /\ items'[t].status = "running"
            /\ handed' = t
            /\ owed'[t] = owed[t] + 1
<1> DEFINE I == PromotedItems(items)
<1>1. /\ I \in [Task -> QueueItem]
      /\ \/ I[t].status = items[t].status
         \/ items[t].status = "waiting" /\ I[t].status = "queued"
  <2>1. items \in [Task -> QueueItem] /\ rows \in [Task -> Row]
    BY DEF TypeOK
  <2>2. PromotedItems(items) \in [Task -> QueueItem]
    BY <2>1, PromotionTyped
  <2>3. \/ PromotedItems(items)[t].status = items[t].status
        \/ items[t].status = "waiting" /\ PromotedItems(items)[t].status = "queued"
    BY <2>1, PromotedStatus
  <2>4. QED
    BY <2>2, <2>3
<1> HIDE DEF I
<1>2. CASE items' = I /\ UNCHANGED owed
  BY <1>1, <1>2 DEF Promoted
<1>3. ASSUME NEW e, I[e.task].status = "queued", handed' = e.task,
             items' = [I EXCEPT ![e.task].status = "running"],
             owed' = [owed EXCEPT ![e.task] = @ + 1]
      PROVE  \/ /\ items'[t].status = items[t].status \/ Promoted(t)
                /\ owed'[t] = owed[t]
             \/ /\ items[t].status \in {"queued", "waiting"}
                /\ items'[t].status = "running"
                /\ handed' = t
                /\ owed'[t] = owed[t] + 1
  <2>1. CASE e.task = t
    <3>1. items'[t].status = "running" /\ owed'[t] = owed[t] + 1
      BY <1>1, <1>3, <2>1 DEF QueueItem, TypeOK
    <3>2. QED
      BY <1>1, <1>3, <2>1, <3>1
  <2>2. CASE e.task # t
    <3>1. items'[t] = I[t] /\ owed'[t] = owed[t]
      BY <1>1, <1>3, <2>2 DEF TypeOK
    <3>2. QED
      BY <1>1, <3>1 DEF Promoted
  <2>3. QED
    BY <2>1, <2>2
<1>4. QED
  BY <1>2, <1>3 DEF PopNext, LiveEntries, I

\* The task reported on leaves RUNNING, and one debt is paid.
LEMMA ReportStatus ==
  ASSUME TypeOK, NEW u \in Task, MarkDone(u) \/ MarkFailed(u) \/ ReportRemoved(u)
  PROVE  /\ items'[u].status \in {"queued", "done", "failed", "absent"}
         /\ items'[u].status = "absent" <=> items[u].status = "absent"
         /\ owed[u] > 0 /\ owed'[u] = owed[u] - 1
         /\ \A t \in Task \ {u} : /\ items'[t].status = items[t].status \/ Promoted(t)
                                  /\ owed'[t] = owed[t]
<1>1. /\ owed[u] > 0 /\ owed'[u] = owed[u] - 1
      /\ \A t \in Task \ {u} : owed'[t] = owed[t]
  BY DEF MarkDone, MarkFailed, ReportRemoved, Reported, TypeOK
<1>2. CASE MarkDone(u)
  <2> DEFINE I == [items EXCEPT ![u].status = "done"]
  <2>1. /\ I \in [Task -> QueueItem] /\ I[u].status = "done"
        /\ \A t \in Task \ {u} : I[t] = items[t]
    BY DEF TypeOK, QueueItem, QueueStatus
  <2>2. items' = PromotedItems(I)
    BY <1>2 DEF MarkDone
  <2> HIDE DEF I
  <2>3. \A t \in Task : \/ items'[t].status = I[t].status
                        \/ I[t].status = "waiting" /\ items'[t].status = "queued"
    BY <2>1, <2>2, PromotedStatus
  <2>4. QED
    BY <1>1, <1>2, <2>1, <2>3 DEF MarkDone, Known, Promoted
<1>3. CASE MarkFailed(u)
  <2>1. /\ items'[u].status \in {"queued", "failed"}
        /\ \A t \in Task \ {u} : items'[t] = items[t]
    BY ZenonT(60), <1>3 DEF MarkFailed, TypeOK, QueueItem
  <2>2. QED
    BY <1>1, <1>3, <2>1 DEF MarkFailed, Known
<1>4. CASE ReportRemoved(u)
  BY <1>1, <1>4 DEF ReportRemoved, Known
<1>5. QED
  BY <1>2, <1>3, <1>4

\* The rest of an enqueue or a remove changes a status only by the insertion.
LEMMA ContinueStatus ==
  ASSUME TypeOK, ApiContinue
  PROVE  /\ UNCHANGED owed
         /\ \/ UNCHANGED items
            \/ /\ call.step = "insert" /\ call.task \in Task /\ ~Known(call.task)
               /\ items'[call.task].status = call.item.status
               /\ \A t \in Task \ {call.task} : items'[t] = items[t]
<1>1. UNCHANGED owed
  BY DEF ApiContinue, EnqueueInsert, EnqueueRead, EnqueueWrite, RemoveRow
<1>2. CASE EnqueueInsert /\ ~UNCHANGED items
  <2>1. call.step = "insert" /\ call.task \in Task /\ call.item \in QueueItem
    BY <1>2 DEF EnqueueInsert, TypeOK, Call, Idle
  <2>2. QED
    BY <1>1, <1>2, <2>1 DEF EnqueueInsert, TypeOK, QueueItem
<1>3. QED
  BY <1>1, <1>2 DEF ApiContinue, EnqueueRead, EnqueueWrite, RemoveRow

------------------------------------------------------------------------------
(* What is being inserted *)

\* A task is inserted as QUEUED or WAITING, and was not handed out before.
InsertsFresh ==
  call.step = "insert" =>
    /\ call.item.status \in {"queued", "waiting"}
    /\ Known(call.task) \/ owed[call.task] = 0

LEMMA NextInsertsFresh ==
  ASSUME TypeOK, InsertsFresh, [Next]_vars
  PROVE  InsertsFresh'
<1>1. SUFFICES ASSUME call'.step = "insert" PROVE InsertsFresh'
  BY DEF InsertsFresh
<1>2. ASSUME UNCHANGED <<items, call, owed>> PROVE InsertsFresh'
  BY <1>2 DEF InsertsFresh, Known
<1>3. CASE ApiStart
  <2>1. call = Idle
    BY <1>3 DEF ApiStart, EnqueueCheck, Pause, Resume, Cancel, Retry, Remove, Reorder, PeekNext
  <2>2. ASSUME NEW t \in Task, Remove(t) PROVE FALSE
    BY <1>1, <2>2 DEF Remove
  <2>3. ASSUME UNCHANGED call PROVE FALSE
    BY <1>1, <2>1, <2>3 DEF Idle
  <2>4. PICK t \in Task, p \in Priority, m \in RetryBudget, D \in SUBSET Task :
          EnqueueCheck(t, p, m, D)
    BY <1>3, <2>2, <2>3
       DEF ApiStart, Pause, Resume, Cancel, Retry, Reorder, PeekNext
  <2>5. QED
    BY <2>4 DEF EnqueueCheck, Known, InsertsFresh
<1>4. CASE ApiContinue
  <2>1. CASE EnqueueInsert \/ EnqueueRead
    <3>1. call \in [step: {"insert", "read", "write", "delete"}, task: Task, item: QueueItem]
      BY <2>1 DEF EnqueueInsert, EnqueueRead, TypeOK, Call, Idle
    <3>2. \/ call' = Idle
          \/ call' = [call EXCEPT !.step = "read"]
          \/ call' = [call EXCEPT !.step = "write", !.item = items[call.task]]
      BY <2>1 DEF EnqueueInsert, EnqueueRead
    <3>3. call'.step # "insert"
      <4>1. CASE call' = Idle
        BY <4>1 DEF Idle
      <4>2. CASE call' = [call EXCEPT !.step = "read"]
        BY <3>1, <4>2
      <4>3. CASE call' = [call EXCEPT !.step = "write", !.item = items[call.task]]
        BY <3>1, <4>3
      <4>4. QED
        BY <3>2, <4>1, <4>2, <4>3
    <3>4. QED
      BY <1>1, <3>3
  <2>2. CASE EnqueueWrite \/ RemoveRow
    BY <1>1, <2>2 DEF EnqueueWrite, RemoveRow, Idle
  <2>3. QED
    BY <1>4, <2>1, <2>2 DEF ApiContinue
<1>5. ASSUME call' = call, call.task \in Task,
             Known(call.task) => Known(call.task)',
             ~Known(call.task) => owed'[call.task] = owed[call.task] \/ owed[call.task] > 0
      PROVE  InsertsFresh'
  BY <1>5 DEF InsertsFresh
<1>6. call' = call => call.task \in Task
  BY <1>1 DEF TypeOK, Call, Idle
<1>7. CASE PopNext
  <2>1. call' = call
    BY <1>7 DEF PopNext
  <2>2. QED
    BY <1>5, <1>6, <1>7, <2>1, PopStatus DEF Known, Promoted
<1>8. ASSUME NEW u \in Task, MarkDone(u) \/ MarkFailed(u) \/ ReportRemoved(u)
      PROVE  InsertsFresh'
  <2>1. call' = call
    BY <1>8 DEF MarkDone, MarkFailed, ReportRemoved
  <2>2. QED
    BY <1>5, <1>6, <1>8, <2>1, ReportStatus DEF Known, Promoted
<1>9. CASE UNCHANGED vars
  BY <1>2, <1>9 DEF vars
<1>10. QED
  BY <1>3, <1>4, <1>7, <1>8, <1>9 DEF Next, WorkerNext

\* What is inserted is fresh in every behaviour.
LEMMA FreshAlways == Spec => []InsertsFresh
<1>1. Init => InsertsFresh
  BY DEF Init, Idle, InsertsFresh
<1>2. TypeOK /\ InsertsFresh /\ [Next]_vars => InsertsFresh'
  BY NextInsertsFresh
<1>3. QED
  BY <1>1, <1>2, TypeCorrect, PTL DEF Spec

------------------------------------------------------------------------------
(* Sequence numbers.  A push takes counter and raises it; a promotion takes  *)
(* as many numbers as it has tasks and gives each the number of promoted     *)
(* tasks before it in the order of _seq, which no two tasks share.           *)

\* Heap H holds different numbers, all of them below n.
Numbered(H, n) ==
  /\ \A e, f \in H : e.sequence = f.sequence => e = f
  /\ \A e \in H : e.sequence < n

\* The known tasks of I have different _seq, all of them below n.
Ordered(I, n) ==
  \A t \in Task : I[t].status # "absent" =>
    /\ I[t].seq < n
    /\ \A u \in Task : I[u].status # "absent" /\ I[u].seq = I[t].seq => u = t

\* J knows no task that I does not, and numbers it as I does.
SameOrder(I, J) ==
  \A t \in Task : J[t].status # "absent" =>
    I[t].status # "absent" /\ J[t].seq = I[t].seq

LEMMA OrderKept ==
  ASSUME NEW I \in [Task -> QueueItem], NEW J, NEW n \in Nat, NEW m \in Nat,
         Ordered(I, n), SameOrder(I, J), n <= m
  PROVE  Ordered(J, m)
<1> SUFFICES ASSUME NEW t \in Task, J[t].status # "absent"
             PROVE  /\ J[t].seq < m
                    /\ \A u \in Task :
                         J[u].status # "absent" /\ J[u].seq = J[t].seq => u = t
  BY DEF Ordered
<1>1. I[t].status # "absent" /\ J[t].seq = I[t].seq /\ I[t].seq \in Nat
  BY DEF SameOrder, QueueItem
<1>2. QED
  BY <1>1 DEF Ordered, SameOrder

\* A push takes a fresh number.
LEMMA PushNumbered ==
  ASSUME TypeOK, Numbered(heap, counter), NEW t, NEW p, Push(t, p)
  PROVE  Numbered(heap', counter')
<1> DEFINE e == [priority |-> p, sequence |-> counter, task |-> t]
<1>1. heap' = heap \cup {e} /\ counter' = counter + 1 /\ e.sequence = counter
  BY DEF Push
<1>2. counter \in Nat /\ \A f \in heap : f.sequence \in Nat
  BY DEF TypeOK, HeapEntry
<1> HIDE DEF e
<1>3. QED
  BY <1>1, <1>2 DEF Numbered

\* The promoted tasks before t and t itself come before a later u.
LEMMA PromotedLess ==
  ASSUME NEW I \in [Task -> QueueItem], NEW t \in Promotable(I),
         NEW u \in Promotable(I), I[t].seq < I[u].seq
  PROVE  Cardinality(PromotedBefore(I, t)) < Cardinality(PromotedBefore(I, u))
<1>1. t \in Task /\ u \in Task
  BY DEF Promotable
<1>2. I[t].seq \in Nat /\ I[u].seq \in Nat /\ \A v \in Task : I[v].seq \in Nat
  BY <1>1 DEF QueueItem
<1>3. IsFiniteSet(PromotedBefore(I, t)) /\ IsFiniteSet(PromotedBefore(I, u))
  BY PromotedFinite, <1>1
<1>4. t \notin PromotedBefore(I, t)
  BY <1>2 DEF PromotedBefore
<1>5. PromotedBefore(I, t) \cup {t} \subseteq PromotedBefore(I, u)
  BY <1>2 DEF PromotedBefore, Promotable
<1>6. Cardinality(PromotedBefore(I, t) \cup {t}) = Cardinality(PromotedBefore(I, t)) + 1
  BY <1>3, <1>4, FS_AddElement
<1>7. Cardinality(PromotedBefore(I, t) \cup {t}) <= Cardinality(PromotedBefore(I, u))
  BY <1>3, <1>5, FS_Subset
<1>8. QED
  BY <1>1, <1>6, <1>7, PromotionNumbers

\* Not all promoted tasks come before t.
LEMMA PromotedFewer ==
  ASSUME NEW I \in [Task -> QueueItem], NEW t \in Promotable(I)
  PROVE  Cardinality(PromotedBefore(I, t)) < Cardinality(Promotable(I))
<1>1. t \in Task /\ I[t].seq \in Nat
  BY DEF Promotable, QueueItem
<1>2. IsFiniteSet(PromotedBefore(I, t)) /\ IsFiniteSet(Promotable(I))
  BY PromotedFinite, <1>1
<1>3. t \notin PromotedBefore(I, t) /\ PromotedBefore(I, t) \cup {t} \subseteq Promotable(I)
  BY <1>1 DEF PromotedBefore
<1>4. Cardinality(PromotedBefore(I, t) \cup {t}) = Cardinality(PromotedBefore(I, t)) + 1
  BY <1>2, <1>3, FS_AddElement
<1>5. Cardinality(PromotedBefore(I, t) \cup {t}) <= Cardinality(Promotable(I))
  BY <1>2, <1>3, FS_Subset
<1>6. QED
  BY <1>1, <1>4, <1>5, PromotionNumbers

\* A promotion gives every task it makes QUEUED a number of its own.
LEMMA PromotionNumbered ==
  ASSUME TypeOK, NEW I \in [Task -> QueueItem], Ordered(I, counter),
         Numbered(heap, counter)
  PROVE  /\ Numbered(PromotedHeap(I), PromotedCounter(I))
         /\ Ordered(PromotedItems(I), PromotedCounter(I))
<1> DEFINE number(t) == counter + Cardinality(PromotedBefore(I, t))
           entry(t) == [priority |-> I[t].priority, sequence |-> number(t), task |-> t]
<1>1. PromotedHeap(I) = heap \cup {entry(t) : t \in Promotable(I)}
  BY DEF PromotedHeap
<1>2. \A t \in Promotable(I) :
        /\ entry(t).sequence = number(t)
        /\ number(t) \in Nat /\ counter <= number(t) /\ number(t) < PromotedCounter(I)
  <2> TAKE t \in Promotable(I)
  <2>1. t \in Task
    BY DEF Promotable
  <2>2. QED
    BY <2>1, PromotionNumbers, PromotedFewer DEF PromotedCounter, TypeOK
<1>3. ASSUME NEW t \in Promotable(I), NEW u \in Promotable(I), number(t) = number(u)
      PROVE  t = u
  <2>1. /\ t \in Task /\ u \in Task
        /\ I[t].status # "absent" /\ I[u].status # "absent"
        /\ I[t].seq \in Nat /\ I[u].seq \in Nat
    BY DEF Promotable, QueueItem
  <2>2. ~(I[t].seq < I[u].seq) /\ ~(I[u].seq < I[t].seq)
    BY <1>3, <2>1, PromotedLess, PromotionNumbers DEF TypeOK
  <2>3. I[t].seq = I[u].seq
    BY <2>1, <2>2
  <2>4. QED
    BY <2>1, <2>3 DEF Ordered
<1>4. /\ counter \in Nat /\ PromotedCounter(I) \in Nat /\ counter <= PromotedCounter(I)
      /\ \A e \in heap : e.sequence \in Nat /\ e.sequence < counter
  BY PromotionNumbers DEF TypeOK, HeapEntry, Numbered, PromotedCounter
<1>5. Numbered(PromotedHeap(I), PromotedCounter(I))
  <2> HIDE DEF number, entry
  <2>1. \A e \in PromotedHeap(I) : e.sequence < PromotedCounter(I)
    BY <1>1, <1>2, <1>4
  <2>2. ASSUME NEW e \in PromotedHeap(I), NEW f \in PromotedHeap(I),
               e.sequence = f.sequence
        PROVE  e = f
    <3>1. CASE e \in heap /\ f \in heap
      BY <2>2, <3>1 DEF Numbered
    <3>2. CASE e \notin heap /\ f \notin heap
      <4>1. PICK t \in Promotable(I), u \in Promotable(I) : e = entry(t) /\ f = entry(u)
        BY <1>1, <3>2
      <4>2. t = u
        BY <1>2, <1>3, <2>2, <4>1
      <4>3. QED
        BY <4>1, <4>2
    <3>3. CASE (e \in heap) # (f \in heap)
      BY <1>1, <1>2, <1>4, <2>2, <3>3
    <3>4. QED
      BY <3>1, <3>2, <3>3
  <2>3. QED
    BY <2>1, <2>2 DEF Numbered
<1>6. SameOrder(I, PromotedItems(I))
  BY DEF SameOrder, PromotedItems, Promotable, QueueItem
<1>7. QED
  BY <1>4, <1>5, <1>6, OrderKept

\* A call that renumbers no task and pushes at most one entry.
LEMMA CallNumbered ==
  ASSUME TypeOK, TypeOK', SequencesUnique, Ordered(items, counter),
         SameOrder(items, items'),
         UNCHANGED <<heap, counter>> \/ \E t \in Task, p \in Int : Push(t, p)
  PROVE  SequencesUnique' /\ Ordered(items', counter')
<1>1. counter \in Nat /\ counter' \in Nat /\ counter <= counter'
  BY DEF TypeOK, Push
<1>2. SequencesUnique'
  BY PushNumbered DEF SequencesUnique, Numbered
<1>3. QED
  BY <1>1, <1>2, OrderKept DEF TypeOK

LEMMA ApiStartNumbered ==
  ASSUME TypeOK, TypeOK', SequencesUnique, Ordered(items, counter), ApiStart
  PROVE  SequencesUnique' /\ Ordered(items', counter')
<1> USE DEF TypeOK
<1>1. ASSUME NEW t \in Task, NEW p \in Priority, NEW m \in RetryBudget,
             NEW D \in SUBSET (Task \ {t}), EnqueueCheck(t, p, m, D)
      PROVE  SequencesUnique' /\ Ordered(items', counter')
  BY <1>1, CallNumbered DEF EnqueueCheck, SameOrder
<1>2. ASSUME NEW t \in Task, Pause(t) \/ Cancel(t) \/ Remove(t)
      PROVE  SequencesUnique' /\ Ordered(items', counter')
  <2>1. SameOrder(items, items')
    BY <1>2 DEF Pause, Cancel, Remove, NoItem, Known, SameOrder, QueueItem
  <2>2. QED
    BY <1>2, <2>1, CallNumbered DEF Pause, Cancel, Remove
<1>3. ASSUME NEW t \in Task, Resume(t)
      PROVE  SequencesUnique' /\ Ordered(items', counter')
  <2>1. SameOrder(items, items')
    BY <1>3 DEF Resume, SameOrder, QueueItem
  <2>2. items[t].priority \in Int
    BY DEF QueueItem
  <2>3. QED
    BY <1>3, <2>1, <2>2, CallNumbered DEF Resume
<1>4. ASSUME NEW t \in Task, Retry(t)
      PROVE  SequencesUnique' /\ Ordered(items', counter')
  <2>1. SameOrder(items, items')
    BY <1>4 DEF Retry, Known, SameOrder, QueueItem
  <2>2. items[t].priority \in Int /\ Push(t, items[t].priority)
    BY <1>4 DEF Retry, QueueItem
  <2>3. QED
    BY <2>1, <2>2, CallNumbered
<1>5. ASSUME NEW t \in Task, NEW p \in Priority, Reorder(t, p)
      PROVE  SequencesUnique' /\ Ordered(items', counter')
  <2>1. SameOrder(items, items')
    BY <1>5 DEF Reorder, SameOrder, QueueItem
  <2>2. QED
    BY <1>5, <2>1, PriorityAssumption, CallNumbered DEF Reorder
<1>6. CASE PeekNext
  BY <1>6, PromotionNumbered DEF PeekNext, SequencesUnique, Numbered
<1>7. QED
  BY <1>1, <1>2, <1>3, <1>4, <1>5, <1>6 DEF ApiStart

\* The task inserted gets the number the counter had.
LEMMA InsertNumbered ==
  ASSUME TypeOK, TypeOK', SequencesUnique, Ordered(items, counter), EnqueueInsert
  PROVE  SequencesUnique' /\ Ordered(items', counter')
<1>1. CASE Known(call.task)
  BY <1>1, CallNumbered DEF EnqueueInsert, SameOrder
<1>2. CASE ~Known(call.task)
  <2>1. call.task \in Task /\ call.item \in QueueItem /\ counter \in Nat
    BY DEF EnqueueInsert, TypeOK, Call, Idle
  <2>2. /\ items' = [items EXCEPT ![call.task] = [call.item EXCEPT !.seq = counter]]
        /\ counter' = counter + 1
        /\ UNCHANGED heap \/ Push(call.task, call.item.priority)
    BY <1>2 DEF EnqueueInsert, Push
  <2>3. SequencesUnique'
    BY <2>1, <2>2, PushNumbered DEF SequencesUnique, Numbered, TypeOK, HeapEntry
  <2>4. items'[call.task].seq = counter /\ \A t \in Task \ {call.task} : items'[t] = items[t]
    BY <2>1, <2>2 DEF TypeOK, QueueItem
  <2>5. \A t \in Task : items[t].seq \in Nat
    BY DEF TypeOK, QueueItem
  <2>6. Ordered(items', counter')
    <3> SUFFICES ASSUME NEW t \in Task, items'[t].status # "absent"
                 PROVE  /\ items'[t].seq < counter'
                        /\ \A u \in Task : items'[u].status # "absent"
                                             /\ items'[u].seq = items'[t].seq => u = t
      BY DEF Ordered
    <3>1. CASE t = call.task
      BY <2>1, <2>2, <2>4, <2>5, <3>1 DEF Ordered
    <3>2. CASE t # call.task
      BY <2>1, <2>2, <2>4, <2>5, <3>2 DEF Ordered
    <3>3. QED
      BY <3>1, <3>2
  <2>7. QED
    BY <2>3, <2>6
<1>3. QED
  BY <1>1, <1>2

LEMMA PopNextNumbered ==
  ASSUME TypeOK, TypeOK', SequencesUnique, Ordered(items, counter), PopNext
  PROVE  SequencesUnique' /\ Ordered(items', counter')
<1> DEFINE I == PromotedItems(items)
           H == PromotedHeap(items)
<1>1. /\ items \in [Task -> QueueItem] /\ rows \in [Task -> Row] /\ counter \in Nat
      /\ counter' = PromotedCounter(items)
  BY DEF TypeOK, PopNext
<1>2. I \in [Task -> QueueItem] /\ H \subseteq HeapEntry /\ counter' \in Nat
  BY <1>1, PromotionTyped
<1>3. Numbered(H, counter') /\ Ordered(I, counter')
  BY <1>1, PromotionNumbered DEF SequencesUnique, Numbered
<1>4. heap' \subseteq H /\ SameOrder(I, items')
  <2> HIDE DEF I, H
  <2>1. CASE items' = I /\ heap' = {}
    BY <2>1 DEF SameOrder
  <2>2. ASSUME NEW e \in LiveEntries(H, I), heap' = Remaining(H, e),
               items' = [I EXCEPT ![e.task].status = "running"]
        PROVE  heap' \subseteq H /\ SameOrder(I, items')
    <3>1. I[e.task].status = "queued"
      BY DEF LiveEntries
    <3>2. QED
      BY <1>2, <2>2, <3>1 DEF Remaining, SameOrder, QueueItem
  <2>3. QED
    BY <2>1, <2>2 DEF PopNext, I, H
<1> HIDE DEF I, H
<1>5. QED
  BY <1>2, <1>3, <1>4, OrderKept DEF SequencesUnique, Numbered

LEMMA ReportNumbered ==
  ASSUME TypeOK, TypeOK', SequencesUnique, Ordered(items, counter), NEW t \in Task,
         MarkDone(t) \/ MarkFailed(t) \/ ReportRemoved(t)
  PROVE  SequencesUnique' /\ Ordered(items', counter')
<1>1. items \in [Task -> QueueItem] /\ counter \in Nat
  BY DEF TypeOK
<1>2. CASE MarkDone(t)
  <2> DEFINE I == [items EXCEPT ![t].status = "done"]
  <2>1. I \in [Task -> QueueItem]
    <3>1. [items[t] EXCEPT !.status = "done"] \in QueueItem
      BY <1>1 DEF QueueItem, QueueStatus
    <3>2. QED
      BY <1>1, <3>1
  <2>2. SameOrder(items, I)
    <3>1. items[t].status # "absent" /\ I[t].seq = items[t].seq
      BY <1>1, <1>2 DEF MarkDone, Known, QueueItem
    <3>2. QED
      BY <1>1, <3>1 DEF SameOrder
  <2>3. /\ items' = PromotedItems(I) /\ heap' = PromotedHeap(I)
        /\ counter' = PromotedCounter(I)
    BY <1>2 DEF MarkDone
  <2> HIDE DEF I
  <2>4. Ordered(I, counter)
    BY <1>1, <2>1, <2>2, OrderKept
  <2>5. QED
    BY <2>1, <2>3, <2>4, PromotionNumbered DEF SequencesUnique, Numbered
<1>3. CASE MarkFailed(t)
  <2>1. SameOrder(items, items')
    <3>1. /\ items[t].status # "absent" /\ items'[t].seq = items[t].seq
          /\ \A u \in Task \ {t} : items'[u] = items[u]
      <4>1. CASE items[t].retries < items[t].max_retries
        BY <1>1, <1>3, <4>1 DEF MarkFailed, Known, QueueItem
      <4>2. CASE ~(items[t].retries < items[t].max_retries)
        BY <1>1, <1>3, <4>2 DEF MarkFailed, Known, QueueItem
      <4>3. QED
        BY <4>1, <4>2
    <3>2. QED
      BY <3>1 DEF SameOrder
  <2>2. items[t].priority \in Int
    BY <1>1 DEF QueueItem
  <2>3. QED
    BY <1>3, <2>1, <2>2, CallNumbered DEF MarkFailed
<1>4. CASE ReportRemoved(t)
  BY <1>4, CallNumbered DEF ReportRemoved, SameOrder
<1>5. QED
  BY <1>2, <1>3, <1>4

LEMMA StepNumbered ==
  ASSUME TypeOK, SequencesUnique, Ordered(items, counter), [Next]_vars
  PROVE  SequencesUnique' /\ Ordered(items', counter')
<1>1. TypeOK'
  BY NextTypeOK
<1>2. CASE EnqueueRead \/ EnqueueWrite \/ RemoveRow \/ UNCHANGED vars
  <2>1. UNCHANGED <<items, heap, counter>>
    BY <1>2 DEF EnqueueRead, EnqueueWrite, RemoveRow, vars
  <2>2. QED
    BY <1>1, <2>1, CallNumbered DEF SameOrder
<1>3. QED
  BY <1>1, <1>2, ApiStartNumbered, InsertNumbered, PopNextNumbered, ReportNumbered
     DEF Next, ApiContinue, WorkerNext

LEMMA InitNumbered == Init => SequencesUnique /\ Ordered(items, counter)
BY DEF Init, NoItem, SequencesUnique, Ordered

(***************************************************************************)
(* The heap order is total: no two entries carry the same sequence number  *)
(* and none carries one still to be given, over every promotion, retry,    *)
(* resume and reorder.  The numbers a promotion gives are distinct because *)
(* the tasks are ordered by _seq, which is why the order of the tasks is   *)
(* part of the inductive invariant.                                        *)
(***************************************************************************)
THEOREM HeapOrderIsTotal == Spec => []SequencesUnique
<1>1. Init => SequencesUnique /\ Ordered(items, counter)
  BY InitNumbered
<1>2. TypeOK /\ SequencesUnique /\ Ordered(items, counter) /\ [Next]_vars
        => SequencesUnique' /\ Ordered(items, counter)'
  BY StepNumbered
<1>3. QED
  BY <1>1, <1>2, TypeCorrect, PTL DEF Spec

------------------------------------------------------------------------------
(* Only pop_next hands out a task, and it takes the least live entry of a   *)
(* heap in which every other QUEUED task has an entry at its own priority.  *)

\* The handlers' calls and the runners' reports make no task RUNNING.
LEMMA OnlyPopDispatches ==
  ASSUME TypeOK, InsertsFresh, [Next]_vars, ~PopNext, NEW t \in Task
  PROVE  ~Dispatched(t)
<1> SUFFICES ASSUME items'[t].status = "running" PROVE items[t].status = "running"
  BY DEF Dispatched
<1>1. ASSUME UNCHANGED items PROVE items[t].status = "running"
  BY <1>1
<1>2. ASSUME NEW u \in Task,
             Pause(u) \/ Resume(u) \/ Cancel(u) \/ Retry(u) \/ Remove(u)
      PROVE  items[t].status = "running"
  <2>1. CASE t = u
    <3>1. CASE Pause(u) \/ Cancel(u) \/ Remove(u)
      BY <2>1, <3>1 DEF Pause, Cancel, Remove, NoItem, TypeOK, QueueItem
    <3>2. CASE Resume(u)
      BY <2>1, <3>2 DEF Resume, TypeOK, QueueItem
    <3>3. CASE Retry(u)
      BY <2>1, <3>3 DEF Retry, TypeOK, QueueItem
    <3>4. QED
      BY <1>2, <3>1, <3>2, <3>3
  <2>2. CASE t # u
    BY <1>2, <2>2 DEF Pause, Resume, Cancel, Retry, Remove, TypeOK
  <2>3. QED
    BY <2>1, <2>2
<1>3. ASSUME NEW u \in Task, NEW p \in Priority, Reorder(u, p)
      PROVE  items[t].status = "running"
  BY <1>3 DEF Reorder, TypeOK, QueueItem
<1>4. CASE PeekNext
  BY <1>4, PromotedStatus DEF PeekNext, TypeOK
<1>5. CASE ApiContinue
  BY <1>5, ContinueStatus DEF InsertsFresh
<1>6. ASSUME NEW u \in Task, MarkDone(u) \/ MarkFailed(u) \/ ReportRemoved(u)
      PROVE  items[t].status = "running"
  BY <1>6, ReportStatus DEF Promoted
<1>7. CASE ApiStart
  BY <1>1, <1>2, <1>3, <1>4, <1>7 DEF ApiStart, EnqueueCheck
<1>8. QED
  BY <1>1, <1>5, <1>6, <1>7 DEF Next, WorkerNext, vars

LEMMA PopIsMostUrgent ==
  ASSUME TypeOK, QueuedHasEntry, PopNext, NEW t \in Task, NEW u \in Task,
         Dispatched(t), items'[u].status = "queued"
  PROVE  \/ items[t].priority <= items[u].priority
         \/ \E e \in heap : e.task = t /\ e.priority <= items[u].priority
<1> DEFINE I == PromotedItems(items)
           H == PromotedHeap(items)
<1>1. items \in [Task -> QueueItem] /\ rows \in [Task -> Row]
  BY DEF TypeOK
<1>2. Covered(I, H) /\ H \subseteq HeapEntry /\ I \in [Task -> QueueItem]
  BY <1>1, CoveredNow, PromotionCovers, PromotionTyped
<1>3. /\ I[t].status = "running" => items[t].status = "running"
      /\ I[u].priority = items[u].priority
  BY <1>1 DEF PromotedItems, QueueItem
<1>4. \A e \in H : e \in heap \/ e.priority = items[e.task].priority
  BY DEF PromotedHeap
<1> HIDE DEF I, H
<1>5. PICK e \in LiveEntries(H, I) :
        /\ \A f \in LiveEntries(H, I) : f = e \/ Before(e, f)
        /\ items' = [I EXCEPT ![e.task].status = "running"]
  BY <1>3 DEF PopNext, Dispatched, I, H
<1>6. e \in H /\ e.task \in Task /\ e.priority \in Int
  BY <1>2 DEF LiveEntries, HeapEntry
<1>7. e.task = t
  BY <1>2, <1>3, <1>5, <1>6 DEF Dispatched
<1>8. u # t
  BY <1>2, <1>5, <1>6, <1>7 DEF QueueItem
<1>9. I[u].status = "queued"
  BY <1>2, <1>5, <1>7, <1>8
<1>10. PICK f \in H : f.task = u /\ f.priority = items[u].priority
  BY <1>2, <1>3, <1>9 DEF Covered
<1>11. f \in LiveEntries(H, I) /\ f # e /\ f.priority \in Int
  BY <1>2, <1>7, <1>8, <1>9, <1>10 DEF LiveEntries, HeapEntry
<1>12. e.priority <= items[u].priority
  BY <1>5, <1>6, <1>10, <1>11 DEF Before
<1>13. QED
  BY <1>4, <1>6, <1>7, <1>12

(***************************************************************************)
(* No task still QUEUED is overlooked for a less urgent one: the task      *)
(* handed out has, or was enqueued or reordered with, a priority no larger *)
(* than that of every task left behind.                                    *)
(***************************************************************************)
THEOREM MostUrgentIsTaken == Spec => PopTakesMostUrgent
<1> DEFINE Urgent ==
      \A t, u \in Task :
        Dispatched(t) /\ items'[u].status = "queued"
          => \/ items[t].priority <= items[u].priority
             \/ \E e \in heap : e.task = t /\ e.priority <= items[u].priority
<1>1. TypeOK /\ QueuedHasEntry /\ InsertsFresh /\ [Next]_vars => [Urgent]_vars
  BY OnlyPopDispatches, PopIsMostUrgent
<1>2. QED
  BY <1>1, TypeCorrect, NoReadyTaskLost, FreshAlways, PTL DEF Spec, PopTakesMostUrgent

------------------------------------------------------------------------------
(* Items and rows.  While no enqueue or remove is writing a task's row, the  *)
(* row says what the item says wherever a restart would tell the difference. *)
(* An enqueue that has inserted and not yet written its row is the one case  *)
(* in which the table lags behind; what may happen meanwhile is bounded, as  *)
(* no handler runs and the task was not handed out before.                   *)

\* t's row, written completely, fits the status of its item.
RowAgrees(t) ==
  Known(t) /\ ~InFlight(t) =>
    /\ rows[t].status # "absent"
    /\ items[t].status \in Live => rows[t].status \in Recoverable \cup {"waiting"}
    /\ items[t].status \in {"cancelled", "waiting"} => rows[t].status \notin Recoverable

\* How far a new task can get before its row is written.
EarlyStatus == {"queued", "waiting", "running", "done", "failed"}

NewTask(t) ==
  /\ items[t].status \in EarlyStatus
  /\ owed[t] = IF items[t].status = "running" THEN 1 ELSE 0

\* What an enqueue or a remove in progress knows of its task.
CallAgrees ==
  /\ call.step \in {"read", "write"} => NewTask(call.task)
  /\ call.step = "write" =>
       /\ call.item.status \in EarlyStatus
       /\ call.item.status \in {"done", "failed"} => items[call.task].status \notin Live
       /\ items[call.task].status = "waiting" => call.item.status = "waiting"
  /\ call.step = "delete" => ~Known(call.task)

RowsAgree == CallAgrees /\ \A t \in Task : RowAgrees(t)

\* The step leaves t's item and row as they are, or writes the one's new
\* status to the other.
Mirrored(t) ==
  /\ rows'[t].status # "absent"
  /\ \/ items'[t].status = items[t].status /\ rows'[t].status = rows[t].status
     \/ rows'[t].status = items'[t].status

LEMMA MirrorAgrees ==
  ASSUME NEW t \in Task, RowAgrees(t), Known(t), ~InFlight(t), Mirrored(t)
  PROVE  RowAgrees(t)'
BY DEF RowAgrees, Mirrored, Live, Recoverable, Known

\* persist_status changes one row, if it is there, and that to the status.
LEMMA PersistedStatus ==
  ASSUME NEW R \in [Task -> Row], NEW t \in Task, NEW s, NEW n
  PROVE  /\ \A u \in Task \ {t} : PersistStatus(R, t, s, n)[u] = R[u]
         /\ R[t].status # "absent" => PersistStatus(R, t, s, n)[t].status = s
BY DEF PersistStatus, Row

\* A promotion makes the items and the rows of the same tasks QUEUED.
LEMMA PromotedTogether ==
  ASSUME NEW I \in [Task -> QueueItem], NEW R \in [Task -> Row], NEW t \in Task,
         R[t].status # "absent"
  PROVE  \/ /\ PromotedItems(I)[t] = I[t]
            /\ PromotedRows(I, R)[t] = R[t]
         \/ /\ PromotedItems(I)[t].status = "queued"
            /\ PromotedRows(I, R)[t].status = "queued"
BY DEF PromotedItems, PromotedRows, QueueItem, Row

LEMMA ApiStartMirrors ==
  ASSUME TypeOK, ApiStart, NEW t \in Task, rows[t].status # "absent", ~Remove(t)
  PROVE  Mirrored(t)
<1>1. items \in [Task -> QueueItem] /\ rows \in [Task -> Row]
  BY DEF TypeOK
<1>2. ASSUME UNCHANGED <<items, rows>> PROVE Mirrored(t)
  BY <1>2 DEF Mirrored
<1>3. ASSUME NEW u \in Task, u # t, NEW s, NEW n, items'[t] = items[t],
             rows' = PersistStatus(rows, u, s, n)
      PROVE  Mirrored(t)
  BY <1>1, <1>3, PersistedStatus DEF Mirrored
<1>4. ASSUME NEW s \in QueueStatus, NEW n, items'[t].status = s,
             rows' = PersistStatus(rows, t, s, n)
      PROVE  Mirrored(t)
  BY <1>1, <1>4, PersistedStatus DEF Mirrored, QueueStatus
<1>5. ASSUME NEW u \in Task, Pause(u) PROVE Mirrored(t)
  <2>1. CASE u = t
    BY <1>1, <1>4, <1>5, <2>1 DEF Pause, QueueStatus, QueueItem
  <2>2. CASE u # t
    BY <1>1, <1>3, <1>5, <2>2 DEF Pause
  <2>3. QED
    BY <2>1, <2>2
<1>6. ASSUME NEW u \in Task, Resume(u) PROVE Mirrored(t)
  <2>1. PICK s \in {"queued", "waiting"} :
          /\ items' = [items EXCEPT ![u].status = s]
          /\ rows' = PersistStatus(rows, u, s, rows[u].retries)
    BY <1>6 DEF Resume
  <2>2. CASE u = t
    BY <1>1, <1>4, <2>1, <2>2 DEF QueueStatus, QueueItem
  <2>3. CASE u # t
    BY <1>1, <1>3, <2>1, <2>3
  <2>4. QED
    BY <2>2, <2>3
<1>7. ASSUME NEW u \in Task, Cancel(u) PROVE Mirrored(t)
  <2>1. CASE u = t
    BY <1>1, <1>4, <1>7, <2>1 DEF Cancel, QueueStatus, QueueItem
  <2>2. CASE u # t
    BY <1>1, <1>3, <1>7, <2>2 DEF Cancel
  <2>3. QED
    BY <2>1, <2>2
<1>8. ASSUME NEW u \in Task, Retry(u) PROVE Mirrored(t)
  <2>1. rows' = PersistStatus(rows, u, "queued", items[u].retries + 1)
    BY <1>8 DEF Retry
  <2>2. CASE u = t
    <3>1. items'[t].status = "queued"
      BY <1>1, <1>8, <2>2 DEF Retry, QueueItem
    <3>2. QED
      BY <1>4, <2>1, <2>2, <3>1 DEF QueueStatus
  <2>3. CASE u # t
    <3>1. items'[t] = items[t]
      BY <1>1, <1>8, <2>3 DEF Retry
    <3>2. QED
      BY <1>3, <2>1, <2>3, <3>1
  <2>4. QED
    BY <2>2, <2>3
<1>9. ASSUME NEW u \in Task \ {t}, Remove(u) PROVE Mirrored(t)
  BY <1>1, <1>9 DEF Remove, Mirrored
<1>10. ASSUME NEW u \in Task, NEW p \in Priority, Reorder(u, p) PROVE Mirrored(t)
  <2>1. /\ rows' = PersistStatus(rows, u, items[u].status, rows[u].retries)
        /\ items[u].status \in QueueStatus
        /\ items' = [items EXCEPT ![u].priority = p]
    BY <1>1, <1>10 DEF Reorder, Known, QueueItem
  <2>2. CASE u = t
    BY <1>1, <1>4, <2>1, <2>2 DEF QueueItem
  <2>3. CASE u # t
    BY <1>1, <1>3, <2>1, <2>3
  <2>4. QED
    BY <2>2, <2>3
<1>11. CASE PeekNext
  BY <1>1, <1>11, PromotedTogether DEF PeekNext, Mirrored
<1>12. QED
  BY <1>2, <1>5, <1>6, <1>7, <1>8, <1>9, <1>10, <1>11 DEF ApiStart, EnqueueCheck

LEMMA PopNextMirrors ==
  ASSUME TypeOK, PopNext, NEW t \in Task, rows[t].status # "absent"
  PROVE  Mirrored(t)
<1> DEFINE I == PromotedItems(items)
           H == PromotedHeap(items)
           R == PromotedRows(items, rows)
<1>1. items \in [Task -> QueueItem] /\ rows \in [Task -> Row]
  BY DEF TypeOK
<1>2. I \in [Task -> QueueItem] /\ H \subseteq HeapEntry /\ R \in [Task -> Row]
  BY <1>1, PromotionTyped
<1>3. /\ R[t].status # "absent"
      /\ \/ I[t].status = items[t].status /\ R[t].status = rows[t].status
         \/ R[t].status = I[t].status
  BY <1>1, PromotedTogether
<1> HIDE DEF I, H, R
<1>4. CASE items' = I /\ rows' = R
  BY <1>3, <1>4 DEF Mirrored
<1>5. ASSUME NEW e \in LiveEntries(H, I),
             items' = [I EXCEPT ![e.task].status = "running"],
             rows' = PersistStatus(R, e.task, "running", R[e.task].retries)
      PROVE  Mirrored(t)
  <2>1. e.task \in Task
    BY <1>2 DEF LiveEntries, HeapEntry
  <2>2. CASE e.task = t
    <3>1. items'[t].status = "running"
      BY <1>2, <1>5, <2>2 DEF QueueItem
    <3>2. rows'[t].status = "running"
      BY <1>2, <1>3, <1>5, <2>1, <2>2, PersistedStatus
    <3>3. QED
      BY <3>1, <3>2 DEF Mirrored
  <2>3. CASE e.task # t
    <3>1. items'[t] = I[t] /\ rows'[t] = R[t]
      BY <1>2, <1>5, <2>1, <2>3, PersistedStatus
    <3>2. QED
      BY <1>3, <3>1 DEF Mirrored
  <2>4. QED
    BY <2>2, <2>3
<1>6. QED
  BY <1>4, <1>5 DEF PopNext, I, H, R

LEMMA ReportMirrors ==
  ASSUME TypeOK, NEW t \in Task, rows[t].status # "absent", NEW u \in Task,
         MarkDone(u) \/ MarkFailed(u) \/ ReportRemoved(u)
  PROVE  Mirrored(t)
<1>1. items \in [Task -> QueueItem] /\ rows \in [Task -> Row]
  BY DEF TypeOK
<1>2. CASE MarkDone(u)
  <2> DEFINE I == [items EXCEPT ![u].status = "done"]
             R == PersistStatus(rows, u, "done", rows[u].retries)
  <2>1. items' = PromotedItems(I) /\ rows' = PromotedRows(I, R)
    BY <1>2 DEF MarkDone
  <2>2. I \in [Task -> QueueItem]
    <3>1. [items[u] EXCEPT !.status = "done"] \in QueueItem
      BY <1>1 DEF QueueItem, QueueStatus
    <3>2. QED
      BY <1>1, <3>1
  <2>3. R \in [Task -> Row]
    <3>1. rows[u].retries \in Nat /\ "done" \in QueueStatus
      BY <1>1 DEF Row, QueueStatus
    <3>2. QED
      BY <1>1, <3>1, PersistStatusTyped
  <2>4. /\ t = u => I[t].status = "done" /\ R[t].status = "done"
        /\ t # u => I[t] = items[t] /\ R[t] = rows[t]
    BY <1>1, PersistedStatus DEF QueueItem
  <2> HIDE DEF I, R
  <2>5. QED
    BY <2>1, <2>2, <2>3, <2>4, PromotedTogether DEF Mirrored
<1>3. CASE MarkFailed(u)
  <2>1. ASSUME NEW s \in {"queued", "failed"}, NEW n, items'[u].status = s,
               \A v \in Task \ {u} : items'[v] = items[v],
               rows' = PersistStatus(rows, u, s, n)
        PROVE  Mirrored(t)
    <3>1. CASE t = u
      BY <1>1, <2>1, <3>1, PersistedStatus DEF Mirrored
    <3>2. CASE t # u
      BY <1>1, <2>1, <3>2, PersistedStatus DEF Mirrored
    <3>3. QED
      BY <3>1, <3>2
  <2>2. CASE items[u].retries < items[u].max_retries
    <3>1. /\ items' = [items EXCEPT ![u] =
                         [items[u] EXCEPT !.status = "queued",
                                          !.retries = items[u].retries + 1]]
          /\ rows' = PersistStatus(rows, u, "queued", items[u].retries + 1)
      BY <1>3, <2>2 DEF MarkFailed
    <3>2. items'[u].status = "queued"
      BY <1>1, <3>1 DEF QueueItem
    <3>3. \A v \in Task \ {u} : items'[v] = items[v]
      BY <1>1, <3>1
    <3>4. QED
      BY <2>1, <3>1, <3>2, <3>3
  <2>3. CASE ~(items[u].retries < items[u].max_retries)
    <3>1. /\ items' = [items EXCEPT ![u].status = "failed"]
          /\ rows' = PersistStatus(rows, u, "failed", rows[u].retries)
      BY <1>3, <2>3 DEF MarkFailed
    <3>2. items'[u].status = "failed"
      BY <1>1, <3>1 DEF QueueItem
    <3>3. \A v \in Task \ {u} : items'[v] = items[v]
      BY <1>1, <3>1
    <3>4. QED
      BY <2>1, <3>1, <3>2, <3>3
  <2>4. QED
    BY <2>2, <2>3
<1>4. CASE ReportRemoved(u)
  BY <1>4 DEF ReportRemoved, Mirrored
<1>5. QED
  BY <1>2, <1>3, <1>4

\* Rows of known tasks that no call is writing agree after a step in which
\* they are mirrored and no task becomes known or is no longer being written.
LEMMA MirroredRowsAgree ==
  ASSUME RowsAgree,
         \A t \in Task : Known(t)' /\ ~InFlight(t)' => Known(t) /\ ~InFlight(t),
         \A t \in Task : Known(t)' /\ rows[t].status # "absent" => Mirrored(t)
  PROVE  \A t \in Task : RowAgrees(t)'
<1> SUFFICES ASSUME NEW t \in Task, Known(t)', ~InFlight(t)' PROVE RowAgrees(t)'
  BY DEF RowAgrees
<1>1. Known(t) /\ ~InFlight(t) /\ RowAgrees(t)
  BY DEF RowsAgree
<1>2. rows[t].status # "absent"
  BY <1>1 DEF RowAgrees
<1>3. QED
  BY <1>1, <1>2, MirrorAgrees

LEMMA ApiStartAgrees ==
  ASSUME TypeOK, TypeOK', RowsAgree, ApiStart
  PROVE  RowsAgree'
<1>1. call = Idle
  BY DEF ApiStart, EnqueueCheck, Pause, Resume, Cancel, Retry, Remove, Reorder,
         PeekNext
<1>2. \/ call'.step \in {"idle", "insert"}
      \/ \E t \in Task : /\ call'.step = "delete" /\ call'.task = t
                         /\ items'[t].status = "absent"
  <2>1. CASE UNCHANGED call
    BY <1>1, <2>1 DEF Idle
  <2>2. ASSUME NEW t \in Task, Remove(t)
        PROVE  /\ call'.step = "delete" /\ call'.task = t
               /\ items'[t].status = "absent"
    BY <2>2 DEF Remove, NoItem, TypeOK
  <2>3. ASSUME NEW t \in Task, NEW p \in Priority, NEW m \in RetryBudget,
               NEW D \in SUBSET (Task \ {t}), EnqueueCheck(t, p, m, D)
        PROVE  call'.step = "insert"
    BY <2>3 DEF EnqueueCheck
  <2>4. QED
    BY <2>1, <2>2, <2>3
       DEF ApiStart, Pause, Resume, Cancel, Retry, Reorder, PeekNext
<1>3. CallAgrees'
  BY <1>2 DEF CallAgrees, Known
<1>4. ASSUME NEW t \in Task, Known(t)' PROVE Known(t) /\ ~InFlight(t) /\ ~Remove(t)
  <2>1. ~Remove(t)
    BY <1>4 DEF Remove, Known, NoItem, TypeOK
  <2>2. ~InFlight(t)
    BY <1>1 DEF InFlight, Idle
  <2>3. CASE PeekNext
    <3>1. items' = PromotedItems(items) /\ items \in [Task -> QueueItem]
      BY <2>3 DEF PeekNext, TypeOK
    <3>2. items[t].status # "absent"
      BY <1>4, <3>1, PromotedStatus DEF Known
    <3>3. QED
      BY <2>1, <2>2, <3>2 DEF Known
  <2>4. CASE ~PeekNext
    <3>1. Known(t)
      BY <1>4, <2>4
         DEF ApiStart, EnqueueCheck, Pause, Resume, Cancel, Retry, Remove, Reorder,
             Known, NoItem, TypeOK
    <3>2. QED
      BY <2>1, <2>2, <3>1
  <2>5. QED
    BY <2>3, <2>4
<1>5. \A t \in Task : RowAgrees(t)'
  BY <1>4, ApiStartMirrors, MirroredRowsAgree
<1>6. QED
  BY <1>3, <1>5 DEF RowsAgree

\* The worker's calls on the task of an enqueue in progress: it is handed out
\* once, and reported on only then.
LEMMA WorkerNewTask ==
  ASSUME TypeOK, NEW t \in Task, NewTask(t), WorkerNext
  PROVE  /\ NewTask(t)'
         /\ items[t].status \in {"done", "failed"} => UNCHANGED items[t].status
         /\ items'[t].status = "waiting" => items[t].status = "waiting"
<1>1. /\ owed[t] = IF items[t].status = "running" THEN 1 ELSE 0
      /\ items[t].status \in EarlyStatus
  BY DEF NewTask
<1>2. CASE PopNext
  <2>1. CASE items[t].status \in {"queued", "waiting"} /\ items'[t].status = "running"
             /\ owed'[t] = owed[t] + 1
    BY <1>1, <2>1 DEF NewTask, EarlyStatus, Live, Promoted
  <2>2. CASE (items'[t].status = items[t].status \/ Promoted(t)) /\ owed'[t] = owed[t]
    BY <1>1, <2>2 DEF NewTask, EarlyStatus, Live, Promoted
  <2>3. QED
    BY <1>2, <2>1, <2>2, PopStatus
<1>3. ASSUME NEW u \in Task, MarkDone(u) \/ MarkFailed(u) \/ ReportRemoved(u)
      PROVE  /\ NewTask(t)'
             /\ items[t].status \in {"done", "failed"} => UNCHANGED items[t].status
             /\ items'[t].status = "waiting" => items[t].status = "waiting"
  <2>1. CASE u = t
    <3>1. /\ items'[t].status \in {"queued", "done", "failed", "absent"}
          /\ items'[t].status = "absent" <=> items[t].status = "absent"
          /\ owed[t] > 0 /\ owed'[t] = owed[t] - 1
      BY <1>3, <2>1, ReportStatus
    <3>2. items[t].status = "running" /\ owed'[t] = 0
      BY <1>1, <3>1
    <3>3. QED
      BY <3>1, <3>2 DEF NewTask, EarlyStatus, Live
  <2>2. CASE u # t
    <3>1. (items'[t].status = items[t].status \/ Promoted(t)) /\ owed'[t] = owed[t]
      BY <1>3, <2>2, ReportStatus
    <3>2. QED
      BY <1>1, <3>1 DEF NewTask, EarlyStatus, Live, Promoted
  <2>3. QED
    BY <2>1, <2>2
<1>4. QED
  BY <1>2, <1>3 DEF WorkerNext

LEMMA WorkerNextAgrees ==
  ASSUME TypeOK, TypeOK', RowsAgree, WorkerNext
  PROVE  RowsAgree'
<1>1. UNCHANGED call
  BY DEF WorkerNext, PopNext, MarkDone, MarkFailed, ReportRemoved
<1>2. \A t \in Task : Known(t)' <=> Known(t)
  <2> TAKE t \in Task
  <2>1. CASE PopNext
    BY <2>1, PopStatus DEF Known, Promoted
  <2>2. ASSUME NEW u \in Task, MarkDone(u) \/ MarkFailed(u) \/ ReportRemoved(u)
        PROVE  Known(t)' <=> Known(t)
    BY <2>2, ReportStatus DEF Known, Promoted
  <2>3. QED
    BY <2>1, <2>2 DEF WorkerNext
<1>3. \A t \in Task : InFlight(t)' <=> InFlight(t)
  BY <1>1 DEF InFlight
<1>4. \A t \in Task : RowAgrees(t)'
  BY <1>2, <1>3, PopNextMirrors, ReportMirrors, MirroredRowsAgree DEF WorkerNext
<1>5. call.step # "idle" => call.task \in Task
  BY DEF TypeOK, Call, Idle
<1>6. CallAgrees'
  <2>1. CASE call.step \in {"read", "write"}
    <3>1. PICK t \in Task : t = call.task /\ NewTask(t)
      BY <1>5, <2>1 DEF RowsAgree, CallAgrees
    <3>2. /\ NewTask(t)'
          /\ items[t].status \in {"done", "failed"} => items'[t].status = items[t].status
          /\ items'[t].status = "waiting" => items[t].status = "waiting"
      BY <3>1, WorkerNewTask
    <3>3. call.step = "write" =>
            /\ call.item.status \in EarlyStatus
            /\ items'[t].status = "waiting" => call.item.status = "waiting"
            /\ call.item.status \in {"done", "failed"} => items'[t].status \notin Live
      BY <3>1, <3>2 DEF RowsAgree, CallAgrees, NewTask, EarlyStatus, Live
    <3>4. QED
      BY <1>1, <2>1, <3>1, <3>2, <3>3 DEF CallAgrees, NewTask
  <2>2. CASE call.step \notin {"read", "write"}
    BY <1>1, <1>2, <1>5, <2>2 DEF RowsAgree, CallAgrees
  <2>3. QED
    BY <2>1, <2>2
<1>7. QED
  BY <1>4, <1>6 DEF RowsAgree

LEMMA ApiContinueAgrees ==
  ASSUME TypeOK, TypeOK', InsertsFresh, RowsAgree, ApiContinue
  PROVE  RowsAgree'
<1>1. call \in [step: {"insert", "read", "write", "delete"}, task: Task, item: QueueItem]
  BY DEF ApiContinue, EnqueueInsert, EnqueueRead, EnqueueWrite, RemoveRow, TypeOK,
         Call, Idle
<1>2. \A t \in Task : RowAgrees(t)
  BY DEF RowsAgree
<1>3. CASE EnqueueInsert
  <2>1. CASE Known(call.task)
    <3>1. call' = Idle /\ UNCHANGED <<items, rows>>
      BY <1>3, <2>1 DEF EnqueueInsert
    <3>2. \A t \in Task : ~InFlight(t)
      BY <1>3 DEF EnqueueInsert, InFlight
    <3>3. QED
      BY <1>2, <3>1, <3>2 DEF RowsAgree, RowAgrees, CallAgrees, Idle, Known
  <2>2. CASE ~Known(call.task)
    <3>1. /\ call' = [call EXCEPT !.step = "read"]
          /\ items' = [items EXCEPT ![call.task] = [call.item EXCEPT !.seq = counter]]
          /\ UNCHANGED <<rows, owed>> /\ call.step = "insert"
      BY <1>3, <2>2 DEF EnqueueInsert
    <3>2. call'.step = "read" /\ call'.task = call.task
      BY <1>1, <3>1
    <3>3. /\ items'[call.task].status = call.item.status
          /\ \A t \in Task \ {call.task} : items'[t] = items[t]
      BY <1>1, <3>1 DEF TypeOK, QueueItem
    <3>4. CallAgrees'
      BY <2>2, <3>1, <3>2, <3>3 DEF InsertsFresh, CallAgrees, NewTask, EarlyStatus
    <3>5. \A t \in Task : RowAgrees(t)'
      BY <1>2, <3>1, <3>2, <3>3 DEF RowAgrees, InFlight, Known
    <3>6. QED
      BY <3>4, <3>5 DEF RowsAgree
  <2>3. QED
    BY <2>1, <2>2
<1>4. CASE EnqueueRead
  <2>1. /\ call' = [call EXCEPT !.step = "write", !.item = items[call.task]]
        /\ UNCHANGED <<items, rows, owed>> /\ call.step = "read"
    BY <1>4 DEF EnqueueRead
  <2>2. call'.step = "write" /\ call'.task = call.task /\ call'.item = items[call.task]
    BY <1>1, <2>1
  <2>3. NewTask(call.task)
    BY <2>1 DEF RowsAgree, CallAgrees
  <2>4. CallAgrees'
    BY <2>1, <2>2, <2>3 DEF CallAgrees, NewTask, EarlyStatus, Live
  <2>5. \A t \in Task : RowAgrees(t)'
    BY <1>2, <2>1, <2>2 DEF RowAgrees, InFlight, Known
  <2>6. QED
    BY <2>4, <2>5 DEF RowsAgree
<1>5. CASE EnqueueWrite
  <2>1. /\ rows' = [rows EXCEPT ![call.task] = AsRow(call.item)]
        /\ call' = Idle /\ UNCHANGED items /\ call.step = "write"
    BY <1>5 DEF EnqueueWrite, PersistEnqueue
  <2>2. PICK t \in Task : t = call.task
    BY <1>1
  <2>3. /\ rows'[t].status = call.item.status
        /\ \A u \in Task \ {t} : rows'[u] = rows[u] /\ ~InFlight(u)
    BY <1>1, <2>1, <2>2 DEF TypeOK, AsRow, InFlight
  <2>4. RowAgrees(t)'
    BY <2>1, <2>2, <2>3
       DEF RowsAgree, CallAgrees, NewTask, RowAgrees, EarlyStatus, Live, Recoverable
  <2>5. \A u \in Task \ {t} : RowAgrees(u)'
    BY <1>2, <2>1, <2>3 DEF RowAgrees, Known
  <2>6. CallAgrees'
    BY <2>1 DEF CallAgrees, Idle
  <2>7. QED
    BY <2>4, <2>5, <2>6 DEF RowsAgree
<1>6. CASE RemoveRow
  <2>1. /\ rows' = [rows EXCEPT ![call.task] = AsRow(NoItem)]
        /\ call' = Idle /\ UNCHANGED items /\ call.step = "delete"
    BY <1>6 DEF RemoveRow
  <2>2. PICK t \in Task : t = call.task
    BY <1>1
  <2>3. /\ items'[t].status = "absent"
        /\ \A u \in Task \ {t} : rows'[u] = rows[u] /\ ~InFlight(u)
    BY <1>1, <2>1, <2>2 DEF RowsAgree, CallAgrees, Known, TypeOK, InFlight
  <2>4. \A u \in Task : RowAgrees(u)'
    BY <1>2, <2>1, <2>3 DEF RowAgrees, Known
  <2>5. CallAgrees'
    BY <2>1 DEF CallAgrees, Idle
  <2>6. QED
    BY <2>4, <2>5 DEF RowsAgree
<1>7. QED
  BY <1>3, <1>4, <1>5, <1>6 DEF ApiContinue

LEMMA NextAgrees ==
  ASSUME TypeOK, InsertsFresh, RowsAgree, [Next]_vars
  PROVE  RowsAgree'
<1>1. TypeOK'
  BY NextTypeOK
<1>2. CASE UNCHANGED vars
  BY <1>2 DEF vars, RowsAgree, CallAgrees, NewTask, RowAgrees, InFlight, Known
<1>3. QED
  BY <1>1, <1>2, ApiStartAgrees, ApiContinueAgrees, WorkerNextAgrees DEF Next

LEMMA InitAgrees == Init => RowsAgree
BY DEF Init, Idle, NoItem, RowsAgree, CallAgrees, RowAgrees, Known

LEMMA AgreesRecoverable == RowsAgree => LiveTasksAreRecoverable
BY DEF RowsAgree, RowAgrees, LiveTasksAreRecoverable, Live, Known

(***************************************************************************)
(* A crash at any point, between any two calls or in the middle of one,    *)
(* finds every live task in the table under a status load_queue asks for,  *)
(* unless its enqueue or remove is still writing or wrote WAITING late.    *)
(***************************************************************************)
THEOREM LiveTasksHaveRows == Spec => []LiveTasksAreRecoverable
<1>1. Init => RowsAgree
  BY InitAgrees
<1>2. TypeOK /\ InsertsFresh /\ RowsAgree /\ [Next]_vars => RowsAgree'
  BY NextAgrees
<1>3. QED
  BY <1>1, <1>2, AgreesRecoverable, TypeCorrect, FreshAlways, PTL DEF Spec

------------------------------------------------------------------------------
(* Crashes and restarts.  While the server runs, the rows agree with the    *)
(* items; a crash turns that into a statement about what the tasks were,    *)
(* which load_queue keeps row by row, its own crashes included.             *)

\* A step of the whole is a call while the server runs, or changes the mode.
LEMMA RecoverySteps ==
  ASSUME [RecoveryNext]_restartVars
  PROVE  \/ [Next]_vars /\ mode = "up" /\ UNCHANGED <<mode, toLoad, before>>
         \/ Crash \/ Restart \/ (\E t \in Task : LoadRow(t)) \/ LoadDone
         \/ UNCHANGED <<vars, mode, toLoad, before>>
<1>1. OperatorStep => ApiStart /\ mode = "up" /\ UNCHANGED <<mode, toLoad, before>>
  <2>1. Hold => ApiStart /\ mode = "up" /\ UNCHANGED <<mode, toLoad, before>>
    BY DEF Hold, Running, ApiStart
  <2>2. LiftHold => ApiStart /\ mode = "up" /\ UNCHANGED <<mode, toLoad, before>>
    BY DEF LiftHold, Running, ApiStart
  <2>3. Enqueue => ApiStart /\ mode = "up" /\ UNCHANGED <<mode, toLoad, before>>
    BY DEF Enqueue, Running, ApiStart
  <2>4. Adjust => ApiStart /\ mode = "up" /\ UNCHANGED <<mode, toLoad, before>>
    BY DEF Adjust, Running, ApiStart
  <2>5. QED
    BY <2>1, <2>2, <2>3, <2>4 DEF OperatorStep
<1>2. ServerStep => Next /\ mode = "up" /\ UNCHANGED <<mode, toLoad, before>>
  BY DEF ServerStep, Running, Next
<1>3. QED
  BY <1>1, <1>2 DEF RecoveryNext, LoadStep, Next, restartVars, recoveryVars

LEMMA HeldTyped ==
  ASSUME held \subseteq Task, [RecoveryNext]_restartVars
  PROVE  held' \subseteq Task
BY DEF RecoveryNext, OperatorStep, Hold, LiftHold, Enqueue, Adjust, ServerStep,
       Crash, LoadStep, Restart, LoadRow, LoadDone, restartVars, recoveryVars

\* What load_queue puts in memory and in the table is an item and a row.
LEMMA LoadedTyped ==
  ASSUME NEW r \in Row, NEW n \in Nat
  PROVE  /\ LoadedItem(r, n) \in QueueItem
         /\ LoadedRow(r) \in Row
<1>1. LoadedItem(r, n) \in QueueItem
  BY DEF LoadedItem, LoadedStatus, Row, QueueItem, QueueStatus
<1>2. LoadedRow(r) \in Row
  BY DEF LoadedRow, Row, QueueStatus
<1>3. QED
  BY <1>1, <1>2

LEMMA RecoveryStepTyped ==
  ASSUME RecoveryTypeOK, [RecoveryNext]_restartVars
  PROVE  RecoveryTypeOK'
<1> USE DEF RecoveryTypeOK
<1>1. held' \subseteq Task
  BY HeldTyped
<1>2. CASE [Next]_vars /\ UNCHANGED <<mode, toLoad, before>>
  BY <1>1, <1>2, NextTypeOK
<1>3. CASE Crash
  <2>1. before' \in [Task -> QueueStatus \cup {"absent"}]
    BY <1>3 DEF Crash, TypeOK, QueueItem
  <2>2. AsRow(NoItem) \in Row /\ NoItem \in QueueItem /\ Idle \in Call
    BY NoItemTyped, AsRowTyped, IdleTyped
  <2>3. TypeOK'
    BY <1>3, <2>2 DEF Crash, TypeOK
  <2>4. QED
    BY <1>1, <1>3, <2>1, <2>3 DEF Crash
<1>4. CASE Restart \/ LoadDone
  <2>1. UNCHANGED <<items, heap, counter, rows, call, handed, owed>>
    BY <1>4 DEF Restart, LoadDone, vars
  <2>2. TypeOK'
    BY <2>1 DEF TypeOK
  <2>3. QED
    BY <1>1, <1>4, <2>2 DEF Restart, LoadDone
<1>5. ASSUME NEW t \in Task, LoadRow(t) PROVE RecoveryTypeOK'
  <2>1. rows[t] \in Row /\ counter \in Nat /\ rows[t].priority \in Int
    BY DEF TypeOK, Row
  <2>2. heap' \subseteq HeapEntry /\ counter' \in Nat
    BY <1>5, <2>1, PushTyped DEF LoadRow
  <2>3. items' \in [Task -> QueueItem] /\ rows' \in [Task -> Row]
    BY <1>5, <2>1, LoadedTyped DEF LoadRow, TypeOK
  <2>4. QED
    BY <1>1, <1>5, <2>2, <2>3 DEF LoadRow, TypeOK
<1>6. CASE UNCHANGED <<vars, mode, toLoad, before>>
  BY <1>1, <1>6 DEF vars, TypeOK
<1>7. QED
  BY <1>2, <1>3, <1>4, <1>5, <1>6, RecoverySteps

(***************************************************************************)
(* The state is well typed over any number of crashes and restarts.        *)
(***************************************************************************)
THEOREM RecoveryTypeCorrect == RecoverySpec => []RecoveryTypeOK
<1>1. RecoveryInit => RecoveryTypeOK
  BY InitTypeOK DEF RecoveryInit, RecoveryTypeOK
<1>2. RecoveryTypeOK /\ [RecoveryNext]_restartVars => RecoveryTypeOK'
  BY RecoveryStepTyped
<1>3. QED
  BY <1>1, <1>2, PTL DEF RecoverySpec

\* What t was when the server died is still to be told from its row.
Remembered(t) ==
  /\ before[t] \in Live => rows[t].status \in Recoverable \cup {"waiting"}
  /\ before[t] \in {"cancelled", "waiting"} => rows[t].status \notin Recoverable

\* A row load_queue has handled has its task in memory, and one that it would
\* find is handled or fetched.
LoadAgrees(t) ==
  /\ Known(t) => rows[t].status \in Recoverable /\ items[t].status \in {"queued", "paused"}
  /\ rows[t].status \in Recoverable => t \in toLoad \/ Known(t)

RecoveryAgrees ==
  /\ InsertsFresh
  /\ mode # "up" => call = Idle /\ \A t \in Task : Remembered(t)
  /\ mode = "up" => RowsAgree
  /\ mode = "down" => \A t \in Task : ~Known(t)
  /\ mode = "loading" => \A t \in Task : LoadAgrees(t)
  /\ mode # "loading" => toLoad = {}
  /\ \A t \in toLoad : rows[t].status \in Recoverable

LEMMA CrashAgrees ==
  ASSUME RecoveryTypeOK, RecoveryAgrees, Crash
  PROVE  RecoveryAgrees'
<1>1. /\ mode' = "down" /\ call' = Idle /\ toLoad' = {} /\ UNCHANGED rows
      /\ \A t \in Task : items'[t].status = "absent"
  BY DEF Crash, NoItem
<1>2. ASSUME NEW t \in Task PROVE Remembered(t)'
  <2>1. CASE mode = "loading"
    BY <1>1, <2>1 DEF Crash, RecoveryAgrees, Remembered
  <2>2. CASE mode = "up" /\ ~Unsettled(t)
    <3>1. before'[t] = items[t].status /\ RowAgrees(t) /\ ~InFlight(t)
      BY <2>2 DEF Crash, RecoveryAgrees, RowsAgree, Unsettled, InFlight
    <3>2. QED
      BY <1>1, <3>1 DEF RowAgrees, Remembered, Known, Live
  <2>3. CASE mode = "up" /\ Unsettled(t)
    <3>1. before'[t] = "absent"
      BY <2>3 DEF Crash
    <3>2. QED
      BY <3>1 DEF Remembered, Live
  <2>4. QED
    BY <2>1, <2>2, <2>3 DEF Crash, RecoveryTypeOK
<1>3. InsertsFresh'
  BY <1>1 DEF InsertsFresh, Idle
<1>4. QED
  BY <1>1, <1>2, <1>3 DEF RecoveryAgrees, Known

LEMMA LoadRowAgrees ==
  ASSUME RecoveryTypeOK, RecoveryAgrees, NEW t \in Task, LoadRow(t)
  PROVE  RecoveryAgrees'
<1>1. /\ mode = "loading" /\ mode' = "loading" /\ call' = call /\ before' = before
      /\ call = Idle /\ t \in toLoad /\ toLoad' = toLoad \ {t}
      /\ rows[t].status \in Recoverable
  BY DEF LoadRow, RecoveryAgrees
<1>2. /\ items'[t].status \in {"queued", "paused"} /\ rows'[t].status = "queued"
      /\ \A u \in Task \ {t} : items'[u] = items[u] /\ rows'[u] = rows[u]
  <2>1. items' = [items EXCEPT ![t] = LoadedItem(rows[t], counter)]
        /\ rows' = [rows EXCEPT ![t] = LoadedRow(rows[t])]
    BY DEF LoadRow
  <2>2. /\ LoadedItem(rows[t], counter).status \in {"queued", "paused"}
        /\ LoadedRow(rows[t]).status = "queued"
    BY DEF LoadedItem, LoadedStatus, LoadedRow, RecoveryTypeOK, TypeOK, Row
  <2>3. QED
    BY <2>1, <2>2 DEF RecoveryTypeOK, TypeOK
<1>3. \A u \in Task : Remembered(u)'
  BY <1>1, <1>2 DEF RecoveryAgrees, Remembered, Recoverable
<1>4. \A u \in Task : LoadAgrees(u)'
  BY <1>1, <1>2 DEF RecoveryAgrees, LoadAgrees, Known, Recoverable
<1>5. \A u \in toLoad' : rows'[u].status \in Recoverable
  BY <1>1, <1>2 DEF RecoveryAgrees, RecoveryTypeOK
<1>6. InsertsFresh'
  BY <1>1 DEF InsertsFresh, Idle
<1>7. QED
  BY <1>1, <1>3, <1>4, <1>5, <1>6 DEF RecoveryAgrees

LEMMA LoadDoneAgrees ==
  ASSUME RecoveryTypeOK, RecoveryAgrees, LoadDone
  PROVE  RecoveryAgrees'
<1>1. /\ mode = "loading" /\ mode' = "up" /\ UNCHANGED <<items, rows, call, owed, toLoad>>
      /\ call = Idle /\ toLoad = {}
  BY DEF LoadDone, RecoveryAgrees, vars
<1>2. \A t \in Task : RowAgrees(t)'
  BY <1>1 DEF RecoveryAgrees, LoadAgrees, RowAgrees, Known, Recoverable
<1>3. CallAgrees' /\ InsertsFresh'
  BY <1>1 DEF CallAgrees, InsertsFresh, Idle
<1>4. QED
  BY <1>1, <1>2, <1>3 DEF RecoveryAgrees, RowsAgree

LEMMA RecoveryStepAgrees ==
  ASSUME RecoveryTypeOK, RecoveryAgrees, [RecoveryNext]_restartVars
  PROVE  RecoveryAgrees'
<1>1. CASE [Next]_vars /\ mode = "up" /\ UNCHANGED <<mode, toLoad, before>>
  <2>1. TypeOK /\ InsertsFresh /\ RowsAgree /\ toLoad = {}
    BY <1>1 DEF RecoveryAgrees, RecoveryTypeOK
  <2>2. InsertsFresh' /\ RowsAgree'
    BY <1>1, <2>1, NextInsertsFresh, NextAgrees
  <2>3. QED
    BY <1>1, <2>1, <2>2 DEF RecoveryAgrees
<1>2. CASE Restart
  <2>1. /\ mode = "down" /\ mode' = "loading"
        /\ toLoad' = {t \in Task : rows[t].status \in Recoverable}
        /\ UNCHANGED <<items, rows, call, owed, before>>
    BY <1>2 DEF Restart, vars
  <2>2. QED
    BY <2>1 DEF RecoveryAgrees, LoadAgrees, Remembered, Known, InsertsFresh
<1>3. CASE UNCHANGED <<vars, mode, toLoad, before>>
  <2>1. UNCHANGED <<items, rows, call, owed, mode, toLoad, before>>
    BY <1>3 DEF vars
  <2>2. QED
    BY <2>1 DEF RecoveryAgrees, RowsAgree, CallAgrees, NewTask, RowAgrees, InFlight,
       LoadAgrees, Remembered, Known, InsertsFresh
<1>4. QED
  BY <1>1, <1>2, <1>3, RecoverySteps, CrashAgrees, LoadRowAgrees, LoadDoneAgrees

LEMMA RecoveryAlwaysAgrees == RecoverySpec => []RecoveryAgrees
<1>1. RecoveryInit => RecoveryAgrees
  <2> SUFFICES ASSUME RecoveryInit PROVE RecoveryAgrees
    OBVIOUS
  <2>1. RowsAgree /\ InsertsFresh
    BY InitAgrees DEF RecoveryInit, Init, Idle, InsertsFresh
  <2>2. QED
    BY <2>1 DEF RecoveryInit, RecoveryAgrees
<1>2. RecoveryTypeOK /\ RecoveryAgrees /\ [RecoveryNext]_restartVars => RecoveryAgrees'
  BY RecoveryStepAgrees
<1>3. QED
  BY <1>1, <1>2, RecoveryTypeCorrect, PTL DEF RecoverySpec

(***************************************************************************)
(* Every live task has a row load_queue would find while the server runs,  *)
(* and recovery makes no row unrecoverable: a second crash in the middle   *)
(* of it loses no more than the first.                                     *)
(***************************************************************************)
THEOREM CrashesLoseNoRow == RecoverySpec => []RowsStayRecoverable
<1>1. RecoveryAgrees => RowsStayRecoverable
  BY AgreesRecoverable DEF RecoveryAgrees, LoadAgrees, RowsStayRecoverable
<1>2. QED
  BY <1>1, RecoveryAlwaysAgrees, PTL

(***************************************************************************)
(* Every task that was live when the server died is back when recovery     *)
(* ends, after any number of crashes of the recovery itself.               *)
(***************************************************************************)
THEOREM LiveTasksComeBack == RecoverySpec => LiveTasksReturn
<1> DEFINE Back == LoadDone =>
      \A t \in Task : before[t] \in Live /\ rows[t].status # "waiting" => Known(t)
<1>1. RecoveryAgrees => Back
  BY DEF RecoveryAgrees, Remembered, LoadAgrees, LoadDone
<1>2. QED
  BY <1>1, RecoveryAlwaysAgrees, PTL DEF LiveTasksReturn

(***************************************************************************)
(* No task that was cancelled or waiting when the server died is loaded.   *)
(***************************************************************************)
THEOREM CancelledIsNotLoaded == RecoverySpec => CancelledStaysCancelled
<1> DEFINE Stays == \A t \in Task : LoadRow(t) => before[t] \notin {"cancelled", "waiting"}
<1>1. RecoveryAgrees => Stays
  BY DEF RecoveryAgrees, Remembered, LoadRow
<1>2. QED
  BY <1>1, RecoveryAlwaysAgrees, PTL DEF CancelledStaysCancelled

------------------------------------------------------------------------------
(* The workers.                                                            *)

\* A thread that runs a task for a worker.
BusyRunner ==
  [pc : {"call", "execute", "done", "failed", "release"}, task : Task, worker : Worker]

\* agents and current play no part in the proofs.
WorkerTyped ==
  /\ made \in Nat
  /\ stopEvent \in [Worker -> BOOLEAN]
  /\ loop \in [Worker -> {"unborn", "check", "pop", "spawn", "ended"}]
  /\ \A w \in Worker : w > made => loop[w] = "unborn"
  /\ taken \in [Worker -> Task \cup {NoTask}]
  /\ \A w \in Worker : loop[w] = "spawn" => taken[w] \in Task
  /\ active \in [Worker -> Int]
  /\ runner \in [Runner -> BusyRunner \cup {FreeRunner}]
  /\ requeued \in [Task -> Nat]

\* The reports of the runners, the worker's other calls than pop_next.
Reports == \E t \in Task : MarkDone(t) \/ MarkFailed(t) \/ ReportRemoved(t)

\* What the scheduler does without handing out a task.
OtherCalls == ApiStart \/ ApiContinue \/ Reports \/ UNCHANGED vars

(***************************************************************************)
(* A step of the whole is a step of the scheduler, or leaves it alone.     *)
(***************************************************************************)
LEMMA HandlerCalls ==
  ASSUME Handler
  PROVE  ApiStart
BY DEF Handler, Requeue, OtherCall, ApiStart

LEMMA RunnerTask ==
  ASSUME WorkerTyped, NEW r \in Runner, ~At(r, "free")
  PROVE  runner[r] \in BusyRunner
BY DEF WorkerTyped, At, FreeRunner

LEMMA ReportReports ==
  ASSUME WorkerTyped, NEW r \in Runner, Report(r)
  PROVE  /\ runner[r] \in BusyRunner
         /\ \/ MarkDone(runner[r].task) \/ MarkFailed(runner[r].task)
            \/ ReportRemoved(runner[r].task)
<1>1. ~At(r, "free")
  BY DEF Report, At
<1>2. QED
  BY <1>1, RunnerTask DEF Report

LEMMA SchedulerSteps ==
  ASSUME WorkerTyped, [WorkerSystemNext]_allVars
  PROVE  \/ OtherCalls
         \/ \E w \in Worker : LoopPop(w)
<1>1. CASE Handler \/ HandlerContinues
  BY <1>1, HandlerCalls DEF HandlerContinues, OtherCalls
<1>2. ASSUME NEW r \in Runner, Report(r) PROVE OtherCalls
  <2>1. runner[r].task \in Task
    BY <1>2, ReportReports DEF BusyRunner
  <2>2. QED
    BY <1>2, <2>1, ReportReports DEF OtherCalls, Reports
<1>3. ASSUME NEW r \in Runner, StartFn(r) \/ StartFnEnds(r) \/ Release(r) PROVE OtherCalls
  BY <1>3 DEF StartFn, StartFnEnds, Release, OtherCalls
<1>4. ASSUME NEW w \in Worker, LoopCheck(w) \/ LoopSpawn(w) PROVE OtherCalls
  BY <1>4 DEF LoopCheck, LoopSpawn, OtherCalls
<1>5. CASE InitWorker \/ StopWorker \/ \E t \in Task : AgentEnds(t)
  BY <1>5 DEF InitWorker, StopWorker, AgentEnds, OtherCalls
<1>6. CASE UNCHANGED allVars
  BY <1>6 DEF allVars, OtherCalls
<1>7. QED
  BY <1>1, <1>2, <1>3, <1>4, <1>5, <1>6
     DEF WorkerSystemNext, ThreadNext, LoopStep, RunnerStep

LEMMA SchedulerTyped ==
  ASSUME TypeOK, OtherCalls \/ PopNext
  PROVE  TypeOK'
<1>1. [Next]_vars
  BY DEF OtherCalls, Reports, Next, WorkerNext
<1>2. QED
  BY <1>1, NextTypeOK

------------------------------------------------------------------------------
(* Types *)

LEMMA WorkerInitTyped == WorkerInit => WorkerTyped
BY DEF WorkerInit, WorkerTyped

\* The steps of a runner keep it typed.
LEMMA RunnerGoes ==
  ASSUME WorkerTyped, NEW r \in Runner, runner[r] \in BusyRunner,
         NEW pc \in {"call", "execute", "done", "failed", "release"}, Goto(r, pc)
  PROVE  runner' \in [Runner -> BusyRunner \cup {FreeRunner}]
<1>1. [runner[r] EXCEPT !.pc = pc] \in BusyRunner
  BY DEF BusyRunner
<1>2. QED
  BY <1>1 DEF WorkerTyped, Goto

LEMMA WorkerStepTyped ==
  ASSUME TypeOK, WorkerTyped, [WorkerSystemNext]_allVars
  PROVE  WorkerTyped'
<1> USE DEF WorkerTyped
<1>1. CASE Handler
  <2>1. requeued' \in [Task -> Nat]
    <3>1. CASE Requeue
      <4>1. PICK t \in Task :
              requeued' = [requeued EXCEPT ![t] = @ + (IF owed[t] > 0 THEN 1 ELSE 0)]
        BY <3>1 DEF Requeue
      <4>2. QED
        BY <4>1
    <3>2. CASE OtherCall
      BY <3>2 DEF OtherCall
    <3>3. QED
      BY <1>1, <3>1, <3>2 DEF Handler
  <2>2. QED
    BY <1>1, <2>1 DEF Handler
<1>2. CASE HandlerContinues
  BY <1>2 DEF HandlerContinues, workerVars
<1>3. CASE InitWorker
  <2>1. stopEvent' \in [Worker -> BOOLEAN]
    BY <1>3 DEF InitWorker, Stopped
  <2>2. /\ loop' \in [Worker -> {"unborn", "check", "pop", "spawn", "ended"}]
        /\ \A w \in Worker : loop'[w] = "spawn" => loop[w] = "spawn"
    BY <1>3 DEF InitWorker
  <2>3. \A w \in Worker : w > made' => loop'[w] = "unborn"
    BY <1>3 DEF InitWorker, Worker
  <2>4. QED
    BY <1>3, <2>1, <2>2, <2>3 DEF InitWorker
<1>4. CASE StopWorker
  BY <1>4 DEF StopWorker, Stopped
<1>5. ASSUME NEW w \in Worker, LoopCheck(w) PROVE WorkerTyped'
  BY <1>5 DEF LoopCheck
<1>6. ASSUME NEW w \in Worker, LoopPop(w) PROVE WorkerTyped'
  <2>1. handed' \in Task \cup {NoTask}
    BY <1>6, PopNextTypeOK DEF LoopPop, TypeOK
  <2>2. AfterPop(w, handed') \in {"check", "spawn"}
        /\ (AfterPop(w, handed') = "spawn" => handed' # NoTask)
    BY DEF AfterPop
  <2>3. QED
    BY <1>6, <2>1, <2>2 DEF LoopPop
<1>7. ASSUME NEW w \in Worker, LoopSpawn(w) PROVE WorkerTyped'
  <2>1. PICK r \in Runner : runner' = [runner EXCEPT ![r] =
                              [pc |-> "call", task |-> taken[w], worker |-> w]]
    BY <1>7 DEF LoopSpawn
  <2>2. [pc |-> "call", task |-> taken[w], worker |-> w] \in BusyRunner
    BY <1>7 DEF LoopSpawn, BusyRunner
  <2>3. runner' \in [Runner -> BusyRunner \cup {FreeRunner}]
    BY <2>1, <2>2
  <2>4. QED
    BY <1>7, <2>3 DEF LoopSpawn
<1>8. ASSUME NEW r \in Runner, StartFn(r) PROVE WorkerTyped'
  <2>1. runner[r] \in BusyRunner
    BY <1>8, RunnerTask DEF StartFn, At
  <2>2. PICK pc \in {"execute", "done", "failed"} : Goto(r, pc)
    BY <1>8 DEF StartFn
  <2>3. runner' \in [Runner -> BusyRunner \cup {FreeRunner}]
    BY <2>1, <2>2, RunnerGoes
  <2>4. QED
    BY <1>8, <2>3 DEF StartFn
<1>9. ASSUME NEW r \in Runner, StartFnEnds(r) PROVE WorkerTyped'
  <2>1. runner[r] \in BusyRunner
    BY <1>9, RunnerTask DEF StartFnEnds, At
  <2>2. PICK pc \in {"done", "failed"} : Goto(r, pc)
    BY <1>9 DEF StartFnEnds
  <2>3. runner' \in [Runner -> BusyRunner \cup {FreeRunner}]
    BY <2>1, <2>2, RunnerGoes
  <2>4. QED
    BY <1>9, <2>3 DEF StartFnEnds
<1>10. ASSUME NEW t \in Task, AgentEnds(t) PROVE WorkerTyped'
  BY <1>10 DEF AgentEnds
<1>11. ASSUME NEW r \in Runner, Report(r) PROVE WorkerTyped'
  <2>1. runner' \in [Runner -> BusyRunner \cup {FreeRunner}]
    BY <1>11, ReportReports, RunnerGoes DEF Report
  <2>2. QED
    BY <1>11, <2>1 DEF Report
<1>12. ASSUME NEW r \in Runner, Release(r) PROVE WorkerTyped'
  <2>1. runner' \in [Runner -> BusyRunner \cup {FreeRunner}]
    BY <1>12 DEF Release
  <2>2. PICK w \in Worker : w = runner[r].worker
    BY <1>12, RunnerTask DEF Release, At, BusyRunner
  <2>3. active' \in [Worker -> Int]
    BY <1>12, <2>2 DEF Release
  <2>4. QED
    BY <1>12, <2>1, <2>3 DEF Release
<1>13. CASE UNCHANGED allVars
  BY <1>13 DEF allVars, workerVars
<1>14. QED
  BY <1>1, <1>2, <1>3, <1>4, <1>5, <1>6, <1>7, <1>8, <1>9, <1>10, <1>11, <1>12, <1>13
     DEF WorkerSystemNext, ThreadNext, LoopStep, RunnerStep

(***************************************************************************)
(* The state is well typed in every behaviour; in particular a loop that   *)
(* starts a thread has a task for it, after any stop or replacement.       *)
(***************************************************************************)
THEOREM WorkerTypeCorrect == WorkerSpec => [](TypeOK /\ WorkerTyped)
<1>1. WorkerInit => TypeOK /\ WorkerTyped
  BY InitTypeOK, WorkerInitTyped DEF WorkerInit
<1>2. TypeOK /\ WorkerTyped /\ [WorkerSystemNext]_allVars => (TypeOK /\ WorkerTyped)'
  BY WorkerStepTyped, SchedulerSteps, SchedulerTyped DEF LoopPop
<1>3. QED
  BY <1>1, <1>2, PTL DEF WorkerSpec

LEMMA StepIsSchedulerStep ==
  ASSUME WorkerTyped, [WorkerSystemNext]_allVars
  PROVE  [Next]_vars
BY SchedulerSteps DEF OtherCalls, Reports, LoopPop, Next, WorkerNext

(***************************************************************************)
(* Handlers, loops and threads together use the scheduler only as its own  *)
(* specification allows, so what is proved of the scheduler alone (no ready *)
(* task lost, the most urgent one taken, every live task in the table, the  *)
(* pool of ready tasks implemented) holds with any number of workers.       *)
(***************************************************************************)
THEOREM WorkersUseScheduler == WorkerSpec => Spec
<1>1. WorkerInit => Init
  BY DEF WorkerInit
<1>2. WorkerTyped /\ [WorkerSystemNext]_allVars => [Next]_vars
  BY StepIsSchedulerStep
<1>3. QED
  BY <1>1, <1>2, WorkerTypeCorrect, PTL DEF WorkerSpec, Spec

------------------------------------------------------------------------------
(* The threads and the slots of a worker.  A loop that has seen room keeps   *)
(* it until it starts its thread: only that loop raises the worker's count.  *)

Slots ==
  \A w \in Worker :
    /\ IsFiniteSet(StartedBy(w))
    /\ active[w] = Cardinality(StartedBy(w))
    /\ active[w] <= MaxConcurrency
    /\ loop[w] \in {"pop", "spawn"} => active[w] < MaxConcurrency

\* Steps that start and release no thread.
LEMMA SlotsKept ==
  ASSUME Slots, UNCHANGED active, \A w \in Worker : StartedBy(w)' = StartedBy(w),
         \A w \in Worker : loop'[w] \in {"pop", "spawn"} =>
                             loop[w] \in {"pop", "spawn"} \/ active[w] < MaxConcurrency
  PROVE  Slots'
BY DEF Slots

LEMMA RunnerKeepsStarted ==
  ASSUME WorkerTyped, NEW r \in Runner, runner[r] \in BusyRunner,
         NEW pc \in {"execute", "done", "failed", "release"}, Goto(r, pc)
  PROVE  \A w \in Worker : StartedBy(w)' = StartedBy(w)
<1>1. runner'[r].pc # "free" /\ runner'[r].worker = runner[r].worker /\ ~At(r, "free")
  BY DEF WorkerTyped, Goto, At, BusyRunner
<1>2. \A q \in Runner \ {r} : runner'[q] = runner[q]
  BY DEF WorkerTyped, Goto
<1>3. QED
  BY <1>1, <1>2 DEF StartedBy, At

LEMMA SpawnTakesSlot ==
  ASSUME WorkerTyped, Slots, NEW w \in Worker, LoopSpawn(w)
  PROVE  Slots'
<1>1. PICK r \in Runner :
        /\ runner[r] = FreeRunner
        /\ runner' = [runner EXCEPT ![r] =
                        [pc |-> "call", task |-> taken[w], worker |-> w]]
  BY DEF LoopSpawn
<1>2. \A q \in Runner \ {r} : runner'[q] = runner[q]
  BY <1>1 DEF WorkerTyped
<1>3. runner'[r] = [pc |-> "call", task |-> taken[w], worker |-> w]
  BY <1>1 DEF WorkerTyped
<1>4. \A v \in Worker : r \notin StartedBy(v)
  BY <1>1 DEF StartedBy, At, FreeRunner
<1>5. StartedBy(w)' = StartedBy(w) \cup {r}
  BY <1>2, <1>3 DEF StartedBy, At
<1>6. \A v \in Worker \ {w} : StartedBy(v)' = StartedBy(v)
  BY <1>2, <1>3, <1>4 DEF StartedBy, At
<1>7. /\ IsFiniteSet(StartedBy(w)')
      /\ Cardinality(StartedBy(w)') = Cardinality(StartedBy(w)) + 1
  BY <1>4, <1>5, FS_AddElement DEF Slots
<1>8. /\ active'[w] = active[w] + 1 /\ loop[w] = "spawn" /\ loop'[w] = "check"
      /\ \A v \in Worker \ {w} : active'[v] = active[v] /\ loop'[v] = loop[v]
  BY DEF LoopSpawn, WorkerTyped
<1>9. active[w] \in Int /\ active[w] < MaxConcurrency
  BY <1>8 DEF Slots, WorkerTyped
<1>10. QED
  BY <1>6, <1>7, <1>8, <1>9, WorkerAssumption DEF Slots

LEMMA ReleaseFreesSlot ==
  ASSUME WorkerTyped, Slots, NEW r \in Runner, Release(r)
  PROVE  Slots'
<1>1. runner[r] \in BusyRunner /\ runner[r].pc = "release"
  BY RunnerTask DEF Release, At
<1>2. PICK w \in Worker : w = runner[r].worker
  BY <1>1 DEF BusyRunner
<1>3. /\ runner'[r] = FreeRunner
      /\ \A q \in Runner \ {r} : runner'[q] = runner[q]
  BY DEF Release, WorkerTyped
<1>4. r \in StartedBy(w) /\ StartedBy(w)' = StartedBy(w) \ {r}
  BY <1>1, <1>2, <1>3 DEF StartedBy, At, FreeRunner
<1>5. \A v \in Worker \ {w} : StartedBy(v)' = StartedBy(v)
  BY <1>1, <1>2, <1>3 DEF StartedBy, At, FreeRunner
<1>6. /\ IsFiniteSet(StartedBy(w)')
      /\ Cardinality(StartedBy(w)') = Cardinality(StartedBy(w)) - 1
  BY <1>4, FS_RemoveElement DEF Slots
<1>7. /\ active'[w] = active[w] - 1 /\ loop' = loop
      /\ \A v \in Worker \ {w} : active'[v] = active[v]
  BY <1>2 DEF Release, WorkerTyped
<1>8. active[w] \in Int
  BY DEF WorkerTyped
<1>9. QED
  BY <1>5, <1>6, <1>7, <1>8, WorkerAssumption DEF Slots

LEMMA StepKeepsSlots ==
  ASSUME WorkerTyped, Slots, [WorkerSystemNext]_allVars
  PROVE  Slots'
<1>1. ASSUME UNCHANGED <<loop, active, runner>> PROVE Slots'
  BY <1>1, SlotsKept DEF StartedBy, At
<1>2. CASE Handler \/ HandlerContinues \/ StopWorker
           \/ (\E t \in Task : AgentEnds(t)) \/ UNCHANGED allVars
  BY <1>1, <1>2 DEF Handler, HandlerContinues, StopWorker, AgentEnds, workerVars, allVars
<1>3. CASE InitWorker
  <2>1. \A w \in Worker : loop'[w] \in {"pop", "spawn"} => loop[w] \in {"pop", "spawn"}
    BY <1>3 DEF InitWorker, WorkerTyped
  <2>2. QED
    BY <1>3, <2>1, SlotsKept DEF InitWorker, StartedBy, At
<1>4. ASSUME NEW w \in Worker, LoopCheck(w) \/ LoopPop(w) PROVE Slots'
  <2>1. \A v \in Worker : loop'[v] \in {"pop", "spawn"} =>
                            loop[v] \in {"pop", "spawn"} \/ active[v] < MaxConcurrency
    BY <1>4 DEF LoopCheck, LoopPop, HasRoom, WorkerTyped
  <2>2. QED
    BY <1>4, <2>1, SlotsKept DEF LoopCheck, LoopPop, StartedBy, At
<1>5. ASSUME NEW r \in Runner, StartFn(r) \/ StartFnEnds(r) \/ Report(r) PROVE Slots'
  <2>1. runner[r] \in BusyRunner
    BY <1>5, RunnerTask DEF StartFn, StartFnEnds, Report, At
  <2>2. PICK pc \in {"execute", "done", "failed", "release"} : Goto(r, pc)
    BY <1>5 DEF StartFn, StartFnEnds, Report
  <2>3. UNCHANGED <<loop, active>>
    BY <1>5 DEF StartFn, StartFnEnds, Report
  <2>4. QED
    BY <2>1, <2>2, <2>3, RunnerKeepsStarted, SlotsKept
<1>6. QED
  BY <1>2, <1>3, <1>4, <1>5, SpawnTakesSlot, ReleaseFreesSlot
     DEF WorkerSystemNext, ThreadNext, LoopStep, RunnerStep

(***************************************************************************)
(* No worker ever runs more threads than WORKER_MAX_CONCURRENCY, and its   *)
(* count of them is exact, with any number of workers stopped while their  *)
(* loops go on.                                                            *)
(***************************************************************************)
THEOREM ActiveCounts == WorkerSpec => []ActiveIsExact
<1>1. WorkerInit => Slots
  <2> SUFFICES ASSUME WorkerInit PROVE Slots
    OBVIOUS
  <2>1. \A w \in Worker : StartedBy(w) = {}
    BY DEF WorkerInit, StartedBy, At, FreeRunner
  <2>2. QED
    BY <2>1, FS_EmptySet, WorkerAssumption DEF WorkerInit, Slots
<1>2. WorkerTyped /\ Slots /\ [WorkerSystemNext]_allVars => Slots'
  BY StepKeepsSlots
<1>3. Slots => ActiveIsExact
  BY DEF Slots, ActiveIsExact
<1>4. QED
  BY <1>1, <1>2, <1>3, WorkerTypeCorrect, PTL DEF WorkerSpec

------------------------------------------------------------------------------
(* What the handlers' calls do to the status and the debts of a task *)

\* A handler's call other than resume and retry makes no task ready to run.
LEMMA HandlerStatus ==
  ASSUME TypeOK, OtherCall, NEW t \in Task
  PROVE  /\ items'[t].status \in {"queued", "waiting", "running"} =>
              items'[t].status = items[t].status
         /\ UNCHANGED <<owed, requeued>>
<1>1. UNCHANGED <<owed, requeued>>
  BY DEF OtherCall, EnqueueCheck, Pause, Cancel, Remove, Reorder
<1>2. ASSUME UNCHANGED items PROVE items'[t].status = items[t].status
  BY <1>2
<1>3. ASSUME NEW u \in Task, Pause(u) \/ Cancel(u) \/ Remove(u)
      PROVE  items'[t].status \in {"queued", "waiting", "running"} =>
               items'[t].status = items[t].status
  BY <1>3 DEF Pause, Cancel, Remove, NoItem, TypeOK, QueueItem
<1>4. ASSUME NEW u \in Task, NEW p \in Priority, Reorder(u, p)
      PROVE  items'[t].status = items[t].status
  BY <1>4 DEF Reorder, TypeOK, QueueItem
<1>5. QED
  BY <1>1, <1>2, <1>3, <1>4 DEF OtherCall, EnqueueCheck

\* resume and retry make one task QUEUED or WAITING and change no other.
LEMMA RequeueStatus ==
  ASSUME TypeOK, WorkerTyped, Requeue
  PROVE  \E u \in Task :
           /\ items'[u].status \in {"queued", "waiting"}
           /\ owed[u] > 0 => requeued'[u] = requeued[u] + 1
           /\ requeued'[u] \in Nat
           /\ \A t \in Task \ {u} : items'[t] = items[t] /\ requeued'[t] = requeued[t]
           /\ UNCHANGED owed
<1>1. PICK u \in Task :
        /\ Resume(u) \/ Retry(u)
        /\ requeued' = [requeued EXCEPT ![u] = @ + (IF owed[u] > 0 THEN 1 ELSE 0)]
  BY DEF Requeue
<1>2. /\ owed[u] > 0 => requeued'[u] = requeued[u] + 1
      /\ requeued'[u] \in Nat
      /\ \A t \in Task \ {u} : requeued'[t] = requeued[t]
  BY <1>1 DEF WorkerTyped
<1>3. /\ items'[u].status \in {"queued", "waiting"}
      /\ \A t \in Task \ {u} : items'[t] = items[t]
      /\ UNCHANGED owed
  <2>1. CASE Resume(u)
    BY <2>1 DEF Resume, TypeOK, QueueItem
  <2>2. CASE Retry(u)
    BY <2>2 DEF Retry, TypeOK, QueueItem
  <2>3. QED
    BY <1>1, <2>1, <2>2
<1>4. QED
  BY <1>2, <1>3

------------------------------------------------------------------------------
(* A RUNNING task and its thread *)

\* A step that hands out nothing and reports nothing makes no task RUNNING.
LEMMA NothingStartsRunning ==
  ASSUME TypeOK, WorkerTyped, InsertsFresh, NEW t \in Task,
         Handler \/ HandlerContinues \/ UNCHANGED vars,
         items'[t].status = "running"
  PROVE  items[t].status = "running"
<1>1. CASE Handler
  <2>1. CASE OtherCall
    BY <2>1, HandlerStatus
  <2>2. CASE Requeue
    BY <2>2, RequeueStatus
  <2>3. QED
    BY <1>1, <2>1, <2>2 DEF Handler
<1>2. CASE HandlerContinues
  <2>1. ApiContinue
    BY <1>2 DEF HandlerContinues
  <2>2. QED
    BY <2>1, ContinueStatus DEF InsertsFresh
<1>3. CASE UNCHANGED vars
  BY <1>3 DEF vars
<1>4. QED
  BY <1>1, <1>2, <1>3

\* A thread other than a reporting one goes on owing what it owes.
LEMMA OwingKept ==
  ASSUME WorkerTyped, NEW t \in Task, NEW r \in Runner,
         \A q \in Runner \ {r} : runner'[q] = runner[q],
         r \in Owing(t) => r \in Owing(t)', Owing(t) # {}
  PROVE  Owing(t)' # {}
BY DEF Owing

LEMMA StepKeepsRunner ==
  ASSUME TypeOK, WorkerTyped, InsertsFresh, RunningHasRunner,
         [WorkerSystemNext]_allVars
  PROVE  RunningHasRunner'
<1> SUFFICES ASSUME NEW t \in Task, items'[t].status = "running"
             PROVE  Owing(t)' # {} \/ \E w \in Worker : loop'[w] = "spawn" /\ taken'[w] = t
  BY DEF RunningHasRunner
<1> DEFINE Had == Owing(t) # {} \/ \E w \in Worker : loop[w] = "spawn" /\ taken[w] = t
           Has == Owing(t)' # {} \/ \E w \in Worker : loop'[w] = "spawn" /\ taken'[w] = t
<1>1. items[t].status = "running" => Had
  BY DEF RunningHasRunner
<1>2. ASSUME UNCHANGED <<runner, loop, taken>> PROVE Had => Has
  BY <1>2 DEF Owing
<1>3. CASE Handler \/ HandlerContinues \/ StopWorker
           \/ (\E u \in Task : AgentEnds(u)) \/ UNCHANGED allVars
  <2>1. UNCHANGED <<runner, loop, taken>> /\ (Handler \/ HandlerContinues \/ UNCHANGED vars)
    BY <1>3 DEF Handler, HandlerContinues, StopWorker, AgentEnds, workerVars, allVars
  <2>2. QED
    BY <1>1, <1>2, <2>1, NothingStartsRunning
<1>4. CASE InitWorker
  <2>1. items' = items /\ runner' = runner /\ taken' = taken
    BY <1>4 DEF InitWorker, vars
  <2>2. \A w \in Worker : loop[w] = "spawn" => loop'[w] = "spawn"
    BY <1>4 DEF InitWorker, WorkerTyped
  <2>3. QED
    BY <1>1, <2>1, <2>2 DEF Owing
<1>5. ASSUME NEW v \in Worker, LoopCheck(v) PROVE Has
  <2>1. items' = items /\ runner' = runner /\ taken' = taken
    BY <1>5 DEF LoopCheck, vars
  <2>2. \A w \in Worker : loop[w] = "spawn" => loop'[w] = "spawn"
    BY <1>5 DEF LoopCheck, WorkerTyped
  <2>3. QED
    BY <1>1, <2>1, <2>2 DEF Owing
<1>6. ASSUME NEW v \in Worker, LoopPop(v) PROVE Has
  <2>1. PopNext /\ runner' = runner /\ loop[v] = "pop"
    BY <1>6 DEF LoopPop
  <2>2. \A w \in Worker \ {v} : loop'[w] = loop[w] /\ taken'[w] = taken[w]
    BY <1>6 DEF LoopPop, WorkerTyped
  <2>3. CASE handed' = t
    <3>1. loop'[v] = "spawn" /\ taken'[v] = t
      BY <1>6, <2>3, TaskAssumption DEF LoopPop, AfterPop, WorkerTyped
    <3>2. QED
      BY <3>1
  <2>4. CASE items[t].status = "running"
    <3>1. Had
      BY <1>1, <2>4
    <3>2. QED
      BY <2>1, <2>2, <3>1 DEF Owing
  <2>5. QED
    BY <2>1, <2>3, <2>4, PopStatus DEF Promoted
<1>7. ASSUME NEW v \in Worker, LoopSpawn(v) PROVE Has
  <2>1. PICK r \in Runner :
          /\ runner[r] = FreeRunner
          /\ runner' = [runner EXCEPT ![r] =
                          [pc |-> "call", task |-> taken[v], worker |-> v]]
    BY <1>7 DEF LoopSpawn
  <2>2. /\ \A q \in Runner \ {r} : runner'[q] = runner[q]
        /\ runner'[r] = [pc |-> "call", task |-> taken[v], worker |-> v]
    BY <2>1 DEF WorkerTyped
  <2>3. items' = items /\ \A w \in Worker \ {v} : loop'[w] = loop[w] /\ taken'[w] = taken[w]
    BY <1>7 DEF LoopSpawn, vars, WorkerTyped
  <2>4. CASE taken[v] = t
    <3>1. r \in Owing(t)'
      BY <2>2, <2>4 DEF Owing
    <3>2. QED
      BY <3>1
  <2>5. CASE Owing(t) # {}
    <3>1. r \notin Owing(t)
      BY <2>1 DEF Owing, FreeRunner
    <3>2. QED
      BY <2>2, <2>5, <3>1, OwingKept
  <2>6. QED
    BY <1>1, <2>3, <2>4, <2>5
<1>8. ASSUME NEW r \in Runner, StartFn(r) \/ StartFnEnds(r) PROVE Has
  <2>1. runner[r] \in BusyRunner /\ UNCHANGED <<items, loop, taken>>
    BY <1>8, RunnerTask DEF StartFn, StartFnEnds, At, vars
  <2>2. PICK pc \in {"execute", "done", "failed"} : Goto(r, pc)
    BY <1>8 DEF StartFn, StartFnEnds
  <2>3. /\ \A q \in Runner \ {r} : runner'[q] = runner[q]
        /\ runner'[r].pc = pc /\ runner'[r].task = runner[r].task
    BY <2>1, <2>2 DEF Goto, WorkerTyped, BusyRunner
  <2>4. r \in Owing(t) => r \in Owing(t)'
    BY <2>3 DEF Owing
  <2>5. QED
    BY <1>1, <2>1, <2>3, <2>4, OwingKept
<1>9. ASSUME NEW r \in Runner, Report(r) PROVE Has
  <2>1. runner[r] \in BusyRunner /\ runner[r].task \in Task /\ UNCHANGED <<loop, taken>>
    BY <1>9, ReportReports DEF Report, BusyRunner
  <2>2. t # runner[r].task /\ items[t].status = "running"
    BY <1>9, <2>1, ReportReports, ReportStatus DEF Promoted
  <2>3. \A q \in Runner \ {r} : runner'[q] = runner[q]
    BY <1>9 DEF Report, Goto, WorkerTyped
  <2>4. r \notin Owing(t)
    BY <2>2 DEF Owing
  <2>5. QED
    BY <1>1, <2>1, <2>2, <2>3, <2>4, OwingKept
<1>10. ASSUME NEW r \in Runner, Release(r) PROVE Has
  <2>1. UNCHANGED <<items, loop, taken>> /\ r \notin Owing(t)
    BY <1>10 DEF Release, At, Owing, vars
  <2>2. \A q \in Runner \ {r} : runner'[q] = runner[q]
    BY <1>10 DEF Release, WorkerTyped
  <2>3. QED
    BY <1>1, <2>1, <2>2, OwingKept
<1>11. QED
  BY <1>3, <1>4, <1>5, <1>6, <1>7, <1>8, <1>9, <1>10
     DEF WorkerSystemNext, ThreadNext, LoopStep, RunnerStep

\* What is inserted is fresh in every behaviour.
LEMMA WorkerInsertsFresh == WorkerSpec => []InsertsFresh
BY FreshAlways, WorkersUseScheduler, PTL

(***************************************************************************)
(* No task is RUNNING for ever with nobody to report on it: a loop or a    *)
(* thread has it, whatever operators and replaced workers did meanwhile.   *)
(***************************************************************************)
THEOREM RunningIsAttended == WorkerSpec => []RunningHasRunner
<1>1. WorkerInit => RunningHasRunner
  BY DEF WorkerInit, Init, NoItem, RunningHasRunner
<1>2. TypeOK /\ WorkerTyped /\ InsertsFresh /\ RunningHasRunner
        /\ [WorkerSystemNext]_allVars => RunningHasRunner'
  BY StepKeepsRunner
<1>3. QED
  BY <1>1, <1>2, WorkerInsertsFresh, WorkerTypeCorrect, PTL DEF WorkerSpec

------------------------------------------------------------------------------
(* Hand-outs and re-queues.  A task that waits its turn again has been       *)
(* re-queued once for every hand-out still to be reported on.                *)

OwedBounded ==
  \A t \in Task :
    /\ owed[t] <= 1 + requeued[t]
    /\ items[t].status \in {"queued", "waiting"} => owed[t] <= requeued[t]

LEMMA StepKeepsOwedBounded ==
  ASSUME TypeOK, WorkerTyped, InsertsFresh, OwedBounded,
         [WorkerSystemNext]_allVars
  PROVE  OwedBounded'
<1> SUFFICES ASSUME NEW t \in Task
             PROVE  /\ owed'[t] <= 1 + requeued'[t]
                    /\ items'[t].status \in {"queued", "waiting"} => owed'[t] <= requeued'[t]
  BY DEF OwedBounded
<1> DEFINE Bounded == /\ owed'[t] <= 1 + requeued'[t]
                      /\ items'[t].status \in {"queued", "waiting"} =>
                           owed'[t] <= requeued'[t]
<1>1. /\ owed[t] \in Nat /\ requeued[t] \in Nat
      /\ owed[t] <= 1 + requeued[t]
      /\ items[t].status \in {"queued", "waiting"} => owed[t] <= requeued[t]
  BY DEF OwedBounded, TypeOK, WorkerTyped
<1>2. CASE Requeue
  BY <1>1, <1>2, RequeueStatus
<1>3. CASE OtherCall
  BY <1>1, <1>3, HandlerStatus
<1>4. CASE HandlerContinues
  <2>1. ApiContinue /\ UNCHANGED requeued
    BY <1>4 DEF HandlerContinues, workerVars
  <2>2. QED
    BY <1>1, <2>1, ContinueStatus DEF InsertsFresh
<1>5. ASSUME NEW w \in Worker, LoopPop(w) PROVE Bounded
  <2>1. PopNext /\ UNCHANGED requeued
    BY <1>5 DEF LoopPop
  <2>2. QED
    BY <1>1, <2>1, PopStatus DEF Promoted
<1>6. ASSUME NEW r \in Runner, Report(r) PROVE Bounded
  <2>1. runner[r].task \in Task /\ UNCHANGED requeued
    BY <1>6, ReportReports DEF Report, BusyRunner
  <2>2. QED
    BY <1>1, <1>6, <2>1, ReportReports, ReportStatus DEF Promoted
<1>7. ASSUME UNCHANGED <<items, owed, requeued>> PROVE Bounded
  BY <1>1, <1>7
<1>8. QED
  BY <1>2, <1>3, <1>4, <1>5, <1>6, <1>7
     DEF WorkerSystemNext, ThreadNext, LoopStep, RunnerStep, Handler, InitWorker,
         StopWorker, LoopCheck, LoopSpawn, StartFn, StartFnEnds, AgentEnds, Release,
         vars, workerVars, allVars

(***************************************************************************)
(* The workers never run a task twice at once of their own accord, however *)
(* many they are: every further hand-out outstanding is one an operator    *)
(* asked for by re-queuing the task while it ran.                          *)
(***************************************************************************)
THEOREM RunsAreRequeues == WorkerSpec => []OneRunPerRequeue
<1>1. WorkerInit => OwedBounded
  BY DEF WorkerInit, Init, NoItem, OwedBounded
<1>2. TypeOK /\ WorkerTyped /\ InsertsFresh /\ OwedBounded
        /\ [WorkerSystemNext]_allVars => OwedBounded'
  BY StepKeepsOwedBounded
<1>3. OwedBounded => OneRunPerRequeue
  BY DEF OwedBounded, OneRunPerRequeue
<1>4. QED
  BY <1>1, <1>2, <1>3, WorkerInsertsFresh, WorkerTypeCorrect, PTL DEF WorkerSpec
==============================================================================
