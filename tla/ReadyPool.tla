------------------------------ MODULE ReadyPool ------------------------------
(***************************************************************************)
(* What the scheduler promises the worker, without heap, sequence numbers  *)
(* or table: a pool of ready tasks.  Calls change which tasks are ready;   *)
(* pop_next takes one ready task out and returns it, touches no other, and *)
(* returns None only when no task is ready.                                *)
(***************************************************************************)
CONSTANTS Task, NoTask

VARIABLES
  ready,   \* the tasks that may be handed out
  handed   \* what the last pop_next returned

poolVars == <<ready, handed>>

PoolInit == ready = {} /\ handed = NoTask

\* An operator's call or a runner's report changes which tasks are ready.
Change == ready' \in SUBSET Task /\ UNCHANGED handed

Take == \E t \in ready : ready' = ready \ {t} /\ handed' = t

Miss == ready = {} /\ handed' = NoTask /\ UNCHANGED ready

PoolNext == Change \/ Take \/ Miss

PoolSpec == PoolInit /\ [][PoolNext]_poolVars
==============================================================================
