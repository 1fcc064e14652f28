-------------------------- MODULE MCBackgroundWorker --------------------------
(* BackgroundWorker for TLC: handlers start no call once MaxSequence entries *)
(* have been numbered.  The fairness is that of running threads: a loop or   *)
(* runner thread that can go on does, a call in progress ends, a start_fn    *)
(* that blocks ends, and the server starts its worker.  A worker is stopped  *)
(* only while another may still be made: shutdown for good leaves the queue. *)
EXTENDS BackgroundWorker

CONSTANTS
  MaxSequence,  \* bound on the sequence numbers handed to callers
  MaxRequeues   \* bound on the operator's re-queues of a task while it runs

MCNext ==
  \/ /\ counter < MaxSequence /\ Handler
     /\ \A t \in Task : requeued'[t] <= MaxRequeues
  \/ HandlerContinues
  \/ InitWorker
  \/ made < Workers /\ StopWorker
  \/ ThreadNext

MCSpec == WorkerInit /\ [][MCNext]_allVars

Fairness ==
  /\ WF_allVars(InitWorker)
  /\ WF_allVars(HandlerContinues)
  /\ \A w \in Worker : WF_allVars(LoopStep(w))
  /\ \A r \in Runner : WF_allVars(RunnerStep(r))

MCFairSpec == MCSpec /\ Fairness
==============================================================================
