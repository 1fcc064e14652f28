--------------------------- MODULE MCTaskScheduler ---------------------------
(* TaskScheduler for TLC: handlers start no call once MaxSequence entries   *)
(* have been numbered; calls in progress and the worker go on.              *)
EXTENDS TaskScheduler, TLC

CONSTANT MaxSequence  \* bound on the sequence numbers handed to callers

MCNext ==
  \/ counter < MaxSequence /\ ApiStart
  \/ ApiContinue
  \/ WorkerNext

TaskSymmetry == Permutations(Task)

MCSpec == Init /\ [][MCNext]_vars
==============================================================================
