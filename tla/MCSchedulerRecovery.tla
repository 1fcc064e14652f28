------------------------- MODULE MCSchedulerRecovery -------------------------
(* SchedulerRecovery for TLC: a bounded number of crashes, and no new call  *)
(* once a life of the server has numbered MaxSequence entries.              *)
EXTENDS SchedulerRecovery, TLC

CONSTANTS
  MaxSequence,  \* bound on the sequence numbers handed to callers per life
  MaxCrashes    \* bound on the crashes

VARIABLE crashes

MCInit == RecoveryInit /\ crashes = 0

MCNext ==
  \/ counter < MaxSequence /\ OperatorStep /\ UNCHANGED crashes
  \/ (ServerStep \/ LoadStep) /\ UNCHANGED crashes
  \/ crashes < MaxCrashes /\ Crash /\ crashes' = crashes + 1

TaskSymmetry == Permutations(Task)

MCSpec == MCInit /\ [][MCNext]_<<restartVars, crashes>>
==============================================================================
