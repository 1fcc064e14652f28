SPECIFICATION MCFairSpec
CONSTANTS
  Task = {t1, t2}
  Priority = {1}
  RetryBudget = {0}
  NoTask = NoTask
  MaxConcurrency = 1
  Workers = 2
  Runner = {r1, r2}
  Blocking = {TRUE, FALSE}
  MaxSequence = 2
  MaxRequeues = 1
INVARIANTS
  ActiveIsExact
  RunningHasRunner
  OneRunPerRequeue
PROPERTIES
  ReadyIsServed
CHECK_DEADLOCK FALSE
