SPECIFICATION MCSpec
CONSTANTS
  Task = {t1, t2}
  Priority = {1}
  RetryBudget = {0}
  NoTask = NoTask
  MaxSequence = 3
  MaxCrashes = 2
INVARIANTS
  RowsStayRecoverable
PROPERTIES
  LiveTasksReturn
  CancelledStaysCancelled
CHECK_DEADLOCK FALSE
SYMMETRY TaskSymmetry
