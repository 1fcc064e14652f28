SPECIFICATION MCSpec
CONSTANTS
  Task = {t1, t2}
  Priority = {1, 2}
  RetryBudget = {0, 1}
  NoTask = NoTask
  MaxSequence = 3
INVARIANTS
  QueuedHasEntry
  SequencesUnique
  LiveTasksAreRecoverable
PROPERTIES
  ImplementsReadyPool
  PopTakesMostUrgent
CHECK_DEADLOCK FALSE
SYMMETRY TaskSymmetry
