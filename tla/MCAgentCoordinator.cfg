SPECIFICATION Spec
CONSTANTS
  File = {f1, f2}
  Registered <- MCRegistered
  MaxIterations = 15
  MaxFixRounds = 2
  NoRole = NoRole
INVARIANTS
  DoneIsVerified
  BudgetSuffices
PROPERTIES
  CommitIsTested
CHECK_DEADLOCK FALSE
