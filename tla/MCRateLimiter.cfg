SPECIFICATION MCSpec
CONSTANTS
  Key = {"auth", "general"}
  Max <- MCMax
  Window <- MCWindow
  Second = 2
  Ages = {0, 4}
  MaxTime = 10
  MaxDebt = 1
INVARIANTS
  AdmittedBounded
PROPERTIES
  RemainingIsHonest
  RetryAfterIsHonest
CHECK_DEADLOCK FALSE
