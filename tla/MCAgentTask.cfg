SPECIFICATION MCSpec
CONSTANTS
  Run = {r1, r2}
  Request = {q1, q2}
  NoRun = NoRun
  Steps = 1
  MaxTools = 0
  Streaming = {r1, r2}
  Ways = {"queue"}
  MaxCrashes = 1
  MaxRequests = 3
INVARIANTS
  RowIsTruthful
  RunningIsDetectable
CHECK_DEADLOCK FALSE
SYMMETRY MCSymmetry
