SPECIFICATION MCFairSpec
CONSTANTS
  Run = {r1, r2}
  Request = {q1}
  NoRun = NoRun
  Steps = 1
  MaxTools = 2
  Streaming = {r1}
  Ways = {"server", "serverless"}
  MaxCrashes = 0
  MaxRequests = 1
INVARIANTS
  LateCommandsBounded
PROPERTIES
  RunsEnd
CHECK_DEADLOCK FALSE
