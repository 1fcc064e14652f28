SPECIFICATION FairSpec
CONSTANTS
  Call = {"edit"}
  MaxRetries = 2
INVARIANTS
  ResultIsFinal
  SessionsBounded
  LateRequestsBounded
PROPERTIES
  CallsEnd
CHECK_DEADLOCK FALSE
