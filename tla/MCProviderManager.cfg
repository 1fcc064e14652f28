SPECIFICATION MCSpec
CONSTANTS
  Provider = {"local", "mistral"}
  Order <- MCOrder
  Local = "local"
  NeedsKey = {"mistral"}
  Lenient = {"mistral"}
  Editing = {"local", "mistral"}
  User = {"server", "user"}
  Server = "server"
  Preferred <- MCPreferred
  Keys <- MCKeys
  EnabledList = {}
  FallbackList <- MCFallback
  DegradeAt = 1
  UnhealthyAt = 2
  Agent = {"agent"}
  Owner <- MCOwner
  Caller = {"call"}
  None = None
INVARIANTS
  SafetyNet
  ChosenIsUsable
CHECK_DEADLOCK FALSE
