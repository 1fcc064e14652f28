SPECIFICATION MCFairSpec
CONSTANTS
  Publisher = {agent, reader}
  Agent = agent
  Stream = {sse, ws}
  WS = {ws}
  Ring = 2
  MaxQueue = 2
  NoEvent = NoEvent
  MaxEvents = 3
  Errors = TRUE
INVARIANTS
  NoGap
  PublisherOrder
PROPERTIES
  WebSocketsEnd
CHECK_DEADLOCK FALSE
