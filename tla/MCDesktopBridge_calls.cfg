\* One call, two sockets at a time, every fault; fairness.
CONSTANTS
  c1 = c1
  LastSocket = 2
  Call <- OneCall
  MaxMissedPongs = 1
  MaxDelay = 0
  Faults = {"cut", "auth", "stop"}
  NoSocket = NoSocket
SPECIFICATION FairSpec
INVARIANTS
  NobodyWaitsAlone
PROPERTIES
  ToolCallsHold
  CallsEnd
  AgentComesBack
CHECK_DEADLOCK FALSE
