\* One tick is two hours of the real interval, at most two messages stored.
CONSTANTS
  MaxQueueSize = 2
  MaxAge = 4
  CleanupInterval = 2
  Late = 1
  Key = {1, 2}
  LastTick = 12
  LastMessage = 6
  NoAlarm = NoAlarm
SPECIFICATION Spec
INVARIANTS
  NeverForgotten
  NothingStale
CHECK_DEADLOCK FALSE
