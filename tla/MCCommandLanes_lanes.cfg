\* Two turns of a session and a third command, two restarts.
CONSTANTS
  s = s
  main = main
  t1 = t1
  t2 = t2
  r1 = r1
  r2 = r2
  x = x
  NoTask = NoTask
  Lane <- Lanes
  Task <- Tasks
  LaneOf <- LaneOfTask
  Parent <- ParentOfTask
  Adjustable = {main}
  MaxConcurrency = 2
  MaxRestarts = 2
SPECIFICATION FairSpec
INVARIANTS
  NoIdleSlot
  SlotsAreCurrent
  OneTurnPerSession
  DrainedMeansSettled
PROPERTIES
  EveryCommandSettles
CHECK_DEADLOCK FALSE
