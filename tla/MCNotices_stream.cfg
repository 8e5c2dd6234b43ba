\* Four notices in a store of two, and three failures.
CONSTANTS
  Notice <- FourNotices
  MaxNotes = 2
  MaxFaults = 3
SPECIFICATION FairSpec
INVARIANTS
  TypeOK
  NothingMissed
PROPERTIES
  UnreadIsKept
  EventuallyTold
CHECK_DEADLOCK FALSE
