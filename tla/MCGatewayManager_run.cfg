\* The default numbers of restarts and of failed checks; fairness.
CONSTANTS
  MaxRestarts = 5
  MaxHealthFailures = 3
  LastFailure = 5
SPECIFICATION ManagerFairSpec
INVARIANTS
  NoGreenFlicker
  OneGateway
PROPERTIES
  EndsAreAnswered
CHECK_DEADLOCK FALSE
