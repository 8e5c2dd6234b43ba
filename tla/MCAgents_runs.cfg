\* Two runs of an agent in any overlap, a store of two proposals, one proposal
\* of another agent, one failure.
CONSTANTS
  Run <- TwoRuns
  MaxFaults = 1
  MaxSteps = 2
  Limit = 2
  PromotionTasks <- FirstTask
  MaxProposals = 2
  OtherProposals = 1
SPECIFICATION Spec
INVARIANTS
  BudgetBound
  TrustKept
  OneOffReportsOnce
  AskedIsAnsweredOnce
PROPERTIES
  SilenceIsExcused
CHECK_DEADLOCK FALSE
