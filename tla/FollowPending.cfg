CONSTANTS
  MaxWrites = 2
  MaxRuns = 4
  MaxUpdates = 2
  StepName = {"plan", "apply"}
  Message <- MCMessage
  Scenarios <- OnlyFollow
SPECIFICATION Spec
CHECK_DEADLOCK FALSE
INVARIANTS FollowsUntilFinished
