CONSTANTS
  MaxWrites = 2
  MaxRuns = 4
  MaxUpdates = 2
  StepName = {"plan", "apply"}
  Message <- MCMessage
  Scenarios <- MCScenarios
SPECIFICATION Spec
CHECK_DEADLOCK FALSE
INVARIANTS TypeOK EndedMeansSucceeded ApprovedAsShown FinishedIsShown NoLineTwice
PROPERTIES ReactsToMine FollowEnds
