\* Two processes with one goroutine each, under fairness.
CONSTANTS
  p1 = p1  p2 = p2
  c1 = c1  c2 = c2  c3 = c3
  none = none  own = own  foreign = foreign
  NoToken = NoToken
  Process <- MCProcess
  Caller <- TwoCallers
  ProcessOf <- TwoProcessOf
  Workspace <- ScopedWorkspace
  NoWorkspace <- none
  Granted <- MCGranted
  MaxCalls = 2
  MaxInvalid = 1
SPECIFICATION FairSpec
PROPERTY EveryRequestEnds
CHECK_DEADLOCK FALSE
