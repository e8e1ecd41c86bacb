\* Two goroutines of one process beside another process, any workspace.
CONSTANTS
  p1 = p1  p2 = p2
  c1 = c1  c2 = c2  c3 = c3
  none = none  own = own  foreign = foreign
  NoToken = NoToken
  Process <- MCProcess
  Caller <- ThreeCallers
  ProcessOf <- ThreeProcessOf
  Workspace <- MCWorkspace
  NoWorkspace <- none
  Granted <- MCGranted
  MaxCalls = 2
  MaxInvalid = 1
SYMMETRY Goroutines
SPECIFICATION Spec
INVARIANTS TypeOK NeverReplayed FileIsCurrent SentTokenFits
PROPERTY NoNeedlessRotation
CHECK_DEADLOCK FALSE
