\* Every directory state: the fallback to the mutex alone, and refused lock files.
CONSTANTS
  p1 = p1  p2 = p2
  c1 = c1  c2 = c2  c3 = c3
  Process <- MCProcess
  Caller <- MCCaller
  ProcessOf <- MCProcessOf
  Directories <- AnyDirectory
SPECIFICATION Spec
INVARIANTS TypeOK MutualExclusion
PROPERTY IsRWLock
