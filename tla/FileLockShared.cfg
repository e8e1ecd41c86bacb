\* The directory exists, so the lock file keeps the processes apart; fairness.
CONSTANTS
  p1 = p1  p2 = p2
  c1 = c1  c2 = c2  c3 = c3
  Process <- MCProcess
  Caller <- MCCaller
  ProcessOf <- MCProcessOf
  Directories <- WritableDirectory
SPECIFICATION FairSpec
PROPERTIES GivesUp NeverStuck
