CONSTANTS
  p1 = p1
  p2 = p2
  c1 = c1
  c2 = c2
  NoLineage = NoLineage
  ours = ours
  None = None
  Runner = Runner
  Process = {p1, p2}
  Command = {c1, c2}
  Setups <- AnySetup
  Backup = {p1, p2}
  Version <- MCVersion
  MaxWrites = 2
  MaxLocks = 2
  MaxRuns = 1
  MaxUnlocks = 1
SYMMETRY Interchangeable
SPECIFICATION Spec
INVARIANT TypeOK
PROPERTIES WritesFollow ReplacedIsBackedUp LockedWritesKnow RunKeepsLock
