CONSTANTS
  p1 = p1
  p2 = p2
  c1 = c1
  c2 = c2
  NoLineage = NoLineage
  ours = ours
  None = None
  Runner = Runner
  Process = {p1}
  Command = {c1}
  Setups <- OneCommand
  Backup = {}
  Version <- MCVersion
  MaxWrites = 2
  MaxLocks = 1
  MaxRuns = 0
  MaxUnlocks = 0
SPECIFICATION Spec
INVARIANT StoredIsNotRefused
