CONSTANTS
  p1 = p1
  p2 = p2
  n1 = n1
  n2 = n2
  full = full
  readOnly = readOnly
  None = None
  Process = {p1, p2}
  Name = {n1, n2}
  Level = {full, readOnly}
  Kinds <- AllKinds
  MaxCommands = 3
  MaxLogins = 2
  MaxRotations = 2
SYMMETRY Interchangeable
SPECIFICATION Spec
INVARIANTS TypeOK FailedLoginLeavesNoToken StoredLoginWorks
CHECK_DEADLOCK FALSE
