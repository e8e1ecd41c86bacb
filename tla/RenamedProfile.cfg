CONSTANTS
  p1 = p1
  p2 = p2
  n1 = n1
  n2 = n2
  full = full
  readOnly = readOnly
  None = None
  Process = {p1}
  Name = {n1, n2}
  Level = {full}
  Kinds <- LoginAndRename
  MaxCommands = 2
  MaxLogins = 1
  MaxRotations = 1
SPECIFICATION Spec
PROPERTY MovedLoginRenews
CHECK_DEADLOCK FALSE
