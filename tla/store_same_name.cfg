CONSTANTS
  Proc = {p1}
  Key = {k1, k2}
  Name = {n1, n2}
  Faults = {"same_name"}
  MaxBlocks = 3
  None = None
SPECIFICATION Spec
CHECK_DEADLOCK FALSE
INVARIANT
  PermanentStorage
