CONSTANTS
  Proc = {p1}
  Key = {k1, k2}
  Name = {n1, n2}
  Faults = {"add_before_reload"}
  MaxBlocks = 3
  None = None
SPECIFICATION Spec
CHECK_DEADLOCK FALSE
INVARIANT
  RemovedStaysRemoved
