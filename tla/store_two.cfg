CONSTANTS
  Proc = {p1, p2}
  Key = {k1, k2}
  Name = {n1, n2}
  Faults = {"kill", "create_fails", "write_fails", "same_name", "edit_during_save", "add_before_reload"}
  MaxBlocks = 3
  None = None
SPECIFICATION Spec
SYMMETRY Symmetry
CHECK_DEADLOCK FALSE
INVARIANTS
  MemoryHasDistinctKeys
  OneAgent
