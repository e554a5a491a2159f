CONSTANTS
  Proc = {p1}
  Key = {k1, k2, k3}
  Name = {n1, n2, n3}
  Faults = {"kill", "create_fails", "write_fails"}
  MaxBlocks = 3
  None = None
SPECIFICATION Spec
CHECK_DEADLOCK FALSE
INVARIANTS
  TypeOK
  StorageLasts
  RemovedStaysRemoved
  LaunchKeepsKeys
  StorageConsistent
PROPERTY
  StorageIsPermanent
