CONSTANTS
  Client = {c1, c2, c3}
  MaxRequests = 1
  MaxOther = 1
  MayPanic = TRUE
  Listener = Listener
  Other = Other
  Free = Free
  None = None
SPECIFICATION FairSpec
INVARIANTS
  Consistent
  HandedOverOnce
PROPERTIES
  ClientIsServed
  InstanceIsReleased
