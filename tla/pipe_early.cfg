CONSTANTS
  Client = {c1, c2}
  MaxRequests = 1
  MaxOther = 0
  MayPanic = FALSE
  Listener = Listener
  Other = Other
  Free = Free
  None = None
SPECIFICATION Spec
CHECK_DEADLOCK FALSE
INVARIANT
  OpeningIsHarmless
