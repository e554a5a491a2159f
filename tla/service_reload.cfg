CONSTANTS
  Conn = {c1, c2}
  Key = {k1}
  MaxRequests = 1
  MaxMenus = 1
  MayPanic = FALSE
  Main = Main
  None = None
SPECIFICATION Spec
CHECK_DEADLOCK FALSE
INVARIANT
  MainThreadFreeToAnswer
