CONSTANTS
  Conn = {c1, c2}
  Key = {k1}
  MaxRequests = 2
  MaxMenus = 0
  MayPanic = TRUE
  Main = Main
  None = None
SPECIFICATION FairSpec
INVARIANT
  ConfirmationReachesUser
PROPERTY
  RequestsAnswered
