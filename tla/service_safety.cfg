CONSTANTS
  Conn = {c1, c2}
  Key = {k1, k2}
  MaxRequests = 2
  MaxMenus = 2
  MayPanic = TRUE
  Main = Main
  None = None
SPECIFICATION Spec
SYMMETRY Symmetry
CHECK_DEADLOCK FALSE
INVARIANTS
  TypeOK
  Consistent
  ConsentPerSignature
  KeyHeldWhileConfirming
  PointerIsLive
  OneConfirmation
PROPERTIES
  PoisonIsFailStop
  LossesAreKnown
  SigningIsConfirmed
  RequestsAreAtomic
