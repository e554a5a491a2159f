CONSTANTS
  Base = 4
  Key <- MCKey
  Name = {1}
  Client = {c1, c2}
  Region = 24
  Added <- MCAdded
  Data <- MCData
  Rings <- MCRings
  MaxOther = 1
  MayPanic = TRUE
  Listener = Listener
  Other = Other
  None = None
SPECIFICATION FairSpec
INVARIANTS
  Consistent
  ListingIsReadable
  SignedAsAsked
  AddedAsSent
  TooLongIsNoAnswer
PROPERTIES
  RequestsAreAtomic
  SenderIsReleased
