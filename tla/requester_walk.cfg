CONSTANTS
  Process = {p1, p2, p3}
  Pid = {1, 2, 3}
  Root = p1
  Protected = {p1}
  MaxChanges = 1
  MaxDepth = 4
  None = None
SPECIFICATION FairSpec
INVARIANTS
  Consistent
  ShowsTheAsker
  AskerComesFirst
  ShowsTheVisibleOne
  NobodyTwice
PROPERTY
  WalkEnds
