SPECIFICATION FairSpec
CONSTANTS
  Pos = {p1, p2}
  Key = {}
  Req = {}
  None = None
  Postures = {}
  CloseMax = 1
  MaxCrash = 1
  MaxButtons = 2
  MaxOutages = 1
PROPERTIES CloseAllReaches ClosesAreServed
