SPECIFICATION Spec
CONSTANTS
  Pos = {}
  Key = {k1}
  Req = {1, 2}
  None = None
  Postures = {"no", "fresh"}
  CloseMax = 1
  MaxCrash = 1
  MaxButtons = 3
  MaxOutages = 0
INVARIANTS EntryOnce OncePerCooldown
PROPERTY NoEntryAgainstControl
