SPECIFICATION WindowSpec
CONSTANTS
  Minutes = 5
  StaleMinutes = 2
  Tolerance = 1
  Cooldown = 2
  Sides = {P, C}
  None = None
  LastWindow = 3
  MaxRestarts = 2
  MaxRaised = 1
SYMMETRY Symmetry
INVARIANT GaugeHonest
PROPERTIES EntersOnOwnSignal WatchedSurvive
