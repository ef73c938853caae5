SPECIFICATION Spec
CONSTANTS
  Pos = {1, 2}
  Advised = {1}
  OpenFor <- MCOpenFor
  None = None
  MinuteTicks = 2
  Hold = 2
  Life = 6
  RecordWait = 1
  Defer = 1
  CloseMax = 2
  Tp2 = 700
  Sl = 750
  Epsilon = 5
  RequireEndgame = TRUE
  StartEquity = 20000
  Marks <- MCMarks
  Fills <- MCFills
  Written = {"normal", "tight", "lockdown"}
  One = 1000
  TrailArm = 200
  TrailGiveback = 100
  EndgameMinProfit = 250
  EmergencyLoss <- MCEmergency
  EndgameFracPct = 50
  LockdownStale = 2
  AdvisorStale = 1
  DailyPct = 3
  WeeklyPct = 5
  Day = 1
  Week = 2
  StreakN = 2
  StreakBlock = 1
  MaxOpen = 2
  PerCoinCap = 2
  PerKeyCap = 1
  MarginPct = 15
  PortMarginPct = 80
  ImPct = 10
  DynWindow = 10
  DynFloorPct = 40
  FeeRate = 3
  FeeCapPct = 12
  SlCapPct = 0
  NearHighPct = 0
  NearHighMultPct = 50
INVARIANTS BookedTogether OverdueWaits PeakKept SilenceTightens
PROPERTY HarvestsByPolicy
