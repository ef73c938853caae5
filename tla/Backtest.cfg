CONSTANTS
    None = None
    Scale = 100  PerQ = 2  PerH = 4
    Fast = 1  Slow = 2  BullSlow = 3  RsiPeriod = 2  AdxPeriod = 2
    TrendAdx = 25  RangeAdx = 20
    VolLookback = 2  MinVols = 3  Hist = 40  Bars7d = 20  Min15 = 4  Min1h = 6
    RetPct = 5  Permitted <- MCPermitted  Switched = {}
    VolPct <- MCVolPct  Regimes <- MCRegimes  BullMaxPct = 101
    CoreVolPct <- MCCoreVolPct  CoreRegimes <- MCCoreRegimes
    GuardHours = 0  GuardPct = 130
    One = 100  TrailArm = 20  TrailGiveback = 12  EndgameMinProfit = 10  EmergencyLoss = 0
    EndgameFracPct = 70  LockdownStale = 6  AdvisorStale = 6
    DailyPct = 10  WeeklyPct = 20  Day = 24  Week = 168  StreakN = 3  StreakBlock = 12
    MaxOpen = 2  PerCoinCap = 2  PerKeyCap = 2  MarginPct = 45  PortMarginPct = 60  ImPct = 10
    DynWindow = 2  DynFloorPct = 55  FeeRate = 3  FeeCapPct = 10  SlCapPct = 0
    NearHighPct = 0  NearHighMultPct = 50
    CbPause = 3  Keep = 50
    Prices <- MCPrices  Warmups <- MCWarmups  MaxBars = 29
    Cooldown = 2  HoldBars <- MCHoldBars  Tp2Pct <- MCTp2Pct  SlPct <- MCSlPct
    Touches <- MCTouches  OtherPnls <- MCOtherPnls
    Credit = 10  Mults = {100}  StartEquity = 200  KeyCap = 1
SPECIFICATION Spec
INVARIANTS CausalGates GateParity SelfCheck CausalBook
PROPERTIES MarginWithinCap
CHECK_DEADLOCK FALSE
