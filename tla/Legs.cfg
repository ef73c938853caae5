CONSTANTS
    NoValue = NoValue
    FirstBars <- MCFirst  Shapes <- MCShapes
    MaxHours = 9  Split = 5
    FastSpan = 1  SlowSpan = 2  LagH = 1  LagD = 1  LagW = 2  Warm = 1
    WindowEvents = 2  PairCap = 1
    MomentumCells <- MCMomentum  PairCells <- MCPair  FundingCells <- MCFunding
    RatioGrid <- MCRatioGrid  GridCells <- MCGrid  CrashCells <- MCCrash
    MinTrades = 1
    Stake = 1000  Unit = 1000  FeeBp = 30
SPECIFICATION LegsSpec
INVARIANTS CausalLegs LoopsAgree CalmBeforeReentry
PROPERTIES TrainUnmoved
CHECK_DEADLOCK FALSE
