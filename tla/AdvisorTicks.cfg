SPECIFICATION Spec
CONSTANTS
  Pos = {p1, p2}
  Trig = {t1}
  None = None
  Garbage = Garbage
  WeekBars = 5
  DayBars = 2
  RetPct = 5
  Keys <- BothKeys
  DisabledKeys = {}
  EntryConf = 60
  CallConf = 70
  CallMax24 = 0
  CallMin24 <- CoolDay
  CallAbs1 = 1
  CallMax7 = 12
  CallDist = 2
  FundingMin <- LowFunding
  FundingMax = 5
  FadeMax24 = 0
  FadeDist = 2
  KillN = 1
  KillWrPct = 40
  KillPnl <- KillLoss
  RevengeWindow = 4
  GatesStale = 3
  EndgameProfit = 25
  EndgameFrac = 70
  EmergencyPct <- Emergency
  Mode = "full"
  Worlds <- SmallWorlds
  Interval = 4
  Retry = 1
  WakeGap = 2
  WakeCool = 3
  CallTime = 1
  Hour = 4
  Day = 8
  EntryGap = 3
  Lines = 3
  MaxExec = 1
  MaxEntries = 2
  MaxCalls = 1
  MaxNow = 10
  MaxFaults = 1
SYMMETRY Symmetry
INVARIANTS  ClosesPerHour EntriesKeepGap PostureConfirmed TriggersAreSeen
PROPERTY ConfirmationsApart
