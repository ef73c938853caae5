SPECIFICATION Spec
CONSTANTS
  Pos = {}
  Trig = {t1, t2}
  None = None
  Garbage = Garbage
  WeekBars = 5
  DayBars = 2
  RetPct = 5
  Keys <- BothKeys
  DisabledKeys = {}
  EntryConf = 60
  CallConf = 70
  CallMax24 = 0
  CallMin24 <- CoolDay
  CallAbs1 = 1
  CallMax7 = 12
  CallDist = 2
  FundingMin <- LowFunding
  FundingMax = 5
  FadeMax24 = 0
  FadeDist = 2
  KillN = 1
  KillWrPct = 40
  KillPnl <- KillLoss
  RevengeWindow = 4
  GatesStale = 3
  EndgameProfit = 25
  EndgameFrac = 70
  EmergencyPct <- Emergency
  Mode = "full"
  Worlds = {}
  Interval = 4
  Retry = 1
  WakeGap = 1
  WakeCool = 3
  CallTime = 0
  Hour = 2
  Day = 8
  EntryGap = 2
  Lines = 3
  MaxExec = 1
  MaxEntries = 2
  MaxCalls = 1
  MaxNow = 12
  MaxFaults = 0
SYMMETRY Symmetry
INVARIANT EntriesPerDay
