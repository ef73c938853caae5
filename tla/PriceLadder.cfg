SPECIFICATION FairSpec
CONSTANTS
  Quotes <- BookQuotes
  Tick = 5
  Slip = 5
  UrgentSlip = 25
  ChasePct = 2
  MaxMoves = 2
  MaxRefused = 1
  NoAnswer = NoAnswer
  Attempts = 2
  PageSize = 2
  MaxTime = 9
  MaxLimit = 5
CHECK_DEADLOCK FALSE
INVARIANTS AbsentWasNotThere KlinesConsecutive
PROPERTIES SpreadGuard ChaseBounded ChaseReachesAsk
