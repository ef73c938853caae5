SPECIFICATION FairSpec
CONSTANTS
  Key = {k1}
  Oid = {o1, o2}
  None = None
  MaxQty = 1
  MaxAbsent = 2
  Lag = 1
  CloseMax = 2
  MaxFaults = 0
  Expiries = TRUE
  OutsideCloses = FALSE
PROPERTY ExpiredIsBooked
