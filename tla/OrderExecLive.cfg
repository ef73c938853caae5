SPECIFICATION FairSpec
CONSTANTS
  Key = {k1}
  Oid = {o1, o2}
  None = None
  MaxQty = 2
  MaxAbsent = 2
  Lag = 1
  CloseMax = 2
  MaxFaults = 2
  Expiries = FALSE
  OutsideCloses = FALSE
PROPERTIES PatientEnds FillsAreBooked
