SPECIFICATION Spec
CONSTANTS
  Key = {k1}
  Oid = {o1, o2, o3}
  None = None
  MaxQty = 2
  MaxAbsent = 2
  Lag = 1
  CloseMax = 2
  MaxFaults = 1
  Expiries = TRUE
  OutsideCloses = FALSE
SYMMETRY Symmetry
INVARIANTS Reserved ClosedRowsAreSettled BookMatchesExchange OneExposure
PROPERTY ImplementsLedger
