SPECIFICATION HistorySpec
CONSTANTS
  i1 = i1
  i2 = i2
  t1 = t1
  t2 = t2
  Incident = {i1}
  Truck = {t1, t2}
  MaxRound = 2
  MaxCrash = 0
  ByHand = {"TRIAGING", "MATCHING", "DRIVER_EN_ROUTE"}
  ManualTargets = {}
  NamedTrucks = {t1, t2}
SYMMETRY Symmetry
INVARIANTS
  EnRouteIsBound
CHECK_DEADLOCK FALSE
