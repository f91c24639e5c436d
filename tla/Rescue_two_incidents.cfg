SPECIFICATION HistorySpec
CONSTANTS
  i1 = i1
  i2 = i2
  t1 = t1
  t2 = t2
  Incident = {i1, i2}
  Truck = {t1}
  MaxRound = 1
  MaxCrash = 1
  ByHand <- IncidentState
  ManualTargets = {"IN_TRANSIT", "CANCELLED"}
  NamedTrucks = {}
SYMMETRY Symmetry
INVARIANTS
  HeldMoneyHasRescue
  DispatchedHasRescue
  BoundTruckIsTaken
PROPERTIES
  PactKept
CHECK_DEADLOCK FALSE
