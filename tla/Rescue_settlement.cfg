SPECIFICATION FairHistorySpec
CONSTANTS
  i1 = i1
  i2 = i2
  t1 = t1
  t2 = t2
  Incident = {i1}
  Truck = {t1, t2}
  MaxRound = 1
  MaxCrash = 1
  ByHand <- IncidentState
  ManualTargets = {"IN_TRANSIT", "PENDING_VERIFICATION"}
  NamedTrucks = {}
INVARIANTS
  UnwoundMeansReturned
PROPERTIES
  DeliveryReachesEscrow
  SettlementReachesIncident
CHECK_DEADLOCK FALSE
