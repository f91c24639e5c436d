CONSTANTS
  t0 = t0
  t1 = t1
  t2 = t2
  t3 = t3
  c1 = c1
  f1 = f1
  f2 = f2
  f3 = f3
  Truck <- MCTruck
  Stranded <- t0
  Company <- MCCompany
  Facility <- MCFacility
  Fleets <- MCFleets
  Storage <- MCStorage
  Loads <- MCLoads
  Spot = "A"
  Spoilage <- MCSpoilage
  Radius = 500
  Limit = 2
  Pasts <- MCPasts
  MaxEvents = 1
  Place <- MCPlace
  Km <- MCKm
  MaxTrucks = 3
  Options = 2
  MaxEdge = 120
  Neighbours = 2
SPECIFICATION Spec
INVARIANTS
  PayCoversTheRun
  HurryNeverCheapens
  PlanCarriesTheLoad
  ReachableComesFirst
  RouteIsFastest
  GivenUpIsHeldAgainst
