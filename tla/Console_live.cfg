SPECIFICATION Spec
CONSTANTS
  r1 = r1  r2 = r2 
  Incident = {1, 2}
  Report = {r1, r2}
  EventOf <- OneEvent
  ByDriver = {r1}
  MaxOffer = 1
  MaxCrash = 1
  MaxFetch = 2
  MaxSpot = 1
  ListLimit = 2
  AskLimit = 1
INVARIANTS
  AnsweredMeansRegistered
PROPERTIES
  BoardCatchesUp
