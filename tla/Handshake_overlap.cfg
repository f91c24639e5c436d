SPECIFICATION HistorySpec
CONSTANTS
  o1 = o1
  o2 = o2
  s1 = s1
  s2 = s2
  Offer = {o1, o2}
  Session = {s1, s2}
  ByHand = {"MATCHING", "CANCELLED"}
  ManualTargets = {"CANCELLED"}
  MaxEscrow = 1
SYMMETRY Symmetry
INVARIANTS
  OneBoundOffer
  ConsentBeforeBinding
  HeldOnceUntilReopened
  BoundIsFunded
CHECK_DEADLOCK FALSE
