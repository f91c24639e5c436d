SPECIFICATION HistorySpec
CONSTANTS
  a1 = a1
  a2 = a2
  n1 = n1
  n2 = n2
  s1 = s1
  s2 = s2
  Tap = {a1, a2}
  Request = {"request"}
  RequestOf <- MCRequestOf
  Critical = {a1, a2}
  Incident = {n1}
  Session = {s1, s2}
  StatusRequests = {"CANCELLED"}
  MovedByHand = {"TRIAGING", "CANCELLED"}
  Sweeping = TRUE
  MaxAnswer = 2
SYMMETRY Symmetry
INVARIANTS
  AnswersAreCounted
  CancelledIsOnRecord
  DuressIsHeeded
  LinkedIncidentIsReady
CHECK_DEADLOCK FALSE
