SPECIFICATION Spec
CONSTANTS
  a = a  b = b  i1 = i1  sa = sa  sb = sb  t1 = t1  t2 = t2
  Company = {a, b}
  Incident = {i1}
  Owner <- OwnedByA
  Carrier <- CarriedByB
  Socket = {sa, sb}
  Principal <- DeskAndCab
  Asked <- RoomOfI1
  Task = {t1, t2}
INVARIANTS
  RoomsAgree
  WithinAudience
  EveryMemberIsTried
PROPERTIES
  BrokenMeansGone
