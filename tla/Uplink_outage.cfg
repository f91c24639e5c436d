SPECIFICATION Spec
CONSTANTS
  d1 = d1  d2 = d2  f1 = f1  f2 = f2
  Fix = {1, 2}
  Driver = {d1, d2}
  Flight = {f1, f2}
  BatchSize = 1
  QueueLimit = 1
  MaxEra = 1
  MaxStarts = 2
INVARIANTS
  EachFixOnce
  NothingVanishes
PROPERTIES
  StoredForGood
  DrainsWhenOnline
