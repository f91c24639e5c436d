SPECIFICATION Spec
CONSTANTS
  u1 = u1  u2 = u2  w1 = w1
  Fix <- MCFix
  Place = {0, 2}
  Depot = 0
  Wreck = 2
  LiveTicks = 0
  MatchTicks = 1
  MaxPositions = 2
  Fast = {}
  Uploader = {u1, u2}
  Sweeper = {w1}
  MaxClock = 2
  BackfillTicks = 1
  DwellTicks <- MCDwellTicks
  StaleTicks <- MCStaleTicks
  MaxBatch = 1
  MaxAlerts = 1
INVARIANTS
  LiveIsLiveEverywhere
  EpisodesAreCurrent
PROPERTIES
  RowFollowsItsFix
  SilenceIsReported
