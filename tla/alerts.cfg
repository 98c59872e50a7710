SPECIFICATION Spec
CONSTANTS
  c1 = c1
  c2 = c2
  k1 = k1
  k2 = k2
  Channels = {c1, c2}
  Pairs = {k1, k2}
  Window = 2
  MaxPerWindow = 1
  MaxFailures = 2
  MaxAlerts = 4
  MaxTime = 3
  MaxEdits = 2
  MaxRestarts = 1
INVARIANTS
  TypeOK
  OnePerWindow
  DroppedOnlyIfRecent
  BreakerCounts
CHECK_DEADLOCK FALSE
SYMMETRY Symmetry
