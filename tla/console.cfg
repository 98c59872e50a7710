SPECIFICATION Spec
CONSTANTS
  row1 = row1
  row2 = row2
  row3 = row3
  k1 = k1
  k2 = k2
  s1 = s1
  s2 = s2
  Ids = {row1, row2, row3}
  Initial = {row1, row2}
  Keys = {k1, k2}
  FirstKey = k1
  Admin = Admin
  Junk = Junk
  None = None
  Slots = {s1, s2}
  MaxOthers = 1
  MaxClicks <- Bound
  Visited = {"deployments"}
INVARIANTS
  TypeOK
PROPERTIES
  ActsOnArmed
  DraftTrue
  Settles
CHECK_DEADLOCK FALSE
