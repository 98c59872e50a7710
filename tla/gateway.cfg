SPECIFICATION Spec
CONSTANTS
  t1 = t1
  j1 = j1
  j2 = j2
  g1 = g1
  g2 = g2
  NoToken = NoToken
  Tokens = {t1}
  Jobs = {j1, j2}
  Gets = {g1, g2}
  Kinds <- OperatorKinds
  Caches = {"site", "image"}
  Patience <- OneInstant
  MaxVersion = 2
  MaxIncidents = 1
  MaxCrashes = 1
  TTL = 1
  MaxTime = 2
INVARIANTS
  TypeOK
  NoOrphans
  StampTells
  CacheFresh
CHECK_DEADLOCK FALSE
SYMMETRY Symmetry
