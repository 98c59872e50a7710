SPECIFICATION FairSpec
CONSTANTS
  ssh = ssh
  http = http
  bait = bait
  Gens = {1, 2}
  MaxTouches = 2
  Refused = {1}
  MaxFaults = 1
  Listeners = {ssh, http}
  PortOf <- OnePort
  Ports = {22, 80}
  Foreign = {}
  Bait = bait
  SpecSets <- Sets
INVARIANTS
  TypeOK
  OneGeneration
  NoSelfCollision
  NoFalseAlarm
  Rearmed
PROPERTIES
  StoppedEnds
CHECK_DEADLOCK FALSE
