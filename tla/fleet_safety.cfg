SPECIFICATION Spec
CONSTANTS
  h1 = h1
  h2 = h2
  s1 = s1
  s2 = s2
  NoHost = NoHost
  Hosts = {h1}
  Procs = {s1, s2}
  HostOf <- SharedMachine
  NoSensors = NoSensors
  Configs = {NoSensors}
  Outcomes = {"ok", "err"}
  Limit = 1
  MaxResults = 1
  MaxDeps = 2
  MaxKeys = 2
  MaxEdits = 0
  MaxFaults = 1
  MaxRestarts = 0
INVARIANTS
  TypeOK
  SupersededGetsNothing
  DormantOnlyIfRetired
  ReportsFit
PROPERTIES
  ImplementsDeployment
  ExecutedOnce
CHECK_DEADLOCK FALSE
SYMMETRY Symmetry
