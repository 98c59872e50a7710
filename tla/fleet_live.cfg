SPECIFICATION FairSpec
CONSTANTS
  h1 = h1
  h2 = h2
  s1 = s1
  s2 = s2
  NoHost = NoHost
  Hosts = {h1}
  Procs = {s1}
  HostOf <- OneMachine
  NoSensors = NoSensors
  Configs = {NoSensors, c1}
  Outcomes = {"ok"}
  Limit = 1
  MaxResults = 1
  MaxDeps = 2
  MaxKeys = 2
  MaxEdits = 2
  MaxFaults = 1
  MaxRestarts = 1
PROPERTIES
  DeploymentsComplete
  RetiredStopsSensors
  SensorsConverge
CHECK_DEADLOCK FALSE
