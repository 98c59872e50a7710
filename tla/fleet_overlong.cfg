SPECIFICATION FairSpec
CONSTANTS
  h1 = h1
  h2 = h2
  s1 = s1
  s2 = s2
  NoHost = NoHost
  Hosts = {h1}
  Procs = {s1}
  HostOf <- OneMachine
  NoSensors = NoSensors
  Configs = {NoSensors, c1}
  Outcomes = {"ok", "overlong"}
  Limit = 1
  MaxResults = 1
  MaxDeps = 1
  MaxKeys = 1
  MaxEdits = 0
  MaxFaults = 0
  MaxRestarts = 0
PROPERTIES
  DeploymentsComplete
CHECK_DEADLOCK FALSE
