SPECIFICATION Spec
CONSTANTS
  k1 = k1
  c1 = c1
  b1 = b1
  a1 = a1
  NoKey = NoKey
  NoCert = NoCert
  Absent = Absent
  NoManifest = NoManifest
  Agents = {a1}
  Order <- TwoPlatforms
  Exe = {"exe"}
  Signable = {"exe"}
  Versions = {"v1", "v2"}
  FirstVersion = "v1"
  Keys = {k1}
  FirstKey = k1
  Certs = {c1}
  Builds = {b1}
  MaxWork = 3
  MaxFaults = 1
INVARIANTS
  TypeOK
  Recoverable
PROPERTIES
  SignedOnly
  UpdatesConverge
CHECK_DEADLOCK FALSE
