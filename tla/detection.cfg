SPECIFICATION Spec
CONSTANTS
  t1 = t1
  t2 = t2
  other = other
  foreign = foreign
  Tokens = {t1, t2}
  Other = other
  Foreign = foreign
  Mailboxes = {t2}
  Types <- SomeTypes
  Hosts <- SomeHosts
  Requests <- SomeRequests
  MAX_RCPT = 2
  MAX_BYTES = 1
  StatusEdits = {"active", "revoked"}
  SensorTypes = {"honeypot"}
  AlertOnGet = FALSE
  Uploaded = TRUE
  MaxRequests = 1
  MaxEvents = 2
  MaxWork = 2
INVARIANTS
  TypeOK
  Detected
  OncePerEvent
  EnvelopeTrue
  ScoredTrue
  ReportedOnce
PROPERTIES
  ProbesEnd
  FollowsLifecycle
CHECK_DEADLOCK FALSE
