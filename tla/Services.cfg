SPECIFICATION SpecOfOne
CONSTANTS
  Rule = {rule}
  MaxThreshold = 2
  MaxCount = 2
  MaxAlerts = 2
  MaxRepairs = 1
  MaxFailures = 1
  Incident = {i1, i2}
  Period = {y1, y2}
  Message = {event}
  MaxCrashes = 1
  MaxChanges = 2
  Reader = {y1, y2}
  Worker = {h1, h2}
  Signup = {s1, s2}
  MaxMails = 2
  Origin = {address}
  Window = 1
  MaxRequests = 2
  OverviewTtl = 2
  BuildTime = 1
  MaxEntries = 1
  MaxTime = 2
  MaxArrivals = 3
  MaxCalls = 3
  MaxPairs = 2
  MaxData = 1
  Address = {y1}
  User = {employee, admin}
  Admin = {admin}
  Capability = {"ARCHIVE_RECEIVE"}
  Ttl = 2
  LookupTime = 1
  HandlingTime = 1
  MaxTokens = 1
SYMMETRY Interchangeable
INVARIANTS
  AlertsFollow
  InboxExact
  NoAccountAlone
  GatewaySound
  ReadsRequestChanges
  ActsWithAuthority
CHECK_DEADLOCK FALSE
