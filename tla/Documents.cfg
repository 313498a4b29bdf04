SPECIFICATION SpecOfOne
CONSTANTS
  Handler = {h1, h2}
  User = {u1, u2}
  Ticket = {t1}
  Session = {s1}
  Pages = 3
  InitialPages = 1
  ExtendPages = 2
  PageLimit = 1
  File = {f1, f2}
  Doc = {d1, d2}
  MaxPackages = 2
  MaxRequests = 3
  MaxLate = 1
  TaskRequests = 4
  RecordRequests = 11
  DisposalRequests = 5
  MaxCalls = 3
  MaxVersion = 2
  Kek = {1, 2}
  FirstKek = 1
  MaxHolds = 2
SYMMETRY Symmetric
INVARIANTS
  TablesAgree
  ServedOnce
  AllowedWhenServed
  WithinLimit
  PagesRendered
  CustodyAgrees
  HoldProtects
  DisposedMeansGone
  UploadsDecryptable
  ServedWereScanned
  NumbersUnbroken
CHECK_DEADLOCK FALSE
