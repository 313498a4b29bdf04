SPECIFICATION Spec
CONSTANTS
  Handler = {h1, h2}
  User = {u1}
  Ticket = {t1}
  Session = {s1}
  Pages = 1
  InitialPages = 1
  ExtendPages = 1
  PageLimit = 1
  File = {f1}
  MaxPackages = 1
  MaxVersion = 1
  MaxHolds = 1
  MaxRequests = 4
  MaxLate = 0
PROPERTIES
  HoldsBlock
CHECK_DEADLOCK FALSE
