SPECIFICATION SpecOfPart
CONSTANTS
  Worker = {w1, w2}
  Checker = {c1}
  Participant = {u1}
  Permission = {"PREVIEW"}
  MaxGrants = 3
  MaxTime = 2
  MaxRequests = 4
SYMMETRY Symmetry
INVARIANTS
  WithinAsked
  UseNeedsLiveAncestry
  DeadlineKept
PROPERTIES
  RevocationKept
CHECK_DEADLOCK FALSE
