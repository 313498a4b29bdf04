SPECIFICATION Spec
CONSTANTS
  Worker = {w1}
  Participant = {u1, u2}
  Permission = {"PREVIEW", "SHARE"}
  MaxGrants = 2
  MaxTime = 2
  MaxRequests = 4
INVARIANTS
  ChildWithinParent
CHECK_DEADLOCK FALSE
