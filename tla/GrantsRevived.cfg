SPECIFICATION Spec
CONSTANTS
  Worker = {w1, w2}
  Participant = {u1}
  Permission = {"PREVIEW"}
  MaxGrants = 1
  MaxTime = 1
  MaxRequests = 3
PROPERTIES
  RevocationFinal
CHECK_DEADLOCK FALSE
