SPECIFICATION Spec
CONSTANTS
  Worker = {w1, w2}
  User = {u1, u2}
  NoUser = NoUser
  MaxTasks = 1
  MaxSubmissions = 1
  MaxRequests = 6
INVARIANTS
  NoSelfReview
CHECK_DEADLOCK FALSE
