SPECIFICATION SpecOfPart
CONSTANTS
  Worker = {w1, w2}
  User = {u1, u2}
  NoUser = NoUser
  MaxTasks = 2
  MaxSubmissions = 2
  MaxRequests = 7
SYMMETRY WorkerSymmetry
INVARIANTS
  StakeholdersTakePart
  ApprovedWasReviewed
  OutcomeKept
  HandsApart
  HistoryKept
PROPERTIES
  FollowsWorkflowSerially
CHECK_DEADLOCK FALSE
