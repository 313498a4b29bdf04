------------------------------- MODULE MCTasks -------------------------------
(***************************************************************************)
(* Instances of Tasks for TLC.  One run explores handlers that run one at  *)
(* a time, on a parent and a child, and two handlers that interleave, on   *)
(* one task and with one request less: `part` says which.                  *)
(***************************************************************************)
EXTENDS Tasks, FiniteSets, TLC

VARIABLE part

InitOfPart == Init /\ part \in {"serial", "races"}

Serial == Cardinality({w \in Worker : op'[w] # Idle}) <= 1
Smaller == task'[MaxTasks] = Absent /\ requests' <= MaxRequests - 1

NextOfPart ==
  /\ Next
  /\ UNCHANGED part
  /\ part = "serial" => Serial
  /\ part = "races" => Smaller

SpecOfPart == InitOfPart /\ [][NextOfPart]_<<vars, part>>

(* Handlers are interchangeable, and so are the users. *)
WorkerSymmetry == Permutations(Worker) \cup Permutations(User)
-----------------------------------------------------------------------------
(* Handlers one at a time: the last submission carries the outcome. *)
OutcomeKept == part = "serial" => OutcomeOfLast

(* Handlers one at a time: nobody decides on a submission of their own. *)
HandsApart == part = "serial" => NoSelfReview

(* Handlers one at a time: the history replays to the status. *)
HistoryKept == part = "serial" => HistoryReplays

(* Handlers one at a time: the service implements TaskWorkflow. *)
SerialWorkflow == INSTANCE TaskWorkflow WITH
  Task    <- Id,
  status  <- [t \in Id |-> IF part = "serial" THEN task[t].status ELSE "NONE"],
  blocked <- [t \in Id |-> part = "serial" /\ Exists(t) /\ task[t].blocked]

FollowsWorkflowSerially == SerialWorkflow!Spec
=============================================================================
