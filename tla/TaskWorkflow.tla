----------------------------- MODULE TaskWorkflow -----------------------------
(***************************************************************************)
(* What the Task Service promises of the lifecycle of tasks: a task moves  *)
(* along the edges below one step at a time, not at all while it is        *)
(* blocked, and never out of a terminal status.                            *)
(*                                                                         *)
(* Edge is STATUS_TRANSITIONS, and what assignTask adds to it: a creator   *)
(* may assign again any task that has not ended.                           *)
(***************************************************************************)
CONSTANT Task

VARIABLES status, blocked

vars == <<status, blocked>>

Terminal == {"APPROVED", "REJECTED", "CANCELLED"}
Active   == {"CREATED", "ASSIGNED", "IN_PROGRESS", "WAITING_REVIEW", "NEED_REVISION"}

Edge ==
  {<<"ASSIGNED", "IN_PROGRESS">>, <<"NEED_REVISION", "IN_PROGRESS">>,
   <<"IN_PROGRESS", "WAITING_REVIEW">>, <<"WAITING_REVIEW", "APPROVED">>,
   <<"WAITING_REVIEW", "NEED_REVISION">>, <<"WAITING_REVIEW", "REJECTED">>}
  \cup {<<s, "ASSIGNED">> : s \in Active}
  \cup {<<s, "CANCELLED">> : s \in Active}

Init ==
  /\ status = [t \in Task |-> "NONE"]
  /\ blocked = [t \in Task |-> FALSE]

Create(t) ==
  /\ status[t] = "NONE"
  /\ \E s \in {"CREATED", "ASSIGNED"} : status' = [status EXCEPT ![t] = s]
  /\ UNCHANGED blocked

Move(t) ==
  /\ ~blocked[t]
  /\ \E e \in Edge : status[t] = e[1] /\ status' = [status EXCEPT ![t] = e[2]]
  /\ UNCHANGED blocked

Block(t) ==
  /\ status[t] \in Active /\ ~blocked[t]
  /\ blocked' = [blocked EXCEPT ![t] = TRUE]
  /\ UNCHANGED status

Unblock(t) ==
  /\ blocked[t]
  /\ blocked' = [blocked EXCEPT ![t] = FALSE]
  /\ UNCHANGED status

Next == \E t \in Task : Create(t) \/ Move(t) \/ Block(t) \/ Unblock(t)

Spec == Init /\ [][Next]_vars
=============================================================================
