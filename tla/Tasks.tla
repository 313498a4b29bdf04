-------------------------------- MODULE Tasks --------------------------------
(***************************************************************************)
(* The Task Service: the lifecycle of tasks, their participants, their     *)
(* submissions and the review of these                                     *)
(* (apps/task-management-service/src/tasks/tasks.service.ts).              *)
(*                                                                         *)
(* A handler reads the task, checks it, and writes later in one update or  *)
(* one transaction; nothing compares what it writes over with what it      *)
(* read.  Workers are handlers that run at the same time; op[w] holds what *)
(* handler w has read.  A handler that fails a check or crashes leaves no  *)
(* trace, which Abort stands for.                                          *)
(*                                                                         *)
(* `reviewer_id` is set by createTask (the creator by default) and never   *)
(* cleared.  Titles, comments, deadlines and the events of the outbox are  *)
(* left out; a result is the submission whose content it is.               *)
(*                                                                         *)
(* Definitions whose name says what they lack (...Unchecked, ...Unrecorded *)
(* and so on) are mutated forms of the one they precede; no action uses    *)
(* them.                                                                   *)
(***************************************************************************)
EXTENDS Naturals, FiniteSets

CONSTANTS
  Worker,          \* handlers that may run at the same time
  User,            \* employees
  NoUser,          \* assignee_id null
  MaxTasks,        \* bound: rows of the task table
  MaxSubmissions,  \* bound: rows of the submission table
  MaxRequests      \* bound: requests started

ASSUME TaskConstants ==
  /\ NoUser \notin User
  /\ MaxTasks \in Nat \ {0}
  /\ MaxSubmissions \in Nat
  /\ MaxRequests \in Nat

VARIABLES
  task,        \* the task table
  role,        \* the participants of each task, with their role
  submission,  \* the submission table; ids grow with created_at
  recorded,    \* to_status of the last row of each task's status history, if it has one
  op,          \* what each worker is doing
  requests     \* requests started so far

vars == <<task, role, submission, recorded, op, requests>>
-----------------------------------------------------------------------------
Id    == 1 .. MaxTasks
SubId == 1 .. MaxSubmissions
None  == 0                        \* parent_task_id or result null

Terminal == {"APPROVED", "REJECTED", "CANCELLED"}
Active   == {"CREATED", "ASSIGNED", "IN_PROGRESS", "WAITING_REVIEW", "NEED_REVISION"}
Status   == Active \cup Terminal
Decision == {"APPROVED", "NEED_REVISION", "REJECTED"}

(* STATUS_TRANSITIONS *)
Transition ==
  [s \in Status |->
    CASE s = "CREATED"        -> {"ASSIGNED", "CANCELLED"}
      [] s = "ASSIGNED"       -> {"IN_PROGRESS", "CANCELLED"}
      [] s = "IN_PROGRESS"    -> {"WAITING_REVIEW", "CANCELLED"}
      [] s = "WAITING_REVIEW" -> {"APPROVED", "NEED_REVISION", "REJECTED", "CANCELLED"}
      [] s = "NEED_REVISION"  -> {"IN_PROGRESS", "CANCELLED"}
      [] OTHER                -> {}]

Idle == [pc |-> "idle"]

Row == [status: Status, creator: User, assignee: User \cup {NoUser}, reviewer: User,
        parent: {None} \cup Id, blocked: BOOLEAN, previous: {"null"} \cup Active,
        result: {None} \cup SubId]

Submission == [task: Id, status: {"PENDING"} \cup Decision, author: User,
               by: User \cup {NoUser}]

Absent == [status |-> "NONE"]

Exists(t)    == task[t] # Absent
Submitted(s) == submission[s] # Absent
Children(t)  == {c \in Id : Exists(c) /\ task[c].parent = t}

(* Submissions of t, and whether s is the last one that is pending. *)
SubmissionsOf(t) == {s \in SubId : Submitted(s) /\ submission[s].task = t}
LatestPending(t, s) ==
  /\ s \in SubmissionsOf(t) /\ submission[s].status = "PENDING"
  /\ \A r \in SubmissionsOf(t) : submission[r].status = "PENDING" => r <= s
-----------------------------------------------------------------------------
Init ==
  /\ task = [t \in Id |-> Absent]
  /\ role = [t \in Id |-> [u \in User |-> "NONE"]]
  /\ submission = [s \in SubId |-> Absent]
  /\ recorded = [t \in Id |-> "NONE"]
  /\ op = [w \in Worker |-> Idle]
  /\ requests = 0

Keep(w, o) ==
  /\ op' = [op EXCEPT ![w] = o]
  /\ UNCHANGED <<task, role, submission, recorded>>

Begin(w, o) ==
  /\ op[w] = Idle
  /\ requests < MaxRequests
  /\ requests' = requests + 1
  /\ Keep(w, o)

Continue(w, o) == Keep(w, o) /\ UNCHANGED requests

Done(w) == op' = [op EXCEPT ![w] = Idle] /\ UNCHANGED requests

(* Handlers that need the task as requireTask returned it and one operand. *)
Ask(w, pc, t, by, arg) ==
  Begin(w, [pc |-> pc, by |-> by, t |-> t, arg |-> arg, row |-> task[t]])
-----------------------------------------------------------------------------
(* createTask: a participant of the parent, whatever the parent's status.  *)
CreateTask(w) ==
  \E u, r \in User, a \in User \cup {NoUser}, p \in {None} \cup Id :
    /\ p # None => Exists(p) /\ role[p][u] # "NONE"
    /\ a # r
    /\ Begin(w, [pc |-> "create",
                 row |-> [status |-> IF a = NoUser THEN "CREATED" ELSE "ASSIGNED",
                          creator |-> u, assignee |-> a, reviewer |-> r, parent |-> p,
                          blocked |-> FALSE, previous |-> "null", result |-> None]])

InsertTask(w) ==
  /\ op[w].pc = "create"
  /\ \E t \in Id :
       /\ ~Exists(t) /\ \A s \in Id : s < t => Exists(s)
       /\ LET row == op[w].row IN
          /\ task' = [task EXCEPT ![t] = row]
          /\ role' = [role EXCEPT ![t] =
                       [u \in User |-> CASE u = row.creator  -> "CREATOR"
                                         [] u = row.assignee -> "ASSIGNEE"
                                         [] u = row.reviewer -> "REVIEWER"
                                         [] OTHER            -> "NONE"]]
  /\ Done(w)
  /\ UNCHANGED <<submission, recorded>>
-----------------------------------------------------------------------------
AssignReviewerUnchecked(w) ==
  \E t \in Id, r \in User :
    Exists(t) /\ Ask(w, "reviewer", t, task[t].creator, r)

AssignReviewer(w) ==
  \E t \in Id, r \in User :
    /\ Exists(t)
    /\ r # task[t].assignee
    /\ Ask(w, "reviewer", t, task[t].creator, r)

WriteReviewerAlone(w) ==
  /\ op[w].pc = "reviewer"
  /\ task' = [task EXCEPT ![op[w].t].reviewer = op[w].arg]
  /\ Done(w)
  /\ UNCHANGED <<role, submission, recorded>>

WriteReviewer(w) ==
  /\ op[w].pc = "reviewer"
  /\ LET r == op[w].arg  t == op[w].t IN
     /\ task' = [task EXCEPT ![t].reviewer = r]
     /\ role' = IF r # task[t].creator THEN [role EXCEPT ![t][r] = "REVIEWER"] ELSE role
  /\ Done(w)
  /\ UNCHANGED <<submission, recorded>>

(* assignTask: from any status that is not terminal. *)
AssignTask(w) ==
  \E t \in Id, a \in User :
    /\ Exists(t)
    /\ a # task[t].reviewer
    /\ ~task[t].blocked
    /\ task[t].status \notin Terminal
    /\ Ask(w, "assign", t, task[t].creator, a)

WriteAssigneeUnrecorded(w) ==
  /\ op[w].pc = "assign"
  /\ LET a == op[w].arg  t == op[w].t IN
     /\ task' = [task EXCEPT ![t].assignee = a, ![t].status = "ASSIGNED"]
     /\ role' = [role EXCEPT ![t][a] = "ASSIGNEE"]
  /\ Done(w)
  /\ UNCHANGED <<submission, recorded>>

WriteAssignee(w) ==
  /\ op[w].pc = "assign"
  /\ LET a == op[w].arg  t == op[w].t IN
     /\ task' = [task EXCEPT ![t].assignee = a, ![t].status = "ASSIGNED"]
     /\ role' = [role EXCEPT ![t][a] = "ASSIGNEE"]
     /\ recorded' = IF op[w].row.status # "ASSIGNED"
                    THEN [recorded EXCEPT ![t] = "ASSIGNED"] ELSE recorded
  /\ Done(w)
  /\ UNCHANGED submission
-----------------------------------------------------------------------------
(* updateTaskStatus: the assignee starts or resumes, the creator cancels.  *)
UpdateTaskStatusUnchecked(w) ==
  \E t \in Id, s \in {"IN_PROGRESS", "CANCELLED"} :
    /\ Exists(t)
    /\ s \in Transition[task[t].status]
    /\ Ask(w, "status", t, task[t].creator, s)

UpdateTaskStatus(w) ==
  \E t \in Id, u \in User, s \in {"IN_PROGRESS", "CANCELLED"} :
    /\ Exists(t)
    /\ ~task[t].blocked
    /\ s \in Transition[task[t].status]
    /\ IF s = "CANCELLED" THEN u = task[t].creator ELSE u = task[t].assignee
    /\ Ask(w, "status", t, u, s)

(* applyLifecycleChange, over whatever the row holds by now. *)
Moved(row, from, to) == [row EXCEPT !.status = to, !.previous = from]

WriteStatus(w) ==
  /\ op[w].pc = "status"
  /\ LET r == op[w] IN
     /\ task' = [task EXCEPT ![r.t] = Moved(@, r.row.status, r.arg)]
     /\ recorded' = [recorded EXCEPT ![r.t] = r.arg]
  /\ Done(w)
  /\ UNCHANGED <<role, submission>>

BlockTask(w) ==
  \E t \in Id, u \in User :
    /\ Exists(t)
    /\ u \in {task[t].creator, task[t].assignee}
    /\ task[t].status \notin Terminal
    /\ ~task[t].blocked
    /\ Ask(w, "block", t, u, "null")

WriteBlock(w) ==
  /\ op[w].pc = "block"
  /\ task' = [task EXCEPT ![op[w].t].blocked = TRUE, ![op[w].t].previous = op[w].row.status]
  /\ Done(w)
  /\ UNCHANGED <<role, submission, recorded>>

UnblockTask(w) ==
  \E t \in Id, u \in User :
    /\ Exists(t)
    /\ u \in {task[t].creator, task[t].assignee}
    /\ task[t].blocked
    /\ Ask(w, "unblock", t, u, "null")

WriteUnblock(w) ==
  /\ op[w].pc = "unblock"
  /\ LET row == op[w].row IN
     task' = [task EXCEPT ![op[w].t].status = IF row.previous # "null" THEN row.previous
                                                                      ELSE row.status,
                          ![op[w].t].blocked = FALSE,
                          ![op[w].t].previous = "null"]
  /\ Done(w)
  /\ UNCHANGED <<role, submission, recorded>>

(* addParticipant: the role is free text that nothing reads back; the      *)
(* model uses its default.                                                 *)
AddParticipant(w) ==
  \E t \in Id, u \in User :
    /\ Exists(t)
    /\ Ask(w, "participant", t, task[t].creator, u)

WriteParticipant(w) ==
  /\ op[w].pc = "participant"
  /\ role[op[w].t][op[w].arg] = "NONE"
  /\ role' = [role EXCEPT ![op[w].t][op[w].arg] = "PARTICIPANT"]
  /\ Done(w)
  /\ UNCHANGED <<task, submission, recorded>>
-----------------------------------------------------------------------------
SubmitTaskResult(w) ==
  \E t \in Id :
    /\ Exists(t)
    /\ ~task[t].blocked
    /\ task[t].assignee # NoUser
    /\ task[t].status = "IN_PROGRESS"
    /\ Ask(w, "submit", t, task[t].assignee, "WAITING_REVIEW")

WriteSubmission(w) ==
  /\ op[w].pc = "submit"
  /\ LET r == op[w] IN
     /\ \E s \in SubId :
          /\ ~Submitted(s) /\ \A q \in SubId : q < s => Submitted(q)
          /\ submission' = [submission EXCEPT ![s] =
                             [task |-> r.t, status |-> "PENDING", author |-> r.by,
                              by |-> NoUser]]
     /\ task' = [task EXCEPT ![r.t] = Moved(@, r.row.status, r.arg)]
     /\ recorded' = [recorded EXCEPT ![r.t] = r.arg]
  /\ Done(w)
  /\ UNCHANGED role

(* reviewSubmission: four reads in a row, then the decision.               *)
ReviewSubmission(w) ==
  \E s \in SubId, u \in User, d \in Decision :
    /\ Submitted(s)
    /\ Begin(w, [pc |-> "review", by |-> u, arg |-> d, sub |-> s,
                 seen |-> submission[s].status])

ReviewTask(w) ==
  /\ op[w].pc = "review"
  /\ LET r == op[w]  t == submission[r.sub].task IN
     /\ task[t].reviewer = r.by
     /\ ~task[t].blocked
     /\ task[t].status = "WAITING_REVIEW"
     /\ r.seen = "PENDING"
     /\ Continue(w, [pc |-> "latest", by |-> r.by, t |-> t, arg |-> r.arg, row |-> task[t],
                     sub |-> r.sub])

ReviewAny(w) ==
  /\ op[w].pc = "latest"
  /\ Continue(w, [op[w] EXCEPT !.pc = IF op[w].arg = "APPROVED" THEN "children"
                                                               ELSE "decide"])

ReviewLatest(w) ==
  /\ op[w].pc = "latest"
  /\ LatestPending(op[w].t, op[w].sub)
  /\ Continue(w, [op[w] EXCEPT !.pc = IF op[w].arg = "APPROVED" THEN "children"
                                                               ELSE "decide"])

ReviewChildren(w) ==
  /\ op[w].pc = "children"
  /\ \A c \in Children(op[w].t) : task[c].status = "APPROVED"
  /\ Continue(w, [op[w] EXCEPT !.pc = "decide"])

WriteDecisionTaskOnly(w) ==
  /\ op[w].pc = "decide"
  /\ LET r == op[w] IN
     /\ task' = [task EXCEPT ![r.t] = [Moved(@, r.row.status, r.arg) EXCEPT
                   !.result = IF r.arg = "APPROVED" THEN r.sub ELSE r.row.result]]
     /\ recorded' = [recorded EXCEPT ![r.t] = r.arg]
  /\ Done(w)
  /\ UNCHANGED <<role, submission>>

WriteDecision(w) ==
  /\ op[w].pc = "decide"
  /\ LET r == op[w] IN
     /\ submission' = [submission EXCEPT ![r.sub].status = r.arg, ![r.sub].by = r.by]
     /\ task' = [task EXCEPT ![r.t] = [Moved(@, r.row.status, r.arg) EXCEPT
                   !.result = IF r.arg = "APPROVED" THEN r.sub ELSE r.row.result]]
     /\ recorded' = [recorded EXCEPT ![r.t] = r.arg]
  /\ Done(w)
  /\ UNCHANGED role

Abort(w) == op[w] # Idle /\ Continue(w, Idle)

Step(w) ==
  \/ CreateTask(w) \/ InsertTask(w)
  \/ AssignReviewer(w) \/ WriteReviewer(w) \/ AssignTask(w) \/ WriteAssignee(w)
  \/ UpdateTaskStatus(w) \/ WriteStatus(w)
  \/ BlockTask(w) \/ WriteBlock(w) \/ UnblockTask(w) \/ WriteUnblock(w)
  \/ AddParticipant(w) \/ WriteParticipant(w)
  \/ SubmitTaskResult(w) \/ WriteSubmission(w)
  \/ ReviewSubmission(w) \/ ReviewTask(w) \/ ReviewLatest(w) \/ ReviewChildren(w)
  \/ WriteDecision(w)
  \/ Abort(w)

Next == \E w \in Worker : Step(w)

Spec == Init /\ [][Next]_vars
-----------------------------------------------------------------------------
RowOp(pcs, args) == [pc: pcs, by: User, t: Id, arg: args, row: Row]

OpState ==
  {Idle} \cup [pc: {"create"}, row: Row]
  \cup RowOp({"reviewer", "assign", "participant"}, User)
  \cup RowOp({"status"}, {"IN_PROGRESS", "CANCELLED"})
  \cup RowOp({"block", "unblock"}, {"null"})
  \cup RowOp({"submit"}, {"WAITING_REVIEW"})
  \cup [pc: {"review"}, by: User, arg: Decision, sub: SubId,
        seen: {"PENDING"} \cup Decision]
  \cup [pc: {"latest", "children", "decide"}, by: User, t: Id, arg: Decision, row: Row,
        sub: SubId]

(* Every variable has its type; no status, not even one restored by        *)
(* unblockTask, is ever null.                                              *)
TypeOK ==
  /\ task \in [Id -> Row \cup {Absent}]
  /\ role \in [Id -> [User -> {"NONE", "CREATOR", "ASSIGNEE", "REVIEWER", "PARTICIPANT"}]]
  /\ submission \in [SubId -> Submission \cup {Absent}]
  /\ recorded \in [Id -> Status \cup {"NONE"}]
  /\ op \in [Worker -> OpState]
  /\ requests \in 0 .. MaxRequests
-----------------------------------------------------------------------------
(***************************************************************************)
(* Properties that hold however the handlers interleave.                   *)
(***************************************************************************)
Participants(t) == {u \in User : role[t][u] # "NONE"}

(* Everybody a task names takes part in it, so that the services that ask  *)
(* for the context of the task admit them, and whoever raised a child task *)
(* takes part in its parent.                                               *)
StakeholdersTakePart ==
  \A t \in Id : Exists(t) =>
    /\ {task[t].creator, task[t].reviewer} \subseteq Participants(t)
    /\ task[t].assignee # NoUser => task[t].assignee \in Participants(t)
    /\ task[t].parent # None => task[t].creator \in Participants(task[t].parent)

(* A task is APPROVED only as the outcome of a review: its result is the   *)
(* content of a submission of its own that this review approved.           *)
ApprovedWasReviewed ==
  \A t \in Id : task[t].status = "APPROVED" =>
    \E s \in SubmissionsOf(t) :
      task[t].result = s /\ submission[s].status = "APPROVED"

(* What the handlers in progress hold was true when it was read, and keeps *)
(* them from ending a task other than by a decision: no stale row brings   *)
(* back a terminal status, and a decision is about a submission of the     *)
(* task it decides.  With the three properties above, this is inductive.   *)
Sound(o) ==
  /\ o.pc = "create" =>
       /\ o.row.status \in {"CREATED", "ASSIGNED"} /\ ~o.row.blocked
       /\ o.row.parent # None => /\ Exists(o.row.parent)
                                 /\ o.row.creator \in Participants(o.row.parent)
  /\ o.pc \notin {"idle", "create", "review"} => Exists(o.t)
  /\ o.pc \in {"assign", "status", "block"} => o.row.status \in Active
  /\ o.pc = "submit" => o.row.status = "IN_PROGRESS"
  /\ o.pc = "unblock" => o.row.previous # "null"
  /\ o.pc = "review" => Submitted(o.sub)
  /\ o.pc \in {"latest", "children", "decide"} =>
       /\ o.sub \in SubmissionsOf(o.t)
       /\ o.row.status = "WAITING_REVIEW"

HeldIsSound ==
  /\ \A w \in Worker : Sound(op[w])
  /\ \A t \in Id : Exists(t) =>
       /\ task[t].blocked => task[t].previous # "null"
       /\ task[t].parent # None => Exists(task[t].parent)
  /\ \A s \in SubId : Submitted(s) => Exists(submission[s].task)
-----------------------------------------------------------------------------
(***************************************************************************)
(* Properties of handlers that run one at a time.                          *)
(***************************************************************************)
(* The status history replays to the status, although neither a creation   *)
(* nor blocking and unblocking writes a row: a task without one is as it   *)
(* was created, which its assignee tells.                                  *)
FirstStatus(t) == IF task[t].assignee = NoUser THEN "CREATED" ELSE "ASSIGNED"

HistoryReplays ==
  \A t \in Id :
    /\ ~Exists(t) => recorded[t] = "NONE"
    /\ Exists(t) => task[t].status = IF recorded[t] = "NONE" THEN FirstStatus(t)
                                                            ELSE recorded[t]

(* The last submission of a task carries the outcome its status shows.     *)
OutcomeOfLast ==
  \A t \in Id :
    task[t].status \in {"WAITING_REVIEW"} \cup Decision =>
      \E s \in SubmissionsOf(t) :
        /\ \A q \in SubmissionsOf(t) : q <= s
        /\ submission[s].status = IF task[t].status = "WAITING_REVIEW" THEN "PENDING"
                                                                   ELSE task[t].status

(* Nobody decides on a submission of their own, however the assignee and   *)
(* the reviewer are swapped while submissions are pending.                 *)
NoSelfReview == \A s \in SubId : Submitted(s) => submission[s].by # submission[s].author
-----------------------------------------------------------------------------
(***************************************************************************)
(* What the documents, tests and messages of the service say.              *)
(***************************************************************************)
(* assertNotTerminal: a terminal status is final.                          *)
TerminalFinal ==
  [][\A t \in Id : task[t].status \in Terminal => task'[t].status = task[t].status]_vars
=============================================================================
