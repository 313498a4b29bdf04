----------------------------- MODULE TasksProofs -----------------------------
(***************************************************************************)
(* Proofs about Tasks, for any number of concurrent handlers, users, tasks *)
(* and submissions: first what no interleaving breaks, then what holds of  *)
(* handlers that run one at a time, the refinement of TaskWorkflow         *)
(* included.                                                               *)
(***************************************************************************)
EXTENDS MCTasks, FiniteSetTheorems, TLAPS

(* The inductive invariant: a write is justified by what a handler read    *)
(* before, so what handlers hold has to be sound as well.                  *)
IInv == TypeOK /\ StakeholdersTakePart /\ ApprovedWasReviewed /\ HeldIsSound

(* A handler's record is determined by its program counter. *)
LEMMA OpByPc ==
  ASSUME NEW o \in OpState
  PROVE  /\ o.pc = "create" => o \in [pc: {"create"}, row: Row]
         /\ o.pc \in {"reviewer", "assign", "participant"} =>
              o \in RowOp({"reviewer", "assign", "participant"}, User)
         /\ o.pc = "status" => o \in RowOp({"status"}, {"IN_PROGRESS", "CANCELLED"})
         /\ o.pc \in {"block", "unblock"} => o \in RowOp({"block", "unblock"}, {"null"})
         /\ o.pc = "submit" => o \in RowOp({"submit"}, {"WAITING_REVIEW"})
         /\ o.pc = "review" => o \in [pc: {"review"}, by: User, arg: Decision, sub: SubId,
                                      seen: {"PENDING"} \cup Decision]
         /\ o.pc \in {"latest", "children", "decide"} =>
              o \in [pc: {"latest", "children", "decide"}, by: User, t: Id, arg: Decision,
                     row: Row, sub: SubId]
BY DEF OpState, Idle, RowOp

(* Every record names a program counter of the model. *)
LEMMA Pcs ==
  ASSUME NEW o \in OpState
  PROVE  o.pc \in {"idle", "create", "reviewer", "assign", "participant", "status", "block",
                   "unblock", "submit", "review", "latest", "children", "decide"}
BY DEF OpState, Idle, RowOp

(* A task that exists is a row, and an approved one exists.                *)
LEMMA RowExists ==
  ASSUME TypeOK, NEW t \in Id
  PROVE  /\ Exists(t) => task[t] \in Row
         /\ task[t].status = "APPROVED" => Exists(t)
<1>1. Absent \notin Row
  BY DEF Absent, Row
<1> QED
  BY <1>1 DEF TypeOK, Exists, Absent

(* A submission that exists is a row.                                      *)
LEMMA SubmissionExists ==
  ASSUME TypeOK, NEW s \in SubId, Submitted(s)
  PROVE  submission[s] \in Submission
BY DEF TypeOK, Submitted
-----------------------------------------------------------------------------
(* Steps that read and keep what they read.                                *)
LEMMA KeepPreserves ==
  ASSUME IInv, NEW w \in Worker, NEW o \in OpState, Sound(o), Keep(w, o),
         requests' \in 0 .. MaxRequests
  PROVE  IInv'
<1> USE DEF IInv
<1>1. TypeOK'
  BY DEF TypeOK, Keep
<1>2. StakeholdersTakePart'
  BY DEF StakeholdersTakePart, Keep, Exists, Participants
<1>3. ApprovedWasReviewed'
  BY DEF ApprovedWasReviewed, Keep, SubmissionsOf, Submitted
<1>4. ASSUME NEW x \in Worker PROVE Sound(op[x])'
  <2>1. op'[x] = IF x = w THEN o ELSE op[x]
    BY DEF TypeOK, Keep
  <2>2. Sound(op'[x])
    BY <2>1 DEF HeldIsSound
  <2> QED
    BY <2>2 DEF Sound, Keep, Exists, Participants, Submitted, SubmissionsOf
<1>5. /\ \A t \in Id : Exists(t) => /\ task[t].blocked => task[t].previous # "null"
                                    /\ task[t].parent # None => Exists(task[t].parent)
      /\ \A s \in SubId : Submitted(s) => Exists(submission[s].task)
  BY DEF HeldIsSound
<1>6. HeldIsSound'
  BY <1>4, <1>5 DEF HeldIsSound, Keep, Exists, Submitted
<1> QED
  BY <1>1, <1>2, <1>3, <1>6

(* A handler that begins.                                                  *)
LEMMA BeginPreserves ==
  ASSUME IInv, NEW w \in Worker, NEW o \in OpState, Sound(o), Begin(w, o)
  PROVE  IInv'
<1>1. requests' \in 0 .. MaxRequests
  BY TaskConstants DEF IInv, TypeOK, Begin
<1> QED
  BY <1>1, KeepPreserves DEF Begin

(* A handler that reads on.                                                *)
LEMMA ContinuePreserves ==
  ASSUME IInv, NEW w \in Worker, NEW o \in OpState, Sound(o), Continue(w, o)
  PROVE  IInv'
<1>1. requests' \in 0 .. MaxRequests
  BY DEF IInv, TypeOK, Continue
<1> QED
  BY <1>1, KeepPreserves DEF Continue

(* A handler that has read a task, whatever it is going to do with it.     *)
LEMMA AskPreserves ==
  ASSUME IInv, NEW w \in Worker, NEW t \in Id, Exists(t), NEW u \in User, NEW pc, NEW arg,
         \/ pc \in {"reviewer", "participant"} /\ arg \in User
         \/ pc = "assign" /\ arg \in User /\ task[t].status \in Active
         \/ pc = "status" /\ arg \in {"IN_PROGRESS", "CANCELLED"} /\ task[t].status \in Active
         \/ pc = "block" /\ arg = "null" /\ task[t].status \in Active
         \/ pc = "unblock" /\ arg = "null" /\ task[t].blocked
         \/ pc = "submit" /\ arg = "WAITING_REVIEW" /\ task[t].status = "IN_PROGRESS",
         Ask(w, pc, t, u, arg)
  PROVE  IInv'
<1> USE DEF IInv
<1> DEFINE o == [pc |-> pc, by |-> u, t |-> t, arg |-> arg, row |-> task[t]]
<1>1. task[t] \in Row
  BY RowExists
<1>2. o \in OpState
  BY <1>1 DEF OpState, RowOp
<1>3. Sound(o)
  BY DEF Sound, HeldIsSound
<1> QED
  BY <1>2, <1>3, BeginPreserves DEF Ask

(* The handlers that begin with one read of the task.                      *)
LEMMA StartPreserves ==
  ASSUME IInv, NEW w \in Worker,
         \/ AssignReviewer(w) \/ AssignTask(w) \/ UpdateTaskStatus(w) \/ BlockTask(w)
         \/ UnblockTask(w) \/ AddParticipant(w) \/ SubmitTaskResult(w)
  PROVE  IInv'
<1> USE DEF IInv
<1>0. ASSUME NEW t \in Id, Exists(t)
      PROVE  /\ task[t] \in Row /\ task[t].creator \in User
             /\ task[t].assignee \in User \cup {NoUser}
             /\ task[t].status \in Active \cup Terminal
  BY <1>0, RowExists DEF Row, Status
<1>1. CASE AssignReviewer(w)
  BY <1>0, <1>1, AskPreserves DEF AssignReviewer
<1>2. CASE AssignTask(w)
  BY <1>0, <1>2, AskPreserves DEF AssignTask
<1>3. CASE UpdateTaskStatus(w)
  <2>1. PICK t \in Id, u \in User, s \in {"IN_PROGRESS", "CANCELLED"} :
          Exists(t) /\ s \in Transition[task[t].status] /\ Ask(w, "status", t, u, s)
    BY <1>3 DEF UpdateTaskStatus
  <2>2. task[t].status \in Active
    BY <1>0, <2>1 DEF Transition, Status, Active, Terminal
  <2> QED
    BY <2>1, <2>2, AskPreserves
<1>4. CASE BlockTask(w)
  BY <1>0, <1>4, AskPreserves DEF BlockTask
<1>5. CASE UnblockTask(w)
  BY <1>5, AskPreserves DEF UnblockTask
<1>6. CASE AddParticipant(w)
  BY <1>0, <1>6, AskPreserves DEF AddParticipant
<1>7. CASE SubmitTaskResult(w)
  BY <1>0, <1>7, AskPreserves DEF SubmitTaskResult
<1> QED
  BY <1>1, <1>2, <1>3, <1>4, <1>5, <1>6, <1>7

(* The other steps that only read.                                         *)
LEMMA ReadPreserves ==
  ASSUME IInv, NEW w \in Worker,
         \/ CreateTask(w) \/ ReviewSubmission(w) \/ ReviewTask(w) \/ ReviewLatest(w)
         \/ ReviewChildren(w) \/ Abort(w)
  PROVE  IInv'
<1> USE DEF IInv
<1> DEFINE r == op[w]
<1>0. r \in OpState /\ Sound(r)
  BY DEF TypeOK, HeldIsSound
<1>1. CASE CreateTask(w)
  <2>1. PICK u \in User, q \in User, a \in User \cup {NoUser}, p \in {None} \cup Id :
          /\ p # None => Exists(p) /\ role[p][u] # "NONE"
          /\ Begin(w, [pc |-> "create",
                 row |-> [status |-> IF a = NoUser THEN "CREATED" ELSE "ASSIGNED",
                          creator |-> u, assignee |-> a, reviewer |-> q, parent |-> p,
                          blocked |-> FALSE, previous |-> "null", result |-> None]])
    BY <1>1 DEF CreateTask
  <2> DEFINE o == [pc |-> "create",
                 row |-> [status |-> IF a = NoUser THEN "CREATED" ELSE "ASSIGNED",
                          creator |-> u, assignee |-> a, reviewer |-> q, parent |-> p,
                          blocked |-> FALSE, previous |-> "null", result |-> None]]
  <2>2. o \in OpState
    BY DEF OpState, Row, Status, Active
  <2>3. Sound(o)
    BY <2>1 DEF Sound, Participants
  <2> QED
    BY <2>1, <2>2, <2>3, BeginPreserves
<1>2. CASE ReviewSubmission(w)
  <2>1. PICK s \in SubId, u \in User, d \in Decision :
          /\ Submitted(s)
          /\ Begin(w, [pc |-> "review", by |-> u, arg |-> d, sub |-> s,
                       seen |-> submission[s].status])
    BY <1>2 DEF ReviewSubmission
  <2> DEFINE o == [pc |-> "review", by |-> u, arg |-> d, sub |-> s,
                   seen |-> submission[s].status]
  <2>2. submission[s].status \in {"PENDING"} \cup Decision
    BY <2>1, SubmissionExists DEF Submission
  <2>3. o \in OpState /\ Sound(o)
    BY <2>1, <2>2 DEF OpState, Sound
  <2> QED
    BY <2>1, <2>3, BeginPreserves
<1>3. CASE ReviewTask(w)
  <2> DEFINE t == submission[r.sub].task
             o == [pc |-> "latest", by |-> r.by, t |-> t, arg |-> r.arg, row |-> task[t],
                   sub |-> r.sub]
  <2>1. /\ r \in [pc: {"review"}, by: User, arg: Decision, sub: SubId,
                  seen: {"PENDING"} \cup Decision]
        /\ Submitted(r.sub)
        /\ task[t].status = "WAITING_REVIEW"
        /\ Continue(w, o)
    BY <1>0, <1>3, OpByPc DEF ReviewTask, Sound
  <2>2. t \in Id /\ Exists(t)
    BY <2>1, SubmissionExists DEF Submission, HeldIsSound
  <2>3. o \in OpState
    BY <2>1, <2>2, RowExists DEF OpState
  <2>4. Sound(o)
    BY <2>1, <2>2 DEF Sound, SubmissionsOf
  <2> QED
    BY <2>1, <2>3, <2>4, ContinuePreserves
<1>4. CASE ReviewLatest(w) \/ ReviewChildren(w)
  <2>1. PICK pc \in {"children", "decide"} : Continue(w, [r EXCEPT !.pc = pc])
    BY <1>4 DEF ReviewLatest, ReviewChildren
  <2> DEFINE o == [r EXCEPT !.pc = pc]
  <2>2. r \in [pc: {"latest", "children", "decide"}, by: User, t: Id, arg: Decision,
               row: Row, sub: SubId]
    BY <1>0, <1>4, OpByPc DEF ReviewLatest, ReviewChildren
  <2>3. /\ o \in [pc: {"latest", "children", "decide"}, by: User, t: Id, arg: Decision,
                  row: Row, sub: SubId]
        /\ o.pc = pc /\ o.t = r.t /\ o.sub = r.sub /\ o.row = r.row
    BY <2>2
  <2>4. Exists(r.t) /\ r.sub \in SubmissionsOf(r.t) /\ r.row.status = "WAITING_REVIEW"
    BY <1>0, <1>4 DEF Sound, ReviewLatest, ReviewChildren
  <2>5. o \in OpState /\ Sound(o)
    BY <2>3, <2>4 DEF OpState, Sound
  <2> QED
    BY <2>1, <2>5, ContinuePreserves
<1>5. CASE Abort(w)
  <2>1. Idle \in OpState /\ Sound(Idle)
    BY DEF OpState, Idle, Sound
  <2> QED
    BY <1>5, <2>1, ContinuePreserves DEF Abort
<1> QED
  BY <1>1, <1>2, <1>3, <1>4, <1>5
-----------------------------------------------------------------------------
(* A handler that ends by writing the tables keeps what the others hold    *)
(* sound, as long as no row disappears, nobody leaves a task and no        *)
(* submission moves to another task.                                       *)
LEMMA WritePreserves ==
  ASSUME IInv, NEW w \in Worker, Done(w),
         task' \in [Id -> Row \cup {Absent}],
         role' \in [Id -> [User -> {"NONE", "CREATOR", "ASSIGNEE", "REVIEWER",
                                    "PARTICIPANT"}]],
         submission' \in [SubId -> Submission \cup {Absent}],
         recorded' \in [Id -> Status \cup {"NONE"}],
         \A t \in Id : Exists(t) => Exists(t)' /\ Participants(t) \subseteq Participants(t)',
         \A s \in SubId : Submitted(s) => /\ Submitted(s)'
                                          /\ submission'[s].task = submission[s].task,
         \A t \in Id : Exists(t)' =>
           /\ task'[t].blocked => task'[t].previous # "null"
           /\ task'[t].parent # None => Exists(task[t].parent)',
         \A s \in SubId : Submitted(s)' => Exists(submission[s].task)',
         StakeholdersTakePart', ApprovedWasReviewed'
  PROVE  IInv'
<1>1. TypeOK'
  <2>1. op' \in [Worker -> OpState] /\ requests' \in 0 .. MaxRequests
    BY DEF IInv, TypeOK, Done, OpState
  <2> QED
    BY <2>1 DEF TypeOK
<1>2. ASSUME NEW x \in Worker PROVE Sound(op[x])'
  <2>1. CASE x = w
    <3>1. op'[x] = Idle
      BY <2>1 DEF IInv, TypeOK, Done
    <3> QED
      BY <3>1 DEF Idle, Sound
  <2>2. CASE x # w
    <3>1. PICK o \in OpState : o = op[x]
      BY DEF IInv, TypeOK
    <3>2. op'[x] = o /\ Sound(o)
      BY <2>2, <3>1 DEF IInv, TypeOK, HeldIsSound, Done
    <3>3. o.pc = "create" => o.row.parent \in {None} \cup Id
      BY <3>1, OpByPc DEF Row
    <3>4. o.pc \notin {"idle", "create", "review"} => o.t \in Id
      BY <3>1, OpByPc, Pcs DEF RowOp
    <3>5. o.pc \in {"review", "latest", "children", "decide"} => o.sub \in SubId
      BY <3>1, OpByPc
    <3>6. Sound(o)'
      BY <3>2, <3>3, <3>4, <3>5 DEF Sound, SubmissionsOf, Submitted
    <3> QED
      BY <3>2, <3>6
  <2> QED
    BY <2>1, <2>2
<1>3. HeldIsSound'
  BY <1>2 DEF HeldIsSound
<1> QED
  BY <1>1, <1>3 DEF IInv

(* An update of one task that does not approve it.                         *)
LEMMA UpdatePreserves ==
  ASSUME IInv, NEW w \in Worker, Done(w), NEW t \in Id, Exists(t),
         NEW row \in Row, task' = [task EXCEPT ![t] = row],
         row.creator = task[t].creator, row.parent = task[t].parent,
         row.blocked => row.previous # "null",
         row.status = "APPROVED" => /\ task[t].status = "APPROVED"
                                    /\ row.result = task[t].result,
         role' \in [Id -> [User -> {"NONE", "CREATOR", "ASSIGNEE", "REVIEWER",
                                    "PARTICIPANT"}]],
         \A x \in Id : Participants(x) \subseteq Participants(x)',
         row.reviewer \in Participants(t)',
         row.assignee # NoUser => row.assignee \in Participants(t)',
         submission' \in [SubId -> Submission \cup {Absent}],
         \A s \in SubId : Submitted(s) => submission'[s] = submission[s],
         \A s \in SubId : Submitted(s)' => Exists(submission'[s].task),
         recorded' \in [Id -> Status \cup {"NONE"}]
  PROVE  IInv'
<1> USE DEF IInv
<1>1. row # Absent
  BY DEF Row, Absent, Status, Active, Terminal
<1>2. task' \in [Id -> Row \cup {Absent}] /\ \A x \in Id : Exists(x)' <=> Exists(x)
  BY <1>1 DEF TypeOK, Exists
<1>3. \A x \in Id : x # t => task'[x] = task[x]
  BY DEF TypeOK
<1>4. task'[t] = row
  BY DEF TypeOK
<1>5. \A s \in SubId : Submitted(s) => Submitted(s)'
  BY DEF Submitted
<1>6. ASSUME NEW x \in Id, Exists(x)
      PROVE  /\ task[x].parent \in {None} \cup Id
             /\ task[x].parent # None => Exists(task[x].parent)
             /\ task'[x].parent = task[x].parent
             /\ task'[x].creator = task[x].creator
             /\ task'[x].blocked => task'[x].previous # "null"
  BY <1>3, <1>4, <1>6, RowExists DEF Row, HeldIsSound
<1>7. \A x \in Id : Exists(x)' => (task'[x].parent # None => Exists(task[x].parent)')
  BY <1>2, <1>6 DEF Exists
<1>8. StakeholdersTakePart'
  <2>1. ASSUME NEW x \in Id, Exists(x)
        PROVE  /\ {task'[x].creator, task'[x].reviewer} \subseteq Participants(x)'
               /\ task'[x].assignee # NoUser => task'[x].assignee \in Participants(x)'
               /\ task'[x].parent # None =>
                    task'[x].creator \in Participants(task[x].parent)'
    <3>1. task'[x].creator \in Participants(x)'
      BY <1>6, <2>1 DEF StakeholdersTakePart
    <3>2. task'[x].parent # None => task'[x].creator \in Participants(task[x].parent)'
      <4>1. CASE task[x].parent # None
        <5>1. task[x].parent \in Id /\ task[x].creator \in Participants(task[x].parent)
          BY <1>6, <2>1, <4>1 DEF StakeholdersTakePart
        <5>2. Participants(task[x].parent) \subseteq {u \in User : role'[task[x].parent][u] # "NONE"}
          BY <5>1 DEF Participants
        <5> QED
          BY <1>6, <2>1, <5>1, <5>2 DEF Participants
      <4> QED
        BY <1>6, <2>1, <4>1
    <3>3. CASE x = t
      BY <1>4, <3>1, <3>2, <3>3
    <3>4. CASE x # t
      BY <1>3, <2>1, <3>1, <3>2, <3>4 DEF StakeholdersTakePart
    <3> QED
      BY <3>3, <3>4
  <2> QED
    BY <1>2, <2>1 DEF StakeholdersTakePart, Participants
<1>9. ApprovedWasReviewed'
  <2>1. ASSUME NEW x \in Id, task'[x].status = "APPROVED"
        PROVE  task[x].status = "APPROVED" /\ task'[x].result = task[x].result
    BY <1>3, <1>4, <2>1
  <2> QED
    BY <2>1 DEF ApprovedWasReviewed, SubmissionsOf, Submitted
<1>10. \A s \in SubId : Submitted(s)' => Exists(submission[s].task)'
  <2>1. \A s \in SubId : Submitted(s)' => submission'[s].task \in Id
    BY DEF Submitted, Submission
  <2> QED
    BY <1>2, <2>1 DEF Exists
<1> QED
  BY <1>2, <1>5, <1>6, <1>7, <1>8, <1>9, <1>10, WritePreserves
-----------------------------------------------------------------------------
(* The steps that write.                                                   *)
LEMMA InsertTaskPreserves ==
  ASSUME IInv, NEW w \in Worker, InsertTask(w)
  PROVE  IInv'
<1> USE DEF IInv
<1> DEFINE r == op[w]
           row == op[w].row
           joined == [u \in User |-> CASE u = row.creator  -> "CREATOR"
                                     [] u = row.assignee -> "ASSIGNEE"
                                     [] u = row.reviewer -> "REVIEWER"
                                     [] OTHER            -> "NONE"]
<1>1. PICK t \in Id : /\ ~Exists(t)
                      /\ task' = [task EXCEPT ![t] = row]
                      /\ role' = [role EXCEPT ![t] = joined]
  BY DEF InsertTask
<1>2. /\ Done(w) /\ UNCHANGED <<submission, recorded>>
      /\ row \in Row /\ Sound(r) /\ r.pc = "create"
  BY OpByPc DEF InsertTask, HeldIsSound, TypeOK
<1>3. /\ row.status \in {"CREATED", "ASSIGNED"} /\ ~row.blocked
      /\ row.parent # None => /\ Exists(row.parent)
                              /\ row.creator \in Participants(row.parent)
  BY <1>2 DEF Sound
<1>4. row # Absent
  BY <1>3 DEF Absent
<1>5. task' \in [Id -> Row \cup {Absent}] /\ \A x \in Id : Exists(x)' <=> (Exists(x) \/ x = t)
  BY <1>1, <1>2, <1>4 DEF TypeOK, Exists
<1>6. recorded' \in [Id -> Status \cup {"NONE"}]
  BY <1>2 DEF TypeOK
<1>7. joined \in [User -> {"NONE", "CREATOR", "ASSIGNEE", "REVIEWER", "PARTICIPANT"}]
  OBVIOUS
<1>8. role' \in [Id -> [User -> {"NONE", "CREATOR", "ASSIGNEE", "REVIEWER", "PARTICIPANT"}]]
  BY <1>1, <1>7 DEF TypeOK
<1>9. \A x \in Id : x # t => task'[x] = task[x] /\ role'[x] = role[x]
  BY <1>1 DEF TypeOK
<1>10. task'[t] = row /\ role'[t] = joined
  BY <1>1 DEF TypeOK
<1>11. ASSUME NEW x \in Id, Exists(x)
       PROVE  /\ x # t /\ Exists(x)' /\ task'[x] = task[x] /\ role'[x] = role[x]
              /\ task[x].parent \in {None} \cup Id
              /\ task[x].parent # None => Exists(task[x].parent)
  BY <1>1, <1>5, <1>9, <1>11, RowExists DEF Row, HeldIsSound
<1>12. \A x \in Id : Exists(x) => Participants(x) \subseteq Participants(x)'
  BY <1>11 DEF Participants
<1>13. row.parent # None => row.parent \in Id /\ Exists(row.parent)
                            /\ task'[row.parent] # Absent
  BY <1>2, <1>3, <1>5 DEF Row, Exists
<1>14. ASSUME NEW x \in Id, Exists(x)'
       PROVE  /\ task'[x].blocked => task'[x].previous # "null"
              /\ task'[x].parent # None => Exists(task[x].parent)'
  <2>1. CASE x = t
    BY <1>3, <1>10, <1>13, <2>1 DEF Exists
  <2>2. CASE x # t
    <3>1. Exists(x) /\ task'[x] = task[x]
      BY <1>5, <1>9, <1>14, <2>2
    <3>2. task[x].parent # None => task[x].parent \in Id /\ Exists(task[x].parent)
      BY <1>11, <3>1
    <3> QED
      BY <1>5, <3>1, <3>2 DEF HeldIsSound, Exists
  <2> QED
    BY <2>1, <2>2
<1>15. StakeholdersTakePart'
  <2>1. ASSUME NEW x \in Id, Exists(x)'
        PROVE  /\ {task'[x].creator, task'[x].reviewer} \subseteq {u \in User : role'[x][u] # "NONE"}
               /\ task'[x].assignee # NoUser => role'[x][task'[x].assignee] # "NONE"
                                                /\ task'[x].assignee \in User
               /\ task'[x].parent # None =>
                    task'[x].creator \in {u \in User : role'[task'[x].parent][u] # "NONE"}
    <3>1. CASE x = t
      <4>1. {row.creator, row.reviewer} \subseteq User /\ row.assignee \in User \cup {NoUser}
        BY <1>2 DEF Row
      <4>2. row.parent # None => row.parent \in Id /\ row.parent # t
        BY <1>1, <1>13
      <4> QED
        BY <1>3, <1>9, <1>10, <3>1, <4>1, <4>2 DEF Participants
    <3>2. CASE x # t
      <4>1. Exists(x) /\ task'[x] = task[x] /\ role'[x] = role[x]
        BY <1>5, <1>9, <2>1, <3>2
      <4>2. task[x].parent # None => role'[task[x].parent] = role[task[x].parent]
        BY <1>11, <4>1
      <4> QED
        BY <4>1, <4>2 DEF StakeholdersTakePart, Participants
    <3> QED
      BY <3>1, <3>2
  <2> QED
    BY <2>1 DEF StakeholdersTakePart, Participants
<1>16. ApprovedWasReviewed'
  <2>1. ASSUME NEW x \in Id, task'[x].status = "APPROVED"
        PROVE  task[x].status = "APPROVED" /\ task'[x].result = task[x].result
    BY <1>3, <1>9, <1>10, <2>1
  <2> QED
    BY <1>2, <2>1 DEF ApprovedWasReviewed, SubmissionsOf, Submitted
<1>17. \A s \in SubId : Submitted(s)' => Exists(submission[s].task)'
  <2>1. \A s \in SubId : Submitted(s) => submission[s].task \in Id /\ Exists(submission[s].task)
    BY SubmissionExists DEF Submission, HeldIsSound
  <2> QED
    BY <1>2, <1>5, <2>1 DEF Submitted, Exists
<1>18. submission' \in [SubId -> Submission \cup {Absent}]
  BY <1>2 DEF TypeOK
<1> QED
  BY <1>2, <1>5, <1>6, <1>8, <1>11, <1>12, <1>14, <1>15, <1>16, <1>17, <1>18, WritePreserves
  DEF Submitted

(* The handlers that update one row.                                       *)
LEMMA RowUpdatesPreserve ==
  ASSUME IInv, NEW w \in Worker,
         \/ WriteReviewer(w) \/ WriteAssignee(w) \/ WriteStatus(w) \/ WriteBlock(w)
         \/ WriteUnblock(w)
  PROVE  IInv'
<1> USE DEF IInv
<1>r. PICK r \in OpState : r = op[w]
  BY DEF TypeOK
<1>t. PICK t : t = r.t
  OBVIOUS
<1>0. r = op[w] /\ t = r.t
  BY <1>r, <1>t
<1> DEFINE old == task[t]
<1>1. r \in OpState /\ Sound(r)
      /\ r.pc \in {"reviewer", "assign", "status", "block", "unblock"}
  BY <1>0 DEF HeldIsSound, WriteReviewer, WriteAssignee, WriteStatus, WriteBlock, WriteUnblock
<1>2. t \in Id /\ Exists(t) /\ old \in Row /\ r.row \in Row
  BY <1>0, <1>1, OpByPc, RowExists DEF RowOp, Sound
<1>3. /\ old.status = "APPROVED" => old.status \notin Active
      /\ old.blocked => old.previous # "null"
      /\ old.reviewer \in Participants(t)
      /\ old.assignee # NoUser => old.assignee \in Participants(t)
  BY <1>2 DEF HeldIsSound, StakeholdersTakePart, Active
<1>4. /\ submission \in [SubId -> Submission \cup {Absent}]
      /\ \A s \in SubId : Submitted(s) => Exists(submission[s].task)
      /\ recorded \in [Id -> Status \cup {"NONE"}]
      /\ role \in [Id -> [User -> {"NONE", "CREATOR", "ASSIGNEE", "REVIEWER", "PARTICIPANT"}]]
  BY DEF TypeOK, HeldIsSound
<1>5. /\ Done(w) /\ UNCHANGED submission
      /\ \A s \in SubId : Submitted(s)' => Exists(submission'[s].task)
      /\ \A s \in SubId : Submitted(s) => submission'[s] = submission[s]
      /\ submission' \in [SubId -> Submission \cup {Absent}]
  BY <1>4 DEF Submitted, WriteReviewer, WriteAssignee, WriteStatus, WriteBlock, WriteUnblock
<1>5a. UNCHANGED role => \A x \in Id : Participants(x) \subseteq Participants(x)'
  BY DEF Participants
<1>6. CASE WriteReviewer(w)
  <2> DEFINE row == [old EXCEPT !.reviewer = r.arg]
  <2>1. r.arg \in User
    BY <1>0, <1>1, <1>6, OpByPc DEF RowOp, WriteReviewer
  <2>2. /\ row \in Row /\ row.creator = old.creator /\ row.parent = old.parent
        /\ row.blocked = old.blocked /\ row.previous = old.previous
        /\ row.status = old.status /\ row.result = old.result
        /\ row.reviewer = r.arg /\ row.assignee = old.assignee
    BY <1>2, <2>1 DEF Row
  <2>3. task' = [task EXCEPT ![t] = row] /\ UNCHANGED recorded
    BY <1>0, <1>6 DEF WriteReviewer
  <2>4. role' = IF r.arg # old.creator THEN [role EXCEPT ![t][r.arg] = "REVIEWER"] ELSE role
    BY <1>0, <1>6 DEF WriteReviewer
  <2>5. role' \in [Id -> [User -> {"NONE", "CREATOR", "ASSIGNEE", "REVIEWER", "PARTICIPANT"}]]
    BY <1>2, <1>4, <2>1, <2>4
  <2>6. \A x \in Id : Participants(x) \subseteq Participants(x)'
    BY <1>2, <1>4, <2>1, <2>4 DEF Participants
  <2>7. r.arg \in Participants(t)'
    <3>1. role[t][old.creator] # "NONE"
      BY <1>2 DEF StakeholdersTakePart, Participants
    <3> QED
      BY <1>2, <1>4, <2>1, <2>4, <3>1 DEF Participants
  <2> QED
    BY <1>2, <1>3, <1>4, <1>5, <1>5a, <2>1, <2>2, <2>3, <2>5, <2>6, <2>7, UpdatePreserves
<1>7. CASE WriteAssignee(w)
  <2> DEFINE row == [old EXCEPT !.assignee = r.arg, !.status = "ASSIGNED"]
  <2>1. r.arg \in User
    BY <1>0, <1>1, <1>7, OpByPc DEF RowOp, WriteAssignee
  <2>2. /\ row \in Row /\ row.creator = old.creator /\ row.parent = old.parent
        /\ row.blocked = old.blocked /\ row.previous = old.previous
        /\ row.status = "ASSIGNED"
        /\ row.reviewer = old.reviewer /\ row.assignee = r.arg
    BY <1>2, <2>1 DEF Row, Status, Active
  <2>3. task' = [task EXCEPT ![t] = row]
    BY <1>0, <1>7 DEF WriteAssignee
  <2>4. role' = [role EXCEPT ![t][r.arg] = "ASSIGNEE"]
        /\ recorded' \in {recorded, [recorded EXCEPT ![t] = "ASSIGNED"]}
    BY <1>0, <1>7 DEF WriteAssignee
  <2>5. role' \in [Id -> [User -> {"NONE", "CREATOR", "ASSIGNEE", "REVIEWER", "PARTICIPANT"}]]
    BY <1>2, <1>4, <2>1, <2>4
  <2>6. /\ \A x \in Id : Participants(x) \subseteq Participants(x)'
        /\ r.arg \in Participants(t)'
    BY <1>2, <1>4, <2>1, <2>4 DEF Participants
  <2>7. recorded' \in [Id -> Status \cup {"NONE"}]
    BY <1>2, <1>4, <2>4 DEF Status, Active
  <2> QED
    BY <1>2, <1>3, <1>4, <1>5, <1>5a, <2>1, <2>2, <2>3, <2>5, <2>6, <2>7, UpdatePreserves
<1>8. CASE WriteStatus(w)
  <2> DEFINE row == Moved(old, r.row.status, r.arg)
  <2>1. r.arg \in {"IN_PROGRESS", "CANCELLED"} /\ r.row.status \in Active
    BY <1>0, <1>1, <1>8, OpByPc DEF RowOp, WriteStatus, Sound
  <2>1a. r.arg \in Status /\ r.arg # "APPROVED" /\ r.row.status # "null"
    BY <2>1 DEF Status, Active, Terminal
  <2>2. /\ row \in Row /\ row.creator = old.creator /\ row.parent = old.parent
        /\ row.previous # "null" /\ row.status # "APPROVED"
        /\ row.reviewer = old.reviewer /\ row.assignee = old.assignee
    BY <1>2, <2>1, <2>1a DEF Row, Moved
  <2>3. /\ task' = [task EXCEPT ![t] = row] /\ UNCHANGED role
        /\ recorded' = [recorded EXCEPT ![t] = r.arg]
    BY <1>0, <1>8 DEF WriteStatus
  <2>4. recorded' \in [Id -> Status \cup {"NONE"}]
    BY <1>2, <1>4, <2>1, <2>3 DEF Status, Active, Terminal
  <2> QED
    BY <1>2, <1>3, <1>4, <1>5, <1>5a, <2>2, <2>3, <2>4, UpdatePreserves
<1>9. CASE WriteBlock(w)
  <2> DEFINE row == [old EXCEPT !.blocked = TRUE, !.previous = r.row.status]
  <2>1. r.row.status \in Active
    BY <1>0, <1>1, <1>9, OpByPc DEF WriteBlock, Sound
  <2>2. /\ row \in Row /\ row.creator = old.creator /\ row.parent = old.parent
        /\ row.previous # "null" /\ row.status = old.status /\ row.result = old.result
        /\ row.reviewer = old.reviewer /\ row.assignee = old.assignee
    BY <1>2, <2>1 DEF Row, Active
  <2>3. task' = [task EXCEPT ![t] = row] /\ UNCHANGED <<role, recorded>>
    BY <1>0, <1>9 DEF WriteBlock
  <2> QED
    BY <1>2, <1>3, <1>4, <1>5, <1>5a, <2>2, <2>3, UpdatePreserves
<1>10. CASE WriteUnblock(w)
  <2> DEFINE row == [old EXCEPT !.status = r.row.previous, !.blocked = FALSE,
                                !.previous = "null"]
  <2>1. r.row.previous \in Active
    BY <1>0, <1>1, <1>2, <1>10 DEF WriteUnblock, Sound, Row
  <2>2. r.row.previous # "null"
    BY <1>0, <1>1, <1>10 DEF WriteUnblock, Sound
  <2>3. /\ row \in Row /\ row.creator = old.creator /\ row.parent = old.parent
        /\ ~row.blocked /\ row.status # "APPROVED"
        /\ row.reviewer = old.reviewer /\ row.assignee = old.assignee
    BY <1>2, <2>1, ZenonT(40) DEF Row, Status, Active
  <2>4. task' = [task EXCEPT ![t] = row] /\ UNCHANGED <<role, recorded>>
    BY <1>0, <1>10, <2>2 DEF WriteUnblock
  <2> QED
    BY <1>2, <1>3, <1>4, <1>5, <1>5a, <2>3, <2>4, UpdatePreserves
<1> QED
  BY <1>6, <1>7, <1>8, <1>9, <1>10

(* addParticipant writes.                                                  *)
LEMMA ParticipantPreserves ==
  ASSUME IInv, NEW w \in Worker, WriteParticipant(w)
  PROVE  IInv'
<1> USE DEF IInv
<1>0. PICK r \in OpState : r = op[w]
  BY DEF TypeOK
<1>1. /\ r \in RowOp({"reviewer", "assign", "participant"}, User) /\ Sound(r)
      /\ r.pc = "participant"
  BY <1>0, OpByPc DEF WriteParticipant, HeldIsSound
<1>2. /\ r.t \in Id /\ Exists(r.t) /\ r.arg \in User
      /\ task[r.t] \in Row
  BY <1>1, RowExists DEF RowOp, Sound
<1>3. /\ role' = [role EXCEPT ![r.t][r.arg] = "PARTICIPANT"]
      /\ UNCHANGED <<task, submission, recorded>> /\ Done(w)
  BY <1>0 DEF WriteParticipant
<1>4. /\ role' \in [Id -> [User -> {"NONE", "CREATOR", "ASSIGNEE", "REVIEWER", "PARTICIPANT"}]]
      /\ \A x \in Id : Participants(x) \subseteq Participants(x)'
  BY <1>2, <1>3 DEF TypeOK, Participants
<1>5. task' = [task EXCEPT ![r.t] = task[r.t]]
  BY <1>3 DEF TypeOK
<1>6. /\ task[r.t].blocked => task[r.t].previous # "null"
      /\ task[r.t].reviewer \in Participants(r.t)
      /\ task[r.t].assignee # NoUser => task[r.t].assignee \in Participants(r.t)
  BY <1>2 DEF HeldIsSound, StakeholdersTakePart
<1>7. /\ submission' \in [SubId -> Submission \cup {Absent}]
      /\ recorded' \in [Id -> Status \cup {"NONE"}]
      /\ \A s \in SubId : Submitted(s) => submission'[s] = submission[s]
      /\ \A s \in SubId : Submitted(s)' => Exists(submission'[s].task)
  BY <1>3 DEF TypeOK, HeldIsSound, Submitted
<1> QED
  BY <1>2, <1>3, <1>4, <1>5, <1>6, <1>7, UpdatePreserves

(* submitTaskResult writes.                                                *)
LEMMA SubmissionPreserves ==
  ASSUME IInv, NEW w \in Worker, WriteSubmission(w)
  PROVE  IInv'
<1> USE DEF IInv
<1>0. PICK r \in OpState : r = op[w]
  BY DEF TypeOK
<1> DEFINE old == task[r.t]
           row == Moved(old, r.row.status, r.arg)
           new == [task |-> r.t, status |-> "PENDING", author |-> r.by, by |-> NoUser]
<1>1. /\ r \in RowOp({"submit"}, {"WAITING_REVIEW"}) /\ Sound(r)
      /\ r.pc = "submit"
  BY <1>0, OpByPc DEF WriteSubmission, HeldIsSound
<1>2. /\ r.t \in Id /\ Exists(r.t) /\ old \in Row /\ r.by \in User
      /\ r.arg = "WAITING_REVIEW" /\ r.row.status = "IN_PROGRESS"
  BY <1>1, RowExists DEF RowOp, Sound
<1>3. PICK s \in SubId : ~Submitted(s) /\ submission' = [submission EXCEPT ![s] = new]
  BY <1>0 DEF WriteSubmission
<1>4. /\ task' = [task EXCEPT ![r.t] = row] /\ recorded' = [recorded EXCEPT ![r.t] = r.arg]
      /\ UNCHANGED role /\ Done(w)
  BY <1>0 DEF WriteSubmission
<1>5. /\ row \in Row /\ row.creator = old.creator /\ row.parent = old.parent
      /\ row.previous # "null" /\ row.status # "APPROVED"
      /\ row.reviewer = old.reviewer /\ row.assignee = old.assignee
  BY <1>2 DEF Row, Moved, Status, Active
<1>6. /\ old.reviewer \in Participants(r.t)
      /\ old.assignee # NoUser => old.assignee \in Participants(r.t)
      /\ \A x \in Id : Participants(x) \subseteq Participants(x)'
  BY <1>2, <1>4 DEF StakeholdersTakePart, Participants
<1>7. new \in Submission
  BY <1>2 DEF Submission
<1>8. submission' \in [SubId -> Submission \cup {Absent}]
  BY <1>3, <1>7 DEF TypeOK
<1>9. \A q \in SubId : Submitted(q) => submission'[q] = submission[q]
  BY <1>3 DEF TypeOK
<1>10. \A q \in SubId : Submitted(q)' => Exists(submission'[q].task)
  <2>1. \A q \in SubId : q # s => submission'[q] = submission[q]
    BY <1>3 DEF TypeOK
  <2>2. submission'[s].task = r.t
    BY <1>3 DEF TypeOK
  <2> QED
    BY <1>2, <2>1, <2>2 DEF Submitted, HeldIsSound
<1>11. recorded' \in [Id -> Status \cup {"NONE"}]
  BY <1>2, <1>4 DEF TypeOK, Status, Active
<1>12. role' \in [Id -> [User -> {"NONE", "CREATOR", "ASSIGNEE", "REVIEWER", "PARTICIPANT"}]]
  BY <1>4 DEF TypeOK
<1> QED
  BY <1>2, <1>4, <1>5, <1>6, <1>8, <1>9, <1>10, <1>11, <1>12, UpdatePreserves

(* reviewSubmission writes.                                                *)
LEMMA DecisionPreserves ==
  ASSUME IInv, NEW w \in Worker, WriteDecision(w)
  PROVE  IInv'
<1> USE DEF IInv
<1>0. PICK r \in OpState : r = op[w]
  BY DEF TypeOK
<1> DEFINE old == task[r.t]
           row == [Moved(old, r.row.status, r.arg) EXCEPT
                     !.result = IF r.arg = "APPROVED" THEN r.sub ELSE r.row.result]
           sub == [submission[r.sub] EXCEPT !.status = r.arg, !.by = r.by]
<1>1. /\ r \in [pc: {"latest", "children", "decide"}, by: User, t: Id, arg: Decision,
                row: Row, sub: SubId]
      /\ Sound(r) /\ r.pc = "decide"
  BY <1>0, OpByPc DEF WriteDecision, HeldIsSound
<1>2. /\ Exists(r.t) /\ old \in Row /\ r.row \in Row
      /\ Submitted(r.sub) /\ submission[r.sub].task = r.t /\ r.row.status = "WAITING_REVIEW"
  BY <1>1, RowExists DEF Sound, SubmissionsOf
<1>3. /\ task' = [task EXCEPT ![r.t] = row] /\ recorded' = [recorded EXCEPT ![r.t] = r.arg]
      /\ submission' = [submission EXCEPT ![r.sub] = sub]
      /\ UNCHANGED role /\ Done(w)
  BY <1>0 DEF WriteDecision
<1>4. r.arg \in Status /\ r.row.status \in Active
  BY <1>1, <1>2 DEF Decision, Status, Active, Terminal
<1>5. /\ row \in Row /\ row.creator = old.creator /\ row.parent = old.parent
      /\ row.previous # "null" /\ row.status = r.arg
      /\ row.reviewer = old.reviewer /\ row.assignee = old.assignee
      /\ r.arg = "APPROVED" => row.result = r.sub
  <2> DEFINE moved == Moved(old, r.row.status, r.arg)
             result == IF r.arg = "APPROVED" THEN r.sub ELSE r.row.result
  <2>1. r.row.status # "null"
    BY <1>4 DEF Active
  <2>2. /\ moved \in Row /\ moved.creator = old.creator /\ moved.parent = old.parent
        /\ moved.previous # "null" /\ moved.status = r.arg
        /\ moved.reviewer = old.reviewer /\ moved.assignee = old.assignee
    BY <1>2, <1>4, <2>1 DEF Row, Moved
  <2>3. result \in {None} \cup SubId /\ (r.arg = "APPROVED" => result = r.sub)
    BY <1>1, <1>2 DEF Row
  <2> HIDE DEF moved, result
  <2>4. row = [moved EXCEPT !.result = result]
    BY DEF moved, result
  <2> QED
    BY <2>2, <2>3, <2>4 DEF Row
<1>6. submission[r.sub] \in Submission
  BY <1>1, <1>2, SubmissionExists
<1>7. sub \in Submission /\ sub.task = r.t /\ sub.status = r.arg
  BY <1>1, <1>2, <1>6 DEF Submission
<1>8. sub # Absent /\ row # Absent
  BY <1>4, <1>5, <1>7 DEF Submission, Absent, Decision, Status, Active, Terminal
<1>9. /\ submission' \in [SubId -> Submission \cup {Absent}]
      /\ recorded' \in [Id -> Status \cup {"NONE"}]
      /\ task' \in [Id -> Row \cup {Absent}]
      /\ role' \in [Id -> [User -> {"NONE", "CREATOR", "ASSIGNEE", "REVIEWER",
                                    "PARTICIPANT"}]]
  BY <1>1, <1>3, <1>4, <1>5, <1>7 DEF TypeOK
<1>10. /\ \A q \in SubId : Submitted(q)' <=> Submitted(q)
       /\ \A q \in SubId : submission'[q].task = submission[q].task
       /\ \A q \in SubId : q # r.sub => submission'[q] = submission[q]
       /\ submission'[r.sub] = sub
  BY <1>1, <1>2, <1>3, <1>7, <1>8 DEF TypeOK, Submitted
<1>11. /\ \A x \in Id : Exists(x)' <=> Exists(x)
       /\ \A x \in Id : x # r.t => task'[x] = task[x]
       /\ task'[r.t] = row
  BY <1>1, <1>2, <1>3, <1>8 DEF TypeOK, Exists
<1>12. ASSUME NEW x \in Id, Exists(x)
       PROVE  /\ task'[x].creator = task[x].creator /\ task'[x].parent = task[x].parent
              /\ task'[x].reviewer = task[x].reviewer /\ task'[x].assignee = task[x].assignee
              /\ task'[x].blocked => task'[x].previous # "null"
              /\ task[x].parent # None => task[x].parent \in Id /\ Exists(task[x].parent)
  BY <1>5, <1>11, <1>12, RowExists DEF HeldIsSound, Row
<1>13. StakeholdersTakePart'
  <2>1. \A x \in Id : Participants(x)' = Participants(x)
    BY <1>3 DEF Participants
  <2> QED
    BY <1>11, <1>12, <2>1 DEF StakeholdersTakePart
<1>14. ApprovedWasReviewed'
  <2>1. ASSUME NEW x \in Id, task'[x].status = "APPROVED"
        PROVE  \E s \in SubId : /\ Submitted(s)' /\ submission'[s].task = x
                                /\ task'[x].result = s /\ submission'[s].status = "APPROVED"
    <3>1. CASE x = r.t
      BY <1>1, <1>2, <1>5, <1>7, <1>10, <1>11, <2>1, <3>1, ZenonT(40)
    <3>2. CASE x # r.t
      <4>1. task[x].status = "APPROVED" /\ task'[x] = task[x]
        BY <1>11, <2>1, <3>2
      <4>2. PICK s \in SubmissionsOf(x) : task[x].result = s /\ submission[s].status = "APPROVED"
        BY <4>1 DEF ApprovedWasReviewed
      <4>3. s # r.sub /\ s \in SubId /\ Submitted(s) /\ submission[s].task = x
        BY <1>2, <3>2, <4>2 DEF SubmissionsOf
      <4> QED
        BY <1>10, <4>1, <4>2, <4>3
    <3> QED
      BY <3>1, <3>2
  <2> QED
    BY <2>1 DEF ApprovedWasReviewed, SubmissionsOf, Submitted
<1>15. \A x \in Id : Exists(x)' => /\ task'[x].blocked => task'[x].previous # "null"
                                   /\ task'[x].parent # None => Exists(task[x].parent)'
  BY <1>11, <1>12 DEF Exists
<1>16. \A s \in SubId : Submitted(s)' => Exists(submission[s].task)'
  <2>1. \A s \in SubId : Submitted(s) => submission[s].task \in Id /\ Exists(submission[s].task)
    BY SubmissionExists DEF Submission, HeldIsSound
  <2> QED
    BY <1>10, <1>11, <2>1 DEF Exists
<1>17. \A x \in Id : Participants(x) \subseteq Participants(x)'
  BY <1>3 DEF Participants
<1> QED
  BY <1>3, <1>9, <1>10, <1>11, <1>13, <1>14, <1>15, <1>16, <1>17, WritePreserves
-----------------------------------------------------------------------------
(* The invariant holds at the start.                                       *)
LEMMA InitIInv == Init => IInv
<1> SUFFICES ASSUME Init PROVE IInv
  OBVIOUS
<1>1. TypeOK
  BY TaskConstants DEF Init, TypeOK, OpState
<1>2. (\A t \in Id : ~Exists(t)) /\ (\A s \in SubId : ~Submitted(s))
  BY DEF Init, Exists, Submitted
<1>3. \A w \in Worker : Sound(op[w])
  BY DEF Init, Sound, Idle
<1>4. ApprovedWasReviewed
  BY DEF Init, ApprovedWasReviewed, Absent
<1> QED
  BY <1>1, <1>2, <1>3, <1>4 DEF IInv, StakeholdersTakePart, HeldIsSound

(* Every step keeps the invariant.                                         *)
LEMMA NextIInv == IInv /\ [Next]_vars => IInv'
<1> SUFFICES ASSUME IInv, [Next]_vars PROVE IInv'
  OBVIOUS
<1>1. ASSUME NEW w \in Worker, Step(w) PROVE IInv'
  BY <1>1, StartPreserves, ReadPreserves, InsertTaskPreserves, RowUpdatesPreserve,
     ParticipantPreserves, SubmissionPreserves, DecisionPreserves DEF Step
<1>2. CASE UNCHANGED vars
  BY <1>2 DEF vars, IInv, TypeOK, StakeholdersTakePart, ApprovedWasReviewed, HeldIsSound,
     Sound, Exists, Submitted, SubmissionsOf, Participants
<1> QED
  BY <1>1, <1>2 DEF Next

(* Every handler step keeps the tables and what handlers hold well typed.  *)
THEOREM TypeCorrect == Spec => []TypeOK
<1>1. IInv => TypeOK
  BY DEF IInv
<1> QED
  BY <1>1, InitIInv, NextIInv, PTL DEF Spec

(* However the handlers of any number of users interleave, everybody a     *)
(* task names is a participant of it.                                      *)
THEOREM StakeholdersAlwaysTakePart == Spec => []StakeholdersTakePart
<1>1. IInv => StakeholdersTakePart
  BY DEF IInv
<1> QED
  BY <1>1, InitIInv, NextIInv, PTL DEF Spec

(* Whatever stale rows are written, a task is never APPROVED without a     *)
(* submission of its own that a review approved and that is its result.    *)
THEOREM NothingApprovedUnreviewed == Spec => []ApprovedWasReviewed
<1>1. IInv => ApprovedWasReviewed
  BY DEF IInv
<1> QED
  BY <1>1, InitIInv, NextIInv, PTL DEF Spec
-----------------------------------------------------------------------------
(***************************************************************************)
(* Handlers one at a time.  What is proved here is what the interleavings  *)
(* of the service break: it holds as long as at most one handler is in     *)
(* progress, whatever that handler does and wherever it is cut short.      *)
(***************************************************************************)
(* What a handler has read is still so, and passed its checks.             *)
Current(o) ==
  /\ o.pc \notin {"idle", "create", "review"} => o.row = task[o.t]
  /\ o.pc = "create" =>
       /\ o.row.assignee # o.row.reviewer
       /\ o.row.status = IF o.row.assignee = NoUser THEN "CREATED" ELSE "ASSIGNED"
  /\ o.pc = "reviewer" => o.arg # o.row.assignee
  /\ o.pc = "assign" => o.arg # o.row.reviewer
  /\ o.pc = "status" => o.arg \in Transition[o.row.status]
  /\ o.pc \in {"assign", "status", "block", "submit", "latest", "children", "decide"} =>
       ~o.row.blocked
  /\ o.pc = "unblock" => o.row.blocked
  /\ o.pc = "submit" => o.by = o.row.assignee
  /\ o.pc = "review" => o.seen = submission[o.sub].status
  /\ o.pc \in {"latest", "children", "decide"} =>
       o.by = o.row.reviewer /\ submission[o.sub].status = "PENDING"
  /\ o.pc \in {"children", "decide"} => LatestPending(o.t, o.sub)

LastOf(t, s) == s \in SubmissionsOf(t) /\ \A q \in SubmissionsOf(t) : q <= s

(* The last submission of a task carries its outcome; while it waits for   *)
(* its review, its author is the assignee.                                 *)
OutcomeOf(t) ==
  /\ task[t].status = "WAITING_REVIEW" =>
       \E s \in SubId : /\ LastOf(t, s) /\ submission[s].status = "PENDING"
                        /\ submission[s].author = task[t].assignee
  /\ task[t].status \in Decision =>
       \E s \in SubId : LastOf(t, s) /\ submission[s].status = task[t].status

(* A blocked task has kept its status for unblockTask to restore, and the  *)
(* assignee does not review.                                               *)
RowTidy(t) ==
  Exists(t) => /\ task[t].blocked => task[t].previous = task[t].status
               /\ task[t].assignee # task[t].reviewer

Filled == \A s, q \in SubId : (q < s /\ Submitted(s)) => Submitted(q)

Tidy ==
  /\ Filled /\ HistoryReplays /\ NoSelfReview
  /\ \A t \in Id : RowTidy(t) /\ OutcomeOf(t)

Alone == \A w, x \in Worker : (op[w] # Idle /\ op[x] # Idle) => w = x

SerialInv == Tidy /\ Alone /\ \A w \in Worker : Current(op[w])

(* A step of handler w, which was or is in progress. *)
StepOf(w, o) ==
  /\ op' = [op EXCEPT ![w] = o]
  /\ o # Idle \/ op[w] # Idle

Quiet == UNCHANGED <<task, submission, recorded>>

(* A step of TaskWorkflow on the task t, or none.                          *)
Lifecycle(t) ==
  /\ \A x \in Id : x # t => task'[x] = task[x]
  /\ LET old == task[t]  new == task'[t] IN
     \/ /\ ~Exists(t) /\ new \in Row /\ ~new.blocked
        /\ new.status \in {"CREATED", "ASSIGNED"}
     \/ /\ Exists(t) /\ new \in Row
        /\ \/ ~old.blocked /\ ~new.blocked /\ <<old.status, new.status>> \in SerialWorkflow!Edge
           \/ /\ old.status \in Active /\ new.status = old.status
              /\ ~old.blocked /\ new.blocked
           \/ old.blocked /\ ~new.blocked /\ new.status = old.status
           \/ new.blocked = old.blocked /\ new.status = old.status
-----------------------------------------------------------------------------
(* A set of at most one member.                                            *)
LEMMA AtMostOne ==
  ASSUME NEW S, NEW a, NEW b, S \subseteq {a, b}, Cardinality(S) <= 1
  PROVE  \A x, y \in S : x = y
<1> SUFFICES ASSUME NEW x \in S, NEW y \in S, x # y PROVE FALSE
  OBVIOUS
<1>1. S = {x} \cup {y}
  OBVIOUS
<1>2. IsFiniteSet({x}) /\ Cardinality({x}) = 1
  BY FS_Singleton
<1>3. Cardinality({x} \cup {y}) = 2
  BY <1>2, FS_AddElement
<1> QED
  BY <1>1, <1>3

(* A step that leaves at most one handler in progress.                     *)
LEMMA AloneStep ==
  ASSUME TypeOK, Alone, Serial, NEW w \in Worker, NEW o, StepOf(w, o)
  PROVE  Alone'
<1>1. \A x \in Worker : op'[x] = IF x = w THEN o ELSE op[x]
  BY DEF TypeOK, StepOf
<1> DEFINE busy == {x \in Worker : op'[x] # Idle}
<1>2. \E a : busy \subseteq {a, w}
  <2>1. CASE \E a \in Worker : op[a] # Idle
    <3>1. PICK a \in Worker : op[a] # Idle
      BY <2>1
    <3>2. busy \subseteq {a, w}
      BY <1>1, <3>1 DEF Alone
    <3> QED
      BY <3>2
  <2>2. CASE ~ \E a \in Worker : op[a] # Idle
    BY <1>1, <2>2
  <2> QED
    BY <2>1, <2>2
<1>3. Cardinality(busy) <= 1
  BY DEF Serial
<1>4. \A x, y \in busy : x = y
  BY <1>2, <1>3, AtMostOne
<1> QED
  BY <1>4 DEF Alone

(* After a step of a handler the others are idle, and hold nothing. *)
LEMMA CurrentStep ==
  ASSUME TypeOK, Alone, Alone', NEW w \in Worker, NEW o, StepOf(w, o), Current(o)'
  PROVE  (\A x \in Worker : Current(op[x]))'
<1>1. \A x \in Worker : op'[x] = IF x = w THEN o ELSE op[x]
  BY DEF TypeOK, StepOf
<1>2. \A x \in Worker : x # w => op'[x] = Idle
  BY <1>1 DEF Alone, StepOf
<1>3. ASSUME NEW x \in Worker PROVE Current(op[x])'
  <2>1. CASE x = w
    <3>1. op'[x] = o
      BY <1>1, <2>1
    <3> QED
      BY <3>1 DEF Current, LatestPending, SubmissionsOf, Submitted
  <2>2. CASE x # w
    BY <1>2, <2>2 DEF Current, Idle
  <2> QED
    BY <2>1, <2>2
<1> QED
  BY <1>3

(* A handler that ends, or is cut short. *)
LEMMA IdleIsCurrent ==
  ASSUME NEW w \in Worker, op[w] # Idle, op' = [op EXCEPT ![w] = Idle]
  PROVE  \E o : StepOf(w, o) /\ Current(o)'
<1>1. PICK o : o = Idle
  OBVIOUS
<1>2. o.pc = "idle"
  BY <1>1 DEF Idle
<1>3. StepOf(w, o)
  BY <1>1 DEF StepOf
<1>4. Current(o)'
  BY <1>2 DEF Current
<1> QED
  BY <1>3, <1>4

(* A step that only reads, or adds a participant.                          *)
LEMMA QuietIsTidy ==
  ASSUME Tidy, Quiet
  PROVE  Tidy'
BY DEF Tidy, Quiet, Filled, HistoryReplays, FirstStatus, NoSelfReview, RowTidy, OutcomeOf,
       LastOf, SubmissionsOf, Submitted, Exists

(* One row is written: a new one without history, one whose status is      *)
(* recorded, or one whose status stays.                                    *)
LEMMA HistoryFollows ==
  ASSUME TypeOK, HistoryReplays, NEW t \in Id, NEW row \in Row,
         task' = [task EXCEPT ![t] = row],
         \/ recorded' = [recorded EXCEPT ![t] = row.status]
         \/ /\ Exists(t) /\ recorded' = recorded /\ row.status = task[t].status
            /\ \/ row.assignee = task[t].assignee
               \/ row.status = "ASSIGNED" /\ row.assignee # NoUser
         \/ /\ ~Exists(t) /\ recorded' = recorded
            /\ row.status = IF row.assignee = NoUser THEN "CREATED" ELSE "ASSIGNED"
  PROVE  HistoryReplays'
<1>1. \A x \in Id : task'[x] = IF x = t THEN row ELSE task[x]
  BY DEF TypeOK
<1>2. row # Absent /\ row.status # "NONE"
  BY DEF Row, Absent, Status, Active, Terminal
<1>3. \A x \in Id : x # t => recorded'[x] = recorded[x]
  BY DEF TypeOK
<1>4. ASSUME NEW x \in Id, x # t
      PROVE  /\ ~Exists(x)' => recorded'[x] = "NONE"
             /\ Exists(x)' => task'[x].status = IF recorded'[x] = "NONE" THEN FirstStatus(x)'
                                                                         ELSE recorded'[x]
  BY <1>1, <1>3, <1>4 DEF HistoryReplays, Exists, FirstStatus
<1>5. task'[t] = row /\ Exists(t)'
  BY <1>1, <1>2 DEF Exists
<1>6. row.status = IF recorded'[t] = "NONE"
                   THEN IF row.assignee = NoUser THEN "CREATED" ELSE "ASSIGNED"
                   ELSE recorded'[t]
  <2>1. recorded \in [Id -> Status \cup {"NONE"}]
    BY DEF TypeOK
  <2>2. ~Exists(t) => recorded[t] = "NONE"
    BY DEF HistoryReplays
  <2>3. Exists(t) => task[t].status = IF recorded[t] = "NONE" THEN FirstStatus(t) ELSE recorded[t]
    BY DEF HistoryReplays
  <2> QED
    BY <1>2, <2>1, <2>2, <2>3 DEF FirstStatus
<1> QED
  BY <1>4, <1>5, <1>6 DEF HistoryReplays, FirstStatus

(* A new row, or one row updated, that leaves the submissions alone.       *)
LEMMA RowIsTidy ==
  ASSUME TypeOK, Tidy, NEW t \in Id, NEW row \in Row,
         task' = [task EXCEPT ![t] = row], UNCHANGED submission,
         \/ recorded' = [recorded EXCEPT ![t] = row.status]
         \/ /\ Exists(t) /\ recorded' = recorded /\ row.status = task[t].status
            /\ \/ row.assignee = task[t].assignee
               \/ row.status = "ASSIGNED" /\ row.assignee # NoUser
         \/ /\ ~Exists(t) /\ recorded' = recorded
            /\ row.status = IF row.assignee = NoUser THEN "CREATED" ELSE "ASSIGNED",
         row.blocked => row.previous = row.status,
         row.assignee # row.reviewer,
         row.status \in Decision => row.status = task[t].status,
         row.status = "WAITING_REVIEW" =>
           task[t].status = "WAITING_REVIEW" /\ row.assignee = task[t].assignee
  PROVE  Tidy'
<1>1. \A x \in Id : task'[x] = IF x = t THEN row ELSE task[x]
  BY DEF TypeOK
<1>2. Filled' /\ NoSelfReview'
  BY DEF Tidy, Filled, NoSelfReview, Submitted
<1>3. HistoryReplays'
  BY HistoryFollows DEF Tidy
<1>4. ASSUME NEW x \in Id PROVE RowTidy(x)'
  BY <1>1 DEF Tidy, RowTidy, Exists
<1>5. ASSUME NEW x \in Id PROVE OutcomeOf(x)'
  <2>1. \A s : LastOf(x, s)' <=> LastOf(x, s)
    BY DEF LastOf, SubmissionsOf, Submitted
  <2>2. OutcomeOf(x)
    BY DEF Tidy
  <2>3. CASE x = t
    BY <1>1, <2>1, <2>2, <2>3 DEF OutcomeOf
  <2>4. CASE x # t
    BY <1>1, <2>1, <2>2, <2>4 DEF OutcomeOf
  <2> QED
    BY <2>3, <2>4
<1> QED
  BY <1>2, <1>3, <1>4, <1>5 DEF Tidy
-----------------------------------------------------------------------------
(* Handlers that begin: what they read is current.                         *)
LEMMA AskIsCurrent ==
  ASSUME TypeOK, NEW w \in Worker, NEW t \in Id, Exists(t), NEW by, NEW pc, NEW arg,
         Ask(w, pc, t, by, arg),
         \/ pc = "participant"
         \/ pc = "reviewer" /\ arg # task[t].assignee
         \/ pc = "assign" /\ arg # task[t].reviewer /\ ~task[t].blocked
         \/ pc = "status" /\ arg \in Transition[task[t].status] /\ ~task[t].blocked
         \/ pc = "block" /\ ~task[t].blocked
         \/ pc = "unblock" /\ task[t].blocked
         \/ pc = "submit" /\ ~task[t].blocked /\ by = task[t].assignee
  PROVE  Quiet /\ \E o : StepOf(w, o) /\ Current(o)'
<1>1. PICK o : o = [pc |-> pc, by |-> by, t |-> t, arg |-> arg, row |-> task[t]]
  OBVIOUS
<1>2. Begin(w, o)
  BY <1>1 DEF Ask
<1>3. /\ o.pc = pc /\ o.by = by /\ o.t = t /\ o.arg = arg /\ o.row = task[t]
  BY <1>1
<1>4. Quiet /\ op' = [op EXCEPT ![w] = o]
  BY <1>2 DEF Begin, Keep, Quiet
<1>5. o # Idle
  BY <1>3 DEF Idle
<1>6. Current(o)'
  BY <1>3, <1>4 DEF Current, Quiet
<1> QED
  BY <1>4, <1>5, <1>6 DEF StepOf

(* Requests that begin, the two that hold more than a row included.       *)
LEMMA StartIsCurrent ==
  ASSUME TypeOK, NEW w \in Worker,
         \/ AssignReviewer(w) \/ AssignTask(w) \/ UpdateTaskStatus(w) \/ BlockTask(w)
         \/ UnblockTask(w) \/ AddParticipant(w) \/ SubmitTaskResult(w)
         \/ CreateTask(w) \/ ReviewSubmission(w)
  PROVE  Quiet /\ \E o : StepOf(w, o) /\ Current(o)'
<1>1. CASE AssignReviewer(w)
  BY <1>1, AskIsCurrent DEF AssignReviewer
<1>2. CASE AssignTask(w)
  BY <1>2, AskIsCurrent DEF AssignTask
<1>3. CASE UpdateTaskStatus(w)
  BY <1>3, AskIsCurrent DEF UpdateTaskStatus
<1>4. CASE BlockTask(w)
  BY <1>4, AskIsCurrent DEF BlockTask
<1>5. CASE UnblockTask(w)
  BY <1>5, AskIsCurrent DEF UnblockTask
<1>6. CASE AddParticipant(w)
  BY <1>6, AskIsCurrent DEF AddParticipant
<1>7. CASE SubmitTaskResult(w)
  BY <1>7, AskIsCurrent DEF SubmitTaskResult
<1>8. CASE CreateTask(w)
  <2>1. PICK row : /\ Begin(w, [pc |-> "create", row |-> row])
                   /\ row.assignee # row.reviewer
                   /\ row.status = IF row.assignee = NoUser THEN "CREATED" ELSE "ASSIGNED"
    <3>1. PICK u \in User, q \in User, a \in User \cup {NoUser}, p \in {None} \cup Id :
            /\ a # q
            /\ Begin(w, [pc |-> "create",
                 row |-> [status |-> IF a = NoUser THEN "CREATED" ELSE "ASSIGNED",
                          creator |-> u, assignee |-> a, reviewer |-> q, parent |-> p,
                          blocked |-> FALSE, previous |-> "null", result |-> None]])
      BY <1>8 DEF CreateTask
    <3> DEFINE row == [status |-> IF a = NoUser THEN "CREATED" ELSE "ASSIGNED",
                       creator |-> u, assignee |-> a, reviewer |-> q, parent |-> p,
                       blocked |-> FALSE, previous |-> "null", result |-> None]
    <3>2. /\ row.assignee = a /\ row.reviewer = q
          /\ row.status = IF a = NoUser THEN "CREATED" ELSE "ASSIGNED"
      OBVIOUS
    <3> QED
      BY <3>1, <3>2
  <2>2. PICK o : o = [pc |-> "create", row |-> row]
    OBVIOUS
  <2>3. o.pc = "create" /\ o.row = row /\ o # Idle
    BY <2>2 DEF Idle
  <2>4. Quiet /\ op' = [op EXCEPT ![w] = o]
    BY <2>1, <2>2 DEF Begin, Keep, Quiet
  <2>5. Current(o)'
    BY <2>1, <2>3 DEF Current
  <2> QED
    BY <2>3, <2>4, <2>5 DEF StepOf
<1>9. CASE ReviewSubmission(w)
  <2>1. PICK s \in SubId, u \in User, d \in Decision :
          Begin(w, [pc |-> "review", by |-> u, arg |-> d, sub |-> s,
                    seen |-> submission[s].status])
    BY <1>9 DEF ReviewSubmission
  <2>2. PICK o : o = [pc |-> "review", by |-> u, arg |-> d, sub |-> s,
                      seen |-> submission[s].status]
    OBVIOUS
  <2>3. o.pc = "review" /\ o.sub = s /\ o.seen = submission[s].status /\ o # Idle
    BY <2>2 DEF Idle
  <2>4. Quiet /\ op' = [op EXCEPT ![w] = o]
    BY <2>1, <2>2 DEF Begin, Keep, Quiet
  <2>5. Current(o)'
    BY <2>3, <2>4 DEF Current, Quiet
  <2> QED
    BY <2>3, <2>4, <2>5 DEF StepOf
<1> QED
  BY <1>1, <1>2, <1>3, <1>4, <1>5, <1>6, <1>7, <1>8, <1>9

(* The reads of a review, one after the other.                             *)
LEMMA ReviewIsCurrent ==
  ASSUME IInv, NEW w \in Worker, Current(op[w]),
         ReviewTask(w) \/ ReviewLatest(w) \/ ReviewChildren(w) \/ Abort(w)
  PROVE  Quiet /\ \E o : StepOf(w, o) /\ Current(o)'
<1>1. CASE ReviewTask(w)
  <2>1. PICK r \in OpState : r = op[w]
    BY DEF IInv, TypeOK
  <2>2. PICK t : t = submission[r.sub].task
    OBVIOUS
  <2>3. PICK o : o = [pc |-> "latest", by |-> r.by, t |-> t, arg |-> r.arg, row |-> task[t],
                      sub |-> r.sub]
    OBVIOUS
  <2>4. /\ r.pc = "review" /\ task[t].reviewer = r.by /\ ~task[t].blocked
        /\ r.seen = "PENDING" /\ Continue(w, o)
    BY <1>1, <2>1, <2>2, <2>3 DEF ReviewTask
  <2>5. submission[r.sub].status = "PENDING"
    BY <2>1, <2>4 DEF Current
  <2>6. /\ o.pc = "latest" /\ o.by = r.by /\ o.t = t /\ o.row = task[t] /\ o.sub = r.sub
        /\ o # Idle
    BY <2>3 DEF Idle
  <2>7. Quiet /\ op' = [op EXCEPT ![w] = o]
    BY <2>4 DEF Continue, Keep, Quiet
  <2>8. Current(o)'
    BY <2>4, <2>5, <2>6, <2>7 DEF Current, Quiet
  <2> QED
    BY <2>6, <2>7, <2>8 DEF StepOf
<1>2. CASE ReviewLatest(w) \/ ReviewChildren(w)
  <2>1. PICK r \in OpState : r = op[w]
    BY DEF IInv, TypeOK
  <2>2. PICK pc \in {"children", "decide"} : Continue(w, [r EXCEPT !.pc = pc])
    BY <1>2, <2>1 DEF ReviewLatest, ReviewChildren
  <2>3. /\ r \in [pc: {"latest", "children", "decide"}, by: User, t: Id, arg: Decision,
                  row: Row, sub: SubId]
        /\ LatestPending(r.t, r.sub)
    BY <1>2, <2>1, OpByPc DEF ReviewLatest, ReviewChildren, Current
  <2>4. PICK o : o = [r EXCEPT !.pc = pc]
    OBVIOUS
  <2>5. /\ o.pc = pc /\ o.t = r.t /\ o.sub = r.sub /\ o.row = r.row /\ o.by = r.by
        /\ o # Idle
    BY <2>3, <2>4 DEF Idle
  <2>6. Quiet /\ op' = [op EXCEPT ![w] = o]
    BY <2>2, <2>4 DEF Continue, Keep, Quiet
  <2>7. /\ r.row = task[r.t] /\ ~r.row.blocked /\ r.by = r.row.reviewer
        /\ submission[r.sub].status = "PENDING"
    BY <2>1, <2>3 DEF Current
  <2>8. LatestPending(o.t, o.sub)'
    BY <2>3, <2>5, <2>6 DEF LatestPending, SubmissionsOf, Submitted, Quiet
  <2>9. Current(o)'
    BY <2>5, <2>6, <2>7, <2>8 DEF Current, Quiet
  <2> QED
    BY <2>5, <2>6, <2>9 DEF StepOf
<1>3. CASE Abort(w)
  <2>1. Quiet /\ op[w] # Idle /\ op' = [op EXCEPT ![w] = Idle]
    BY <1>3 DEF Abort, Continue, Keep, Quiet
  <2> QED
    BY <2>1, IdleIsCurrent
<1> QED
  BY <1>1, <1>2, <1>3
-----------------------------------------------------------------------------
(* Handlers that end by writing one row.  Each moves the task as           *)
(* TaskWorkflow says, since what it read has not changed.                  *)
LEMMA InsertIsTidy ==
  ASSUME IInv, Tidy, NEW w \in Worker, Current(op[w]), InsertTask(w)
  PROVE  Tidy' /\ \E t \in Id : Lifecycle(t)
<1>1. PICK r \in OpState : r = op[w]
  BY DEF IInv, TypeOK
<1>2. PICK row : row = r.row
  OBVIOUS
<1>3. /\ r.pc = "create" /\ row \in Row /\ row.assignee # row.reviewer
      /\ row.status \in {"CREATED", "ASSIGNED"} /\ ~row.blocked
      /\ row.status = IF row.assignee = NoUser THEN "CREATED" ELSE "ASSIGNED"
  BY <1>1, <1>2, OpByPc DEF InsertTask, Current, IInv, HeldIsSound, Sound
<1>4. PICK t \in Id : ~Exists(t) /\ task' = [task EXCEPT ![t] = row]
  BY <1>1, <1>2 DEF InsertTask
<1>5. UNCHANGED <<submission, recorded>>
  BY DEF InsertTask
<1>6. row.status \notin Decision /\ row.status # "WAITING_REVIEW"
  BY <1>3 DEF Decision
<1>7. Tidy'
  BY <1>3, <1>4, <1>5, <1>6, RowIsTidy DEF IInv
<1>8. task'[t] = row /\ \A x \in Id : x # t => task'[x] = task[x]
  BY <1>4 DEF IInv, TypeOK
<1> QED
  BY <1>3, <1>4, <1>7, <1>8 DEF Lifecycle

(* The handlers that update the row they have read.                        *)
LEMMA UpdatesAreTidy ==
  ASSUME IInv, Tidy, NEW w \in Worker, Current(op[w]),
         \/ WriteReviewer(w) \/ WriteAssignee(w) \/ WriteStatus(w) \/ WriteBlock(w)
         \/ WriteUnblock(w)
  PROVE  Tidy' /\ \E t \in Id : Lifecycle(t)
<1>r. PICK r \in OpState : r = op[w]
  BY DEF IInv, TypeOK
<1>t. PICK t : t = r.t
  OBVIOUS
<1>0. r = op[w] /\ t = r.t
  BY <1>r, <1>t
<1>1. /\ r \in OpState /\ Sound(r) /\ Current(r)
      /\ r.pc \in {"reviewer", "assign", "status", "block", "unblock"}
  BY <1>0 DEF IInv, HeldIsSound, WriteReviewer, WriteAssignee, WriteStatus, WriteBlock,
              WriteUnblock
<1>2. PICK old \in Row : old = task[t]
  BY <1>0, <1>1, OpByPc, RowExists DEF IInv, RowOp, Sound
<1>3. /\ t \in Id /\ Exists(t) /\ r.row = old /\ task[t] = old
      /\ old.blocked => old.previous = old.status
      /\ old.assignee # old.reviewer
  BY <1>0, <1>1, <1>2, OpByPc DEF IInv, RowOp, Sound, Current, Tidy, RowTidy
<1>4. UNCHANGED submission
  BY DEF WriteReviewer, WriteAssignee, WriteStatus, WriteBlock, WriteUnblock
<1>5. ASSUME NEW row \in Row, task' = [task EXCEPT ![t] = row]
      PROVE  /\ task'[t] = row /\ \A x \in Id : x # t => task'[x] = task[x]
             /\ (\/ <<old.status, row.status>> \in SerialWorkflow!Edge
                    /\ ~old.blocked /\ ~row.blocked
                 \/ old.status \in Active /\ row.status = old.status
                    /\ ~old.blocked /\ row.blocked
                 \/ old.blocked /\ ~row.blocked /\ row.status = old.status
                 \/ row.blocked = old.blocked /\ row.status = old.status)
                => Lifecycle(t)
  <2>1. task'[t] = row /\ \A x \in Id : x # t => task'[x] = task[x]
    BY <1>3, <1>5 DEF IInv, TypeOK
  <2> QED
    BY <1>3, <2>1 DEF Lifecycle
<1>6. CASE WriteReviewer(w)
  <2>1. PICK row : row = [old EXCEPT !.reviewer = r.arg]
    OBVIOUS
  <2>2. r.arg \in User /\ r.arg # old.assignee
    BY <1>0, <1>1, <1>3, <1>6, OpByPc DEF RowOp, WriteReviewer, Current
  <2>3. /\ row \in Row /\ row.reviewer = r.arg /\ row.assignee = old.assignee
        /\ row.status = old.status /\ row.blocked = old.blocked
        /\ row.previous = old.previous
    BY <2>1, <2>2 DEF Row
  <2>4. task' = [task EXCEPT ![t] = row] /\ recorded' = recorded
    BY <1>0, <1>3, <1>6, <2>1 DEF WriteReviewer
  <2>5. Lifecycle(t)
    BY <1>5, <2>3, <2>4
  <2> QED
    BY <1>3, <1>4, <2>2, <2>3, <2>4, <2>5, RowIsTidy DEF IInv
<1>7. CASE WriteAssignee(w)
  <2>0. NoUser \notin User
    BY TaskConstants
  <2>1. PICK row : row = [old EXCEPT !.assignee = r.arg, !.status = "ASSIGNED"]
    OBVIOUS
  <2>2. /\ r.pc = "assign" /\ r.arg \in User /\ r.arg # old.reviewer /\ ~old.blocked
        /\ old.status \in Active
    BY <1>0, <1>1, <1>3, <1>7, OpByPc DEF RowOp, WriteAssignee, Current, Sound
  <2>3. /\ row \in Row /\ row.reviewer = old.reviewer /\ row.assignee = r.arg
        /\ row.status = "ASSIGNED" /\ row.blocked = old.blocked
        /\ row.previous = old.previous
    BY <2>1, <2>2 DEF Row, Status, Active
  <2>4. /\ task' = [task EXCEPT ![t] = row]
        /\ recorded' = IF old.status # "ASSIGNED" THEN [recorded EXCEPT ![t] = "ASSIGNED"]
                                                 ELSE recorded
    BY <1>0, <1>3, <1>7, <2>1 DEF WriteAssignee
  <2>5. Lifecycle(t)
    <3>1. <<old.status, row.status>> \in SerialWorkflow!Edge
      BY <2>2, <2>3 DEF SerialWorkflow!Edge, SerialWorkflow!Active, Active
    <3> QED
      BY <1>5, <2>2, <2>3, <2>4, <3>1
  <2>6. row.status \notin Decision /\ row.status # "WAITING_REVIEW" /\ row.assignee # NoUser
    BY <2>0, <2>2, <2>3 DEF Decision
  <2> QED
    BY <1>3, <1>4, <2>2, <2>3, <2>4, <2>5, <2>6, RowIsTidy DEF IInv
<1>8. CASE WriteStatus(w)
  <2>1. PICK row : row = Moved(old, old.status, r.arg)
    OBVIOUS
  <2>2. /\ r.pc = "status" /\ r.arg \in {"IN_PROGRESS", "CANCELLED"}
        /\ r.arg \in Transition[old.status] /\ ~old.blocked /\ old.status \in Active
    BY <1>0, <1>1, <1>3, <1>8, OpByPc DEF RowOp, WriteStatus, Current, Sound
  <2>3. /\ row \in Row /\ row.reviewer = old.reviewer /\ row.assignee = old.assignee
        /\ row.status = r.arg /\ row.blocked = old.blocked
    BY <2>1, <2>2 DEF Row, Moved, Status, Active, Terminal
  <2>4. /\ task' = [task EXCEPT ![t] = row] /\ recorded' = [recorded EXCEPT ![t] = row.status]
    BY <1>0, <1>3, <1>8, <2>1, <2>3 DEF WriteStatus
  <2>5. Lifecycle(t)
    <3>1. <<old.status, row.status>> \in SerialWorkflow!Edge
      BY <2>2, <2>3 DEF SerialWorkflow!Edge, SerialWorkflow!Active, Active, Transition,
                        Status, Terminal
    <3> QED
      BY <1>5, <2>2, <2>3, <2>4, <3>1
  <2>6. row.status \notin Decision /\ row.status # "WAITING_REVIEW"
    BY <2>2, <2>3 DEF Decision
  <2> QED
    BY <1>3, <1>4, <2>2, <2>3, <2>4, <2>5, <2>6, RowIsTidy DEF IInv
<1>9. CASE WriteBlock(w)
  <2>1. PICK row : row = [old EXCEPT !.blocked = TRUE, !.previous = old.status]
    OBVIOUS
  <2>2. r.pc = "block" /\ ~old.blocked /\ old.status \in Active
    BY <1>0, <1>1, <1>3, <1>9 DEF WriteBlock, Current, Sound
  <2>3. /\ row \in Row /\ row.reviewer = old.reviewer /\ row.assignee = old.assignee
        /\ row.status = old.status /\ row.blocked /\ row.previous = row.status
    BY <2>1, <2>2 DEF Row
  <2>4. task' = [task EXCEPT ![t] = row] /\ recorded' = recorded
    BY <1>0, <1>3, <1>9, <2>1 DEF WriteBlock
  <2>5. Lifecycle(t)
    BY <1>5, <2>2, <2>3, <2>4
  <2> QED
    BY <1>3, <1>4, <2>3, <2>4, <2>5, RowIsTidy DEF IInv
<1>10. CASE WriteUnblock(w)
  <2>1. PICK row : row = [old EXCEPT !.status = old.previous, !.blocked = FALSE,
                                     !.previous = "null"]
    OBVIOUS
  <2>2. r.pc = "unblock" /\ old.blocked /\ old.previous # "null" /\ old.previous = old.status
    BY <1>0, <1>1, <1>3, <1>10 DEF WriteUnblock, Current, Sound
  <2>3. /\ row \in Row /\ row.reviewer = old.reviewer /\ row.assignee = old.assignee
        /\ row.status = old.status /\ ~row.blocked
    BY <2>1, <2>2 DEF Row
  <2>4. task' = [task EXCEPT ![t] = row] /\ recorded' = recorded
    BY <1>0, <1>3, <1>10, <2>1, <2>2 DEF WriteUnblock
  <2>5. Lifecycle(t)
    BY <1>5, <2>2, <2>3, <2>4
  <2> QED
    BY <1>3, <1>4, <2>3, <2>4, <2>5, RowIsTidy DEF IInv
<1> QED
  BY <1>3, <1>6, <1>7, <1>8, <1>9, <1>10

(* submitTaskResult: the new submission is the last, and the assignee its  *)
(* author.                                                                 *)
LEMMA SubmissionIsTidy ==
  ASSUME IInv, Tidy, NEW w \in Worker, Current(op[w]), WriteSubmission(w)
  PROVE  Tidy' /\ \E t \in Id : Lifecycle(t)
<1>r. PICK r \in OpState : r = op[w]
  BY DEF IInv, TypeOK
<1>t. PICK t : t = r.t
  OBVIOUS
<1>1. /\ r \in RowOp({"submit"}, {"WAITING_REVIEW"}) /\ Sound(r) /\ Current(r)
      /\ r.pc = "submit"
  BY <1>r, OpByPc DEF WriteSubmission, IInv, HeldIsSound
<1>2. PICK old \in Row : old = task[t]
  BY <1>t, <1>1, RowExists DEF IInv, RowOp, Sound
<1>3. /\ t \in Id /\ Exists(t) /\ r.row = old /\ task[t] = old /\ r.arg = "WAITING_REVIEW"
      /\ ~old.blocked /\ old.status = "IN_PROGRESS" /\ r.by = old.assignee
      /\ old.assignee # old.reviewer /\ r.by \in User
  BY <1>t, <1>1, <1>2 DEF RowOp, Sound, Current, Tidy, RowTidy
<1>4. PICK row : row = Moved(old, old.status, "WAITING_REVIEW")
  OBVIOUS
<1>5. /\ row \in Row /\ row.reviewer = old.reviewer /\ row.assignee = old.assignee
      /\ row.status = "WAITING_REVIEW" /\ ~row.blocked
  BY <1>3, <1>4 DEF Row, Moved, Status, Active
<1>6. PICK new : new = [task |-> t, status |-> "PENDING", author |-> r.by, by |-> NoUser]
  OBVIOUS
<1>7. /\ new.task = t /\ new.status = "PENDING" /\ new.author = r.by /\ new.by = NoUser
      /\ new # Absent
  BY <1>6 DEF Absent
<1>8. PICK s \in SubId : /\ ~Submitted(s) /\ \A q \in SubId : q < s => Submitted(q)
                         /\ submission' = [submission EXCEPT ![s] = new]
  BY <1>r, <1>t, <1>6 DEF WriteSubmission
<1>9. /\ task' = [task EXCEPT ![t] = row]
      /\ recorded' = [recorded EXCEPT ![t] = "WAITING_REVIEW"]
  BY <1>r, <1>t, <1>3, <1>4 DEF WriteSubmission
<1>10. /\ task'[t] = row /\ \A x \in Id : x # t => task'[x] = task[x]
  BY <1>3, <1>9 DEF IInv, TypeOK
<1>11. Lifecycle(t)
  <2>1. <<old.status, row.status>> \in SerialWorkflow!Edge
    BY <1>3, <1>5 DEF SerialWorkflow!Edge
  <2> QED
    BY <1>3, <1>5, <1>10, <2>1 DEF Lifecycle
<1>12. /\ submission'[s] = new /\ \A q \in SubId : q # s => submission'[q] = submission[q]
  BY <1>8 DEF IInv, TypeOK
<1>13. \A q \in SubId : Submitted(q)' <=> (Submitted(q) \/ q = s)
  BY <1>7, <1>12 DEF Submitted
<1>14. \A q \in SubId : Submitted(q) => q < s
  <2>1. SubId \subseteq Nat
    BY TaskConstants DEF SubId
  <2> QED
    BY <1>8, <2>1 DEF Tidy, Filled
<1>15. Filled'
  BY <1>8, <1>13, <1>14 DEF Filled, SubId
<1>16. HistoryReplays'
  BY <1>3, <1>5, <1>9, HistoryFollows DEF IInv, Tidy
<1>17. NoSelfReview'
  <2>1. new.by # new.author
    BY <1>3, <1>7, TaskConstants
  <2> QED
    BY <1>12, <1>13, <2>1 DEF Tidy, NoSelfReview
<1>18. ASSUME NEW x \in Id PROVE RowTidy(x)'
  BY <1>3, <1>5, <1>10 DEF Tidy, RowTidy, Exists
<1>19. ASSUME NEW x \in Id PROVE OutcomeOf(x)'
  <2>1. CASE x = t
    <3>1. s \in SubmissionsOf(t)'
      BY <1>7, <1>12, <1>13 DEF SubmissionsOf
    <3>2. \A q \in SubId : Submitted(q)' => q <= s
      BY <1>13, <1>14 DEF SubId
    <3>3. LastOf(t, s)'
      BY <3>1, <3>2 DEF LastOf, SubmissionsOf
    <3>4. "WAITING_REVIEW" \notin Decision
      BY DEF Decision
    <3> QED
      BY <1>3, <1>5, <1>7, <1>10, <1>12, <2>1, <3>3, <3>4 DEF OutcomeOf
  <2>2. CASE x # t
    <3>1. \A q \in SubId : q \in SubmissionsOf(x)' <=> q \in SubmissionsOf(x)
      BY <1>7, <1>8, <1>12, <1>13, <2>2 DEF SubmissionsOf
    <3>2. \A q \in SubmissionsOf(x) : q # s /\ q \in SubId
      BY <1>8 DEF SubmissionsOf
    <3>3. SubmissionsOf(x)' = SubmissionsOf(x)
      BY <3>1 DEF SubmissionsOf
    <3>4. \A q : LastOf(x, q)' <=> LastOf(x, q)
      BY <3>3 DEF LastOf
    <3>5. OutcomeOf(x) /\ task'[x] = task[x]
      BY <1>10, <2>2 DEF Tidy
    <3>6. \A q : LastOf(x, q) => submission'[q] = submission[q]
      BY <1>12, <3>2 DEF LastOf
    <3> QED
      BY <3>4, <3>5, <3>6 DEF OutcomeOf
  <2> QED
    BY <2>1, <2>2
<1> QED
  BY <1>3, <1>11, <1>15, <1>16, <1>17, <1>18, <1>19 DEF Tidy

(* reviewSubmission: the decision is on the last submission, whose author  *)
(* is the assignee and not the reviewer.                                   *)
LEMMA DecisionIsTidy ==
  ASSUME IInv, Tidy, NEW w \in Worker, Current(op[w]), WriteDecision(w)
  PROVE  Tidy' /\ \E t \in Id : Lifecycle(t)
<1>r. PICK r \in OpState : r = op[w]
  BY DEF IInv, TypeOK
<1>t. PICK t : t = r.t
  OBVIOUS
<1>s. PICK s : s = r.sub
  OBVIOUS
<1>1. /\ r \in [pc: {"latest", "children", "decide"}, by: User, t: Id, arg: Decision,
                row: Row, sub: SubId]
      /\ Sound(r) /\ Current(r) /\ r.pc = "decide"
  BY <1>r, OpByPc DEF WriteDecision, IInv, HeldIsSound
<1>2. PICK old \in Row : old = task[t]
  BY <1>t, <1>1, RowExists DEF IInv, Sound
<1>3. /\ t \in Id /\ Exists(t) /\ r.row = old /\ task[t] = old /\ r.arg \in Decision
      /\ ~old.blocked /\ old.status = "WAITING_REVIEW" /\ r.by = old.reviewer
      /\ old.assignee # old.reviewer /\ s \in SubId
      /\ LatestPending(t, s)
  BY <1>t, <1>s, <1>1, <1>2 DEF Sound, Current, Tidy, RowTidy
<1>4. PICK row : row = [Moved(old, old.status, r.arg) EXCEPT
                          !.result = IF r.arg = "APPROVED" THEN s ELSE old.result]
  OBVIOUS
<1>5. /\ row \in Row /\ row.reviewer = old.reviewer /\ row.assignee = old.assignee
      /\ row.status = r.arg /\ ~row.blocked
  <2> DEFINE moved == Moved(old, old.status, r.arg)
             result == IF r.arg = "APPROVED" THEN s ELSE old.result
  <2>1. r.arg \in Status /\ old.status \in Active
    BY <1>3 DEF Decision, Status, Active, Terminal
  <2>2. /\ moved \in Row /\ moved.reviewer = old.reviewer /\ moved.assignee = old.assignee
        /\ moved.status = r.arg /\ ~moved.blocked
    BY <1>3, <2>1 DEF Row, Moved
  <2>3. result \in {None} \cup SubId
    BY <1>3 DEF Row
  <2> HIDE DEF moved, result
  <2>4. row = [moved EXCEPT !.result = result]
    BY <1>4 DEF moved, result
  <2> QED
    BY <2>2, <2>3, <2>4 DEF Row
<1>6. PICK sub : sub = [submission[s] EXCEPT !.status = r.arg, !.by = r.by]
  OBVIOUS
<1>7. Submitted(s) /\ submission[s] \in Submission /\ submission[s].status = "PENDING"
      /\ submission[s].task = t
  BY <1>3, SubmissionExists DEF LatestPending, SubmissionsOf, IInv
<1>8. /\ sub.task = t /\ sub.status = r.arg /\ sub.author = submission[s].author
      /\ sub.by = r.by /\ sub # Absent
  <2>1. sub \in Submission /\ sub.task = t /\ sub.status = r.arg
        /\ sub.author = submission[s].author /\ sub.by = r.by
    BY <1>1, <1>6, <1>7 DEF Submission
  <2>2. Absent \notin Submission
    BY DEF Absent, Submission
  <2> QED
    BY <2>1, <2>2
<1>9. /\ task' = [task EXCEPT ![t] = row] /\ recorded' = [recorded EXCEPT ![t] = r.arg]
      /\ submission' = [submission EXCEPT ![s] = sub]
  BY <1>r, <1>t, <1>s, <1>3, <1>4, <1>6 DEF WriteDecision
<1>10. /\ task'[t] = row /\ \A x \in Id : x # t => task'[x] = task[x]
  BY <1>3, <1>9 DEF IInv, TypeOK
<1>11. Lifecycle(t)
  <2>1. <<old.status, row.status>> \in SerialWorkflow!Edge
    BY <1>3, <1>5 DEF SerialWorkflow!Edge, Decision
  <2> QED
    BY <1>3, <1>5, <1>10, <2>1 DEF Lifecycle
<1>12. /\ submission'[s] = sub /\ \A q \in SubId : q # s => submission'[q] = submission[q]
  BY <1>3, <1>9 DEF IInv, TypeOK
<1>13. \A q \in SubId : Submitted(q)' <=> Submitted(q)
  BY <1>7, <1>8, <1>12 DEF Submitted
<1>14. \A x : SubmissionsOf(x)' = SubmissionsOf(x)
  <2>1. \A q \in SubId : submission'[q].task = submission[q].task
    BY <1>7, <1>8, <1>12
  <2> QED
    BY <1>13, <2>1 DEF SubmissionsOf
<1>15. \A x, q : LastOf(x, q)' <=> LastOf(x, q)
  BY <1>14 DEF LastOf
<1>16. LastOf(t, s) /\ submission[s].author = old.assignee
  <2>1. PICK z \in SubId : /\ LastOf(t, z) /\ submission[z].status = "PENDING"
                           /\ submission[z].author = old.assignee
    BY <1>3 DEF Tidy, OutcomeOf
  <2>2. z <= s /\ s <= z
    BY <1>3, <2>1 DEF LatestPending, LastOf
  <2>3. z = s
    BY <1>3, <2>1, <2>2 DEF SubId
  <2> QED
    BY <2>1, <2>3
<1>17. Filled'
  BY <1>13 DEF Tidy, Filled
<1>18. HistoryReplays'
  BY <1>3, <1>5, <1>9, HistoryFollows DEF IInv, Tidy
<1>19. NoSelfReview'
  BY <1>3, <1>8, <1>12, <1>13, <1>16 DEF Tidy, NoSelfReview
<1>20. ASSUME NEW x \in Id PROVE RowTidy(x)'
  BY <1>3, <1>5, <1>10 DEF Tidy, RowTidy, Exists
<1>21. ASSUME NEW x \in Id PROVE OutcomeOf(x)'
  <2>1. CASE x = t
    <3>1. LastOf(t, s)' /\ submission'[s].status = r.arg /\ task'[t].status = r.arg
      BY <1>5, <1>8, <1>10, <1>12, <1>15, <1>16
    <3>2. r.arg # "WAITING_REVIEW"
      BY <1>3 DEF Decision
    <3> QED
      BY <1>3, <2>1, <3>1, <3>2 DEF OutcomeOf
  <2>2. CASE x # t
    <3>1. OutcomeOf(x) /\ task'[x] = task[x]
      BY <1>10, <2>2 DEF Tidy
    <3>2. \A q \in SubId : LastOf(x, q) => submission'[q] = submission[q]
      BY <1>7, <1>12, <2>2 DEF LastOf, SubmissionsOf
    <3> QED
      BY <1>15, <3>1, <3>2 DEF OutcomeOf
  <2> QED
    BY <2>1, <2>2
<1> QED
  BY <1>3, <1>11, <1>17, <1>18, <1>19, <1>20, <1>21 DEF Tidy
-----------------------------------------------------------------------------
(* There is no task and no handler at the start.                           *)
LEMMA SerialInit == Init => SerialInv
<1> SUFFICES ASSUME Init PROVE SerialInv
  OBVIOUS
<1>1. \A w \in Worker : op[w] = Idle /\ Current(op[w])
  BY DEF Init, Current, Idle
<1>2. \A t \in Id : ~Exists(t) /\ recorded[t] = task[t].status /\ task[t].status = "NONE"
  BY DEF Init, Exists, Absent
<1>3. \A s \in SubId : ~Submitted(s)
  BY DEF Init, Submitted
<1> QED
  BY <1>1, <1>2, <1>3 DEF SerialInv, Alone, Tidy, Filled, HistoryReplays, NoSelfReview,
                          RowTidy, OutcomeOf, Decision

(* Where a handler starts only when no other is in progress, every step    *)
(* keeps the invariant and is a step of TaskWorkflow on one task, or none. *)
LEMMA SerialStep ==
  IInv /\ SerialInv /\ [Next]_vars /\ (Serial \/ UNCHANGED vars) =>
    SerialInv' /\ (UNCHANGED task \/ \E t \in Id : Lifecycle(t))
<1> SUFFICES ASSUME IInv, SerialInv, [Next]_vars, Serial \/ UNCHANGED vars
             PROVE  SerialInv' /\ (UNCHANGED task \/ \E t \in Id : Lifecycle(t))
  OBVIOUS
<1>0. TypeOK /\ Tidy /\ Alone /\ \A w \in Worker : Current(op[w])
  BY DEF IInv, SerialInv
<1>1. CASE UNCHANGED vars
  <2>1. Tidy'
    BY <1>0, <1>1, QuietIsTidy DEF Quiet, vars
  <2>2. Alone' /\ (\A w \in Worker : Current(op[w]))'
    BY <1>0, <1>1 DEF vars, Alone, Current, LatestPending, SubmissionsOf, Submitted
  <2> QED
    BY <1>1, <2>1, <2>2 DEF SerialInv, vars
<1>2. ASSUME NEW w \in Worker, NEW o, StepOf(w, o), Current(o)', Serial, Tidy'
      PROVE  SerialInv'
  <2>1. Alone'
    BY <1>0, <1>2, AloneStep
  <2>2. (\A x \in Worker : Current(op[x]))'
    BY <1>0, <1>2, <2>1, CurrentStep
  <2> QED
    BY <1>2, <2>1, <2>2 DEF SerialInv
<1>3. Quiet => Tidy' /\ UNCHANGED task
  BY <1>0, QuietIsTidy DEF Quiet
<1>4. ASSUME NEW w \in Worker, Step(w), Serial
      PROVE  SerialInv' /\ (UNCHANGED task \/ \E t \in Id : Lifecycle(t))
  <2>1. CASE \/ AssignReviewer(w) \/ AssignTask(w) \/ UpdateTaskStatus(w) \/ BlockTask(w)
             \/ UnblockTask(w) \/ AddParticipant(w) \/ SubmitTaskResult(w)
             \/ CreateTask(w) \/ ReviewSubmission(w)
    BY <1>0, <1>2, <1>3, <1>4, <2>1, StartIsCurrent
  <2>2. CASE ReviewTask(w) \/ ReviewLatest(w) \/ ReviewChildren(w) \/ Abort(w)
    BY <1>0, <1>2, <1>3, <1>4, <2>2, ReviewIsCurrent
  <2>3. ASSUME op[w] # Idle, Done(w), Tidy' PROVE SerialInv'
    BY <1>2, <1>4, <2>3, IdleIsCurrent DEF Done
  <2>4. \A pc : op[w].pc = pc /\ pc # "idle" => op[w] # Idle
    BY DEF Idle
  <2>5. CASE WriteParticipant(w)
    <3>1. Quiet /\ Done(w) /\ op[w] # Idle
      BY <2>4, <2>5 DEF WriteParticipant, Quiet
    <3> QED
      BY <1>3, <2>3, <3>1
  <2>6. CASE InsertTask(w)
    BY <1>0, <2>3, <2>4, <2>6, InsertIsTidy DEF InsertTask
  <2>7. CASE \/ WriteReviewer(w) \/ WriteAssignee(w) \/ WriteStatus(w) \/ WriteBlock(w)
             \/ WriteUnblock(w)
    <3>1. Done(w) /\ op[w] # Idle
      BY <2>4, <2>7 DEF WriteReviewer, WriteAssignee, WriteStatus, WriteBlock, WriteUnblock
    <3> QED
      BY <1>0, <2>3, <2>7, <3>1, UpdatesAreTidy
  <2>8. CASE WriteSubmission(w)
    BY <1>0, <2>3, <2>4, <2>8, SubmissionIsTidy DEF WriteSubmission
  <2>9. CASE WriteDecision(w)
    BY <1>0, <2>3, <2>4, <2>9, DecisionIsTidy DEF WriteDecision
  <2> QED
    BY <1>4, <2>1, <2>2, <2>5, <2>6, <2>7, <2>8, <2>9, Zenon DEF Step
<1> QED
  BY <1>1, <1>4 DEF Next

(* Both invariants, for the part of the instance they hold in.             *)
PartInv == IInv /\ part \in {"serial", "races"} /\ (part = "serial" => SerialInv)

(* The invariant holds at the start of both parts.                         *)
LEMMA PartInit == InitOfPart => PartInv
BY InitIInv, SerialInit DEF InitOfPart, PartInv

(* Every step keeps it, and in the serial part is one of TaskWorkflow.     *)
LEMMA PartStep ==
  PartInv /\ [NextOfPart]_<<vars, part>> =>
    /\ PartInv' /\ part' = part
    /\ part = "serial" => (UNCHANGED task \/ \E t \in Id : Lifecycle(t))
<1> SUFFICES ASSUME PartInv, [NextOfPart]_<<vars, part>>
             PROVE  /\ PartInv' /\ part' = part
                    /\ part = "serial" => (UNCHANGED task \/ \E t \in Id : Lifecycle(t))
  OBVIOUS
<1>1. [Next]_vars /\ part' = part /\ (part = "serial" => Serial \/ UNCHANGED vars)
  BY DEF NextOfPart
<1>2. IInv'
  BY <1>1, NextIInv DEF PartInv
<1>3. part = "serial" => SerialInv' /\ (UNCHANGED task \/ \E t \in Id : Lifecycle(t))
  BY <1>1, SerialStep DEF PartInv
<1> QED
  BY <1>1, <1>2, <1>3 DEF PartInv

(* Handlers one at a time: the last submission of a task that was handed   *)
(* in or decided on carries the outcome that its status shows.             *)
THEOREM OutcomeIsKept == SpecOfPart => []OutcomeKept
<1>1. ASSUME Tidy PROVE OutcomeOfLast
  <2>1. ASSUME NEW t \in Id, task[t].status \in {"WAITING_REVIEW"} \cup Decision
        PROVE  \E s \in SubmissionsOf(t) :
                 /\ \A q \in SubmissionsOf(t) : q <= s
                 /\ submission[s].status = IF task[t].status = "WAITING_REVIEW" THEN "PENDING"
                                                                   ELSE task[t].status
    BY <1>1, <2>1 DEF Tidy, OutcomeOf, LastOf
  <2> QED
    BY <2>1 DEF OutcomeOfLast
<1>2. PartInv => OutcomeKept
  BY <1>1 DEF PartInv, SerialInv, OutcomeKept
<1> QED
  BY <1>2, PartInit, PartStep, PTL DEF SpecOfPart

(* Handlers one at a time: nobody decides on a submission of their own.    *)
THEOREM HandsStayApart == SpecOfPart => []HandsApart
<1>1. PartInv => HandsApart
  BY DEF PartInv, SerialInv, Tidy, HandsApart
<1> QED
  BY <1>1, PartInit, PartStep, PTL DEF SpecOfPart

(* Handlers one at a time: the status history replays to the status.       *)
THEOREM HistoryIsKept == SpecOfPart => []HistoryKept
<1>1. PartInv => HistoryKept
  BY DEF PartInv, SerialInv, Tidy, HistoryKept
<1> QED
  BY <1>1, PartInit, PartStep, PTL DEF SpecOfPart
-----------------------------------------------------------------------------
(* The refinement of TaskWorkflow.                                         *)
SerialStatus  == [t \in Id |-> IF part = "serial" THEN task[t].status ELSE "NONE"]
SerialBlocked == [t \in Id |-> part = "serial" /\ Exists(t) /\ task[t].blocked]

(* No task exists at the start.                                            *)
LEMMA WorkflowInit == InitOfPart => SerialWorkflow!Init
<1> SUFFICES ASSUME InitOfPart PROVE SerialWorkflow!Init
  OBVIOUS
<1>1. \A t \in Id : ~Exists(t) /\ task[t].status = "NONE"
  BY DEF InitOfPart, Init, Exists, Absent
<1> QED
  BY <1>1 DEF SerialWorkflow!Init

(* Of the interleaved part TaskWorkflow sees nothing; a step of the serial *)
(* part moves one task along an edge, blocks it or unblocks it.            *)
LEMMA WorkflowStep ==
  PartInv /\ [NextOfPart]_<<vars, part>> => [SerialWorkflow!Next]_(SerialWorkflow!vars)
<1> SUFFICES ASSUME PartInv, [NextOfPart]_<<vars, part>>
             PROVE  [SerialWorkflow!Next]_(SerialWorkflow!vars)
  OBVIOUS
<1>1. part' = part /\ TypeOK
  BY PartStep DEF PartInv, IInv
<1>3. CASE part # "serial" \/ UNCHANGED task
  BY <1>1, <1>3 DEF SerialStatus, SerialBlocked, Exists, SerialWorkflow!vars
<1>4. CASE part = "serial" /\ ~ UNCHANGED task
  <2>1. PICK t \in Id : Lifecycle(t)
    BY <1>4, PartStep
  <2>2. \A x \in Id : x # t => task'[x] = task[x]
    BY <2>1 DEF Lifecycle
  <2> DEFINE from == task[t].status
             to == task'[t].status
             held == Exists(t) /\ task[t].blocked
             kept == Exists(t)' /\ task'[t].blocked
  <2>3. SerialStatus' = [SerialStatus EXCEPT ![t] = to] /\ SerialStatus[t] = from
    BY <1>1, <1>4, <2>2 DEF SerialStatus
  <2>4. SerialBlocked' = [SerialBlocked EXCEPT ![t] = kept] /\ SerialBlocked[t] = held
    BY <1>1, <1>4, <2>2 DEF SerialBlocked, Exists
  <2>5. kept = held => UNCHANGED SerialBlocked
    BY <2>4 DEF SerialBlocked
  <2>6. to = from => UNCHANGED SerialStatus
    BY <2>3 DEF SerialStatus
  <2>7. Absent \notin Row
    BY DEF Absent, Row
  <2>8. CASE /\ ~Exists(t) /\ task'[t] \in Row /\ ~task'[t].blocked
             /\ to \in {"CREATED", "ASSIGNED"}
    <3>1. kept = held /\ from = "NONE"
      BY <1>1, <2>8 DEF Exists, Absent
    <3>2. SerialWorkflow!Create(t)
      BY <2>3, <2>5, <2>8, <3>1 DEF SerialWorkflow!Create, SerialStatus, SerialBlocked
    <3> QED
      BY <3>2 DEF SerialWorkflow!Next
  <2>9. ASSUME Exists(t) PROVE (Exists(t))' /\ (held <=> task[t].blocked) /\ (kept <=> task'[t].blocked)
    BY <2>1, <2>7, <2>9 DEF Lifecycle, Exists
  <2>10. CASE /\ Exists(t) /\ ~task[t].blocked /\ ~task'[t].blocked
              /\ <<from, to>> \in SerialWorkflow!Edge
    <3>1. kept = held /\ ~held
      BY <2>9, <2>10
    <3>2. SerialWorkflow!Move(t)
      BY <2>3, <2>4, <2>5, <2>10, <3>1 DEF SerialWorkflow!Move, SerialStatus, SerialBlocked
    <3> QED
      BY <3>2 DEF SerialWorkflow!Next
  <2>11. CASE /\ Exists(t) /\ from \in Active /\ to = from
              /\ ~task[t].blocked /\ task'[t].blocked
    <3>1. ~held /\ kept
      BY <2>9, <2>11
    <3>2. SerialWorkflow!Block(t)
      BY <2>3, <2>4, <2>6, <2>11, <3>1
      DEF SerialWorkflow!Block, SerialWorkflow!Active, Active, SerialStatus, SerialBlocked
    <3> QED
      BY <3>2 DEF SerialWorkflow!Next
  <2>12. CASE Exists(t) /\ task[t].blocked /\ ~task'[t].blocked /\ to = from
    <3>1. held /\ ~kept
      BY <2>9, <2>12
    <3>2. SerialWorkflow!Unblock(t)
      BY <2>3, <2>4, <2>6, <2>12, <3>1 DEF SerialWorkflow!Unblock, SerialStatus, SerialBlocked
    <3> QED
      BY <3>2 DEF SerialWorkflow!Next
  <2>13. CASE Exists(t) /\ task'[t].blocked = task[t].blocked /\ to = from
    <3>1. kept = held
      BY <2>9, <2>13
    <3>2. UNCHANGED <<SerialStatus, SerialBlocked>>
      BY <2>5, <2>6, <2>13, <3>1
    <3> QED
      BY <3>2 DEF SerialWorkflow!vars, SerialStatus, SerialBlocked
  <2> QED
    BY <2>1, <2>8, <2>10, <2>11, <2>12, <2>13 DEF Lifecycle
<1> QED
  BY <1>3, <1>4

(* Handlers one at a time: the service implements TaskWorkflow.            *)
THEOREM WorkflowIsFollowed == SpecOfPart => FollowsWorkflowSerially
BY WorkflowInit, WorkflowStep, PartInit, PartStep, PTL
DEF SpecOfPart, FollowsWorkflowSerially, SerialWorkflow!Spec
=============================================================================
