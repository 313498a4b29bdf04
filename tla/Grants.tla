------------------------------- MODULE Grants -------------------------------
(***************************************************************************)
(* The Permission Service: grants of document access, their delegation,    *)
(* their effective expiry and their revocation                             *)
(* (apps/permission-service/src/permissions/permission.service.ts).        *)
(*                                                                         *)
(* One task and one document: a parent link never joins two (task,         *)
(* document) pairs (requireActiveParent, delegateGrant), so each pair      *)
(* evolves on its own.  The service is a set of Workers, the handlers in   *)
(* progress.  A handler is cut at its awaits: the reads whose result it    *)
(* keeps, then each database write.  Every write is unconditional, as in   *)
(* the code, whatever happened to the row since it was read.  Abort is     *)
(* every early return, exception, timeout and crash of a handler.          *)
(*                                                                         *)
(* `revoked_at` is set exactly with status REVOKED and cleared exactly     *)
(* with status ACTIVE, so the status stands for both.  Status EXPIRED is   *)
(* written by expireDueGrants alone, which nothing in the service calls.   *)
(*                                                                         *)
(* AnyGrantsOf, AckDeadlineEarly and CheckDelegateDeadlineWins are mutated *)
(* forms of the definitions they precede; no action uses them.  What a     *)
(* grant is used for is decided in PermissionCheck.                        *)
(***************************************************************************)
EXTENDS Naturals, FiniteSets

CONSTANTS
  Worker,       \* handlers that may run at the same time
  Participant,  \* direct participants of the task: possible recipients
  Permission,   \* PermissionAction values used by the model
  MaxGrants,    \* bound: rows of the grant table
  MaxTime,      \* bound: last instant of the clock
  MaxRequests   \* bound: requests started, here and in the other services

ASSUME BoundsAssumption ==
  /\ MaxGrants \in Nat \ {0}
  /\ MaxTime \in Nat \ {0}
  /\ MaxRequests \in Nat

VARIABLES
  now,       \* the clock
  deadline,  \* the task's deadline, in the Task Service; Never if it has none
  attached,  \* the task-document association, in the Document Service
  events,    \* task.deadline.changed events not yet acknowledged
  grant,     \* the grant table
  op,        \* what each worker is doing
  requests,  \* requests started so far
  asked      \* auxiliary: widest expires_at a request ever named for a grant

vars == <<now, deadline, attached, events, grant, op, requests, asked>>
-----------------------------------------------------------------------------
Id      == 1 .. MaxGrants
None    == 0                       \* parent_grant_id null
Time    == 0 .. MaxTime
Never   == MaxTime + 1             \* an absent date in earliestDate
Instant == 0 .. Never

Latest(a, b)   == IF a <= b THEN b ELSE a
Earliest(a, b) == IF a <= b THEN a ELSE b

Idle == [pc |-> "idle"]

Grantor == {"ADMIN", "EMPLOYEE"}   \* the role of grantor_id

Row == [actor: Participant, by: Grantor,
        perms: SUBSET Permission, exp: Time, eff: Time,
        status: {"ACTIVE", "REVOKED"}, parent: {None} \cup Id]

Absent == [status |-> "ABSENT"]

Exists(g)   == grant[g] # Absent
Children(g) == {c \in Id : Exists(c) /\ grant[c].parent = g}
Live(g)     == grant[g].status = "ACTIVE" /\ grant[g].eff > now

(* assertDocumentShareRule *)
ShareRule(ps) == "SHARE" \in ps => ps \cap {"PREVIEW", "DOWNLOAD"} # {}

(* The body of a request to grant, as the zod schema and the assertions    *)
(* that precede every database write accept it.                            *)
Grantable == {ps \in SUBSET Permission : ps # {} /\ ShareRule(ps)}

(* The parent's effective expiry where there is a parent.                  *)
ParentCap(p) == IF p = None THEN Never ELSE grant[p].eff
-----------------------------------------------------------------------------
Init ==
  /\ now = 0
  /\ deadline \in {MaxTime, Never}
  /\ attached = TRUE
  /\ events = {}
  /\ grant = [g \in Id |-> Absent]
  /\ op = [w \in Worker |-> Idle]
  /\ requests = 0
  /\ asked = [g \in Id |-> 0]

Count == requests < MaxRequests /\ requests' = requests + 1

Begin(w, o) ==
  /\ op[w] = Idle
  /\ Count
  /\ op' = [op EXCEPT ![w] = o]
  /\ UNCHANGED <<now, deadline, attached, events, grant, asked>>

(* A handler keeps what it read and writes nothing.                        *)
Continue(w, o) ==
  /\ op' = [op EXCEPT ![w] = o]
  /\ UNCHANGED <<now, deadline, attached, events, grant, requests, asked>>
-----------------------------------------------------------------------------
(* createGrant: POST /grants, by an administrator. *)
PostGrant(w) ==
  \E a \in Participant, ps \in Grantable, e \in Time, p \in {None} \cup Id :
    Begin(w, [pc |-> "context", actor |-> a, by |-> "ADMIN", perms |-> ps,
              exp |-> e, parent |-> p])

ReadContext(w) ==
  /\ op[w].pc = "context"
  /\ LET r == op[w] IN
     Continue(w, [pc |-> "create", actor |-> r.actor, by |-> r.by, perms |-> r.perms,
                  exp |-> r.exp, parent |-> r.parent, dl |-> deadline])

(* The association is asked for and the parent read, one after the other;  *)
(* both are taken at the instant of the second.  What they allow may be    *)
(* written any time later.                                                 *)
CheckCreate(w) ==
  /\ op[w].pc = "create"
  /\ attached
  /\ LET r   == op[w]
         eff == Earliest(Earliest(r.exp, r.dl), ParentCap(r.parent))
     IN /\ r.exp > now
        /\ r.parent # None => /\ Exists(r.parent) /\ Live(r.parent)
                              /\ r.perms \subseteq grant[r.parent].perms
        /\ eff > now
        /\ Continue(w, [pc |-> "insert", derived |-> FALSE,
                        row |-> [actor |-> r.actor, by |-> r.by, perms |-> r.perms,
                                 exp |-> r.exp, eff |-> eff, status |-> "ACTIVE",
                                 parent |-> r.parent]])

(* grant.create of createGrant and of delegateGrant.  A delegated grant    *)
(* inherits what was asked for its parent.                                 *)
Insert(w) ==
  /\ op[w].pc = "insert"
  /\ \E g \in Id :
       /\ ~Exists(g) /\ \A h \in Id : h < g => Exists(h)
       /\ grant' = [grant EXCEPT ![g] = op[w].row]
       /\ asked' = [asked EXCEPT ![g] = IF op[w].derived THEN asked[op[w].row.parent]
                                                         ELSE op[w].row.exp]
  /\ op' = [op EXCEPT ![w] = Idle]
  /\ UNCHANGED <<now, deadline, attached, events, requests>>
-----------------------------------------------------------------------------
(* createTaskScopedGrant: POST /internal/grants/task-document, by the      *)
(* Document Service for an employee.                                       *)
PostTaskGrant(w) ==
  \E a \in Participant, ps \in Grantable, e \in Time, p \in {None} \cup Id :
    Begin(w, [pc |-> "find", actor |-> a, by |-> "EMPLOYEE", perms |-> ps,
              exp |-> e, parent |-> p, dl |-> deadline])

AnyGrantsOf(a) == {g \in Id : Exists(g) /\ grant[g].actor = a}

ActiveGrantsOf(a) == {g \in Id : /\ Exists(g)
                                 /\ grant[g].actor = a
                                 /\ grant[g].status = "ACTIVE"}

FindNone(w) ==
  /\ op[w].pc = "find"
  /\ ActiveGrantsOf(op[w].actor) = {}
  /\ LET r == op[w] IN
     Continue(w, [pc |-> "context", actor |-> r.actor, by |-> r.by, perms |-> r.perms,
                  exp |-> r.exp, parent |-> r.parent])

FindExisting(w) ==
  /\ op[w].pc = "find"
  /\ \E g \in ActiveGrantsOf(op[w].actor) :
       /\ \A h \in ActiveGrantsOf(op[w].actor) : h <= g
       /\ LET r   == op[w]
              eff == Earliest(r.exp, r.dl)
          IN /\ eff > now
             /\ Continue(w, [pc |-> "update", by |-> r.by, perms |-> r.perms,
                             exp |-> r.exp, eff |-> eff, g |-> g])

UpdateExisting(w) ==
  /\ op[w].pc = "update"
  /\ LET r == op[w] IN
     /\ grant' = [grant EXCEPT ![r.g] = [@ EXCEPT !.by = r.by, !.perms = r.perms,
                                                  !.exp = r.exp, !.eff = r.eff,
                                                  !.status = "ACTIVE"]]
     /\ asked' = [asked EXCEPT ![r.g] = Latest(@, r.exp)]
     /\ op' = [op EXCEPT ![w] = [pc |-> "shorten", eff |-> r.eff,
                                 pending |-> {r.g}, writes |-> {}]]
  /\ UNCHANGED <<now, deadline, attached, events, requests>>
-----------------------------------------------------------------------------
(* updateTaskDocumentGrant: PATCH by the grantor, who is an employee.  An  *)
(* absent field of the request keeps the value that was read.              *)
PatchGrant(w) ==
  \E g \in Id :
    /\ Exists(g) /\ grant[g].status = "ACTIVE" /\ grant[g].by = "EMPLOYEE"
    /\ \E ps \in Grantable, e \in Time :
         Begin(w, [pc |-> "patch", perms |-> ps, exp |-> e,
                   parent |-> grant[g].parent, g |-> g])

(* The association, the children, the deadline and the parent, likewise at *)
(* the instant of the last read.                                           *)
CheckPatch(w) ==
  /\ op[w].pc = "patch"
  /\ attached
  /\ LET r   == op[w]
         eff == Earliest(Earliest(r.exp, deadline), ParentCap(r.parent))
     IN /\ \A c \in Children(r.g) : grant[c].perms \subseteq r.perms
        /\ r.parent # None => r.perms \subseteq grant[r.parent].perms
        /\ eff > now
        /\ Continue(w, [pc |-> "patchWrite", perms |-> r.perms, exp |-> r.exp,
                        eff |-> eff, g |-> r.g])

WritePatch(w) ==
  /\ op[w].pc = "patchWrite"
  /\ LET r == op[w] IN
     /\ grant' = [grant EXCEPT ![r.g] = [@ EXCEPT !.perms = r.perms, !.exp = r.exp,
                                                  !.eff = r.eff]]
     /\ asked' = [asked EXCEPT ![r.g] = Latest(@, r.exp)]
     /\ op' = [op EXCEPT ![w] = [pc |-> "shorten", eff |-> r.eff,
                                 pending |-> {r.g}, writes |-> {}]]
  /\ UNCHANGED <<now, deadline, attached, events, requests>>

(* shortenDescendantExpiries: one read per parent, one write per child     *)
(* whose expiry, as read, is later.                                        *)
Without(o, x) == [o EXCEPT !.writes = @ \ {x}]

OrIdle(o) == IF o.pending = {} /\ o.writes = {} THEN Idle ELSE o

ShortenRead(w) ==
  /\ op[w].pc = "shorten"
  /\ op[w].writes = {}
  /\ \E h \in op[w].pending :
       LET x == op[w].eff IN
       Continue(w, OrIdle([pc |-> "shorten", eff |-> x,
                           pending |-> (op[w].pending \ {h}) \cup Children(h),
                           writes |-> {c \in Children(h) : grant[c].eff > x}]))

ShortenWrite(w) ==
  /\ op[w].pc = "shorten"
  /\ \E c \in op[w].writes :
       /\ grant' = [grant EXCEPT ![c] = [@ EXCEPT !.eff = op[w].eff]]
       /\ op' = [op EXCEPT ![w] = OrIdle(Without(op[w], c))]
  /\ UNCHANGED <<now, deadline, attached, events, requests, asked>>
-----------------------------------------------------------------------------
(* delegateGrant: the recipient, the grantor or an administrator derives a *)
(* grant for another participant.  It checks neither the share rule nor    *)
(* the new grant's own expiry.                                             *)
DelegateGrant(w) ==
  \E g \in Id :
    /\ Exists(g) /\ Live(g)
    /\ \E a \in Participant, ps \in SUBSET grant[g].perms :
         Begin(w, [pc |-> "delegate", actor |-> a, perms |-> ps, g |-> g, row |-> grant[g]])

CheckDelegateDeadlineWins(w) ==
  /\ op[w].pc = "delegate"
  /\ attached /\ deadline # Never
  /\ LET r == op[w] IN
     Continue(w, [pc |-> "insert", derived |-> TRUE,
                  row |-> [actor |-> r.actor, by |-> r.row.by, perms |-> r.perms,
                           exp |-> r.row.exp, eff |-> deadline,
                           status |-> "ACTIVE", parent |-> r.g]])

CheckDelegate(w) ==
  /\ op[w].pc = "delegate"
  /\ attached
  /\ LET r == op[w] IN
     Continue(w, [pc |-> "insert", derived |-> TRUE,
                  row |-> [actor |-> r.actor, by |-> r.row.by, perms |-> r.perms,
                           exp |-> r.row.exp, eff |-> Earliest(r.row.eff, deadline),
                           status |-> "ACTIVE", parent |-> r.g]])
-----------------------------------------------------------------------------
(* revokeGrant and revokeTaskDocumentGrant for one grant;                  *)
(* revokeTaskDocumentGrants for all of the pair.  cascadeRevoke collects   *)
(* the descendants with a read per grant and then writes them all at once. *)
RevokeGrant(w) ==
  \E g \in Id : Exists(g) /\ Begin(w, [pc |-> "cascade", pending |-> {g}, seen |-> {}])

RevokeAll(w) ==
  LET rows == {g \in Id : Exists(g)} IN
  rows # {} /\ Begin(w, [pc |-> "cascade", pending |-> rows, seen |-> {}])

CascadeRead(w) ==
  /\ op[w].pc = "cascade"
  /\ \E h \in op[w].pending :
       LET seen == op[w].seen \cup {h} IN
       Continue(w, [pc |-> "cascade",
                    pending |-> (op[w].pending \cup Children(h)) \ seen,
                    seen |-> seen])

CascadeWrite(w) ==
  /\ op[w].pc = "cascade"
  /\ op[w].pending = {}
  /\ grant' = [g \in Id |-> IF g \in op[w].seen /\ Exists(g)
                            THEN [grant[g] EXCEPT !.status = "REVOKED"] ELSE grant[g]]
  /\ op' = [op EXCEPT ![w] = Idle]
  /\ UNCHANGED <<now, deadline, attached, events, requests, asked>>
-----------------------------------------------------------------------------
(* handleTaskDeadlineChanged, on a task.deadline.changed event.  The       *)
(* consumer records and acknowledges the event afterwards; a copy of it    *)
(* may still be on its way.                                                *)
DeliverDeadline(w) ==
  \E d \in events :
    /\ op[w] = Idle
    /\ LET due == {g \in Id : /\ Exists(g) /\ grant[g].status = "ACTIVE"
                              /\ grant[g].eff > d}
       IN Continue(w, [pc |-> "narrow",
                       writes |-> {[eff |-> Earliest(grant[g].exp, d), g |-> g] : g \in due},
                       d |-> d])

NarrowWrite(w) ==
  /\ op[w].pc = "narrow"
  /\ \E u \in op[w].writes :
       /\ grant' = [grant EXCEPT ![u.g] = [@ EXCEPT !.eff = u.eff]]
       /\ op' = [op EXCEPT ![w] = Without(op[w], u)]
  /\ UNCHANGED <<now, deadline, attached, events, requests, asked>>

AckDeadlineEarly(w) ==
  /\ op[w].pc = "narrow"
  /\ events' = events \ {op[w].d}
  /\ op' = [op EXCEPT ![w] = Idle]
  /\ UNCHANGED <<now, deadline, attached, grant, requests, asked>>

AckDeadline(w) ==
  /\ op[w].pc = "narrow"
  /\ op[w].writes = {}
  /\ events' \in {events, events \ {op[w].d}}
  /\ op' = [op EXCEPT ![w] = Idle]
  /\ UNCHANGED <<now, deadline, attached, grant, requests, asked>>
-----------------------------------------------------------------------------
Abort(w) ==
  /\ op[w] # Idle
  /\ Continue(w, Idle)

(* updateTaskMetadata of the Task Service: an event announces every new    *)
(* deadline but not its removal.  Bound: one event in flight per date.     *)
ChangeDeadline ==
  \E d \in Instant :
    /\ d # deadline /\ d \notin events
    /\ Count
    /\ deadline' = d
    /\ events' = IF d = Never THEN events ELSE events \cup {d}
    /\ UNCHANGED <<now, attached, grant, op, asked>>

(* The Document Service attaches and detaches the document. *)
ToggleAssociation ==
  /\ Count
  /\ attached' = ~attached
  /\ UNCHANGED <<now, deadline, events, grant, op, asked>>

Tick ==
  /\ now < MaxTime
  /\ now' = now + 1
  /\ UNCHANGED <<deadline, attached, events, grant, op, requests, asked>>

HandlerStep(w) ==
  \/ PostGrant(w) \/ ReadContext(w) \/ CheckCreate(w) \/ Insert(w)
  \/ PostTaskGrant(w) \/ FindNone(w) \/ FindExisting(w) \/ UpdateExisting(w)
  \/ PatchGrant(w) \/ CheckPatch(w) \/ WritePatch(w)
  \/ ShortenRead(w) \/ ShortenWrite(w)
  \/ DelegateGrant(w) \/ CheckDelegate(w)
  \/ RevokeGrant(w) \/ RevokeAll(w) \/ CascadeRead(w) \/ CascadeWrite(w)
  \/ DeliverDeadline(w) \/ NarrowWrite(w) \/ AckDeadline(w)
  \/ Abort(w)

Next ==
  \/ \E w \in Worker : HandlerStep(w)
  \/ ChangeDeadline
  \/ ToggleAssociation
  \/ Tick

Spec == Init /\ [][Next]_vars
-----------------------------------------------------------------------------
ContextOp  == [pc: {"context"}, actor: Participant, by: Grantor,
               perms: SUBSET Permission, exp: Time, parent: {None} \cup Id]
ReadOp     == [pc: {"create", "find"}, actor: Participant, by: Grantor,
               perms: SUBSET Permission, exp: Time, parent: {None} \cup Id, dl: Instant]
InsertOp   == [pc: {"insert"}, derived: BOOLEAN, row: Row]
UpdateOp   == [pc: {"update"}, by: Grantor, perms: SUBSET Permission,
               exp: Time, eff: Time, g: Id]
PatchOp    == [pc: {"patch"}, perms: SUBSET Permission, exp: Time,
               parent: {None} \cup Id, g: Id]
WriteOp    == [pc: {"patchWrite"}, perms: SUBSET Permission, exp: Time, eff: Time, g: Id]
ShortenOp  == [pc: {"shorten"}, eff: Time, pending: SUBSET Id, writes: SUBSET Id]
DelegateOp == [pc: {"delegate"}, actor: Participant, perms: SUBSET Permission,
               g: Id, row: Row]
CascadeOp  == [pc: {"cascade"}, pending: SUBSET Id, seen: SUBSET Id]
NarrowOp   == [pc: {"narrow"}, writes: SUBSET [eff: Time, g: Id], d: Time]

OpState == {Idle} \cup ContextOp \cup ReadOp \cup InsertOp \cup UpdateOp \cup PatchOp
           \cup WriteOp \cup ShortenOp \cup DelegateOp \cup CascadeOp \cup NarrowOp

(* Every variable has its type: a handler in progress holds what its       *)
(* program counter says, and no expiry leaves the clock's range.           *)
TypeOK ==
  /\ now \in Time
  /\ deadline \in Instant
  /\ attached \in BOOLEAN
  /\ events \subseteq Time
  /\ grant \in [Id -> Row \cup {Absent}]
  /\ op \in [Worker -> OpState]
  /\ requests \in 0 .. MaxRequests
  /\ asked \in [Id -> Time]
-----------------------------------------------------------------------------
(***************************************************************************)
(* Properties.                                                             *)
(***************************************************************************)
Ancestors[g \in 0 .. MaxGrants] ==
  IF g = None \/ ~Exists(g) THEN {}
  ELSE ({grant[g].parent} \ {None}) \cup Ancestors[grant[g].parent]

(* However the handlers interleave, a grant never lasts beyond the widest  *)
(* expires_at that a request named for it (or, for a delegated grant, for  *)
(* the grant it derives from): the stale writes of the cascades and of the *)
(* deadline consumer can postpone an expiry, but not past what was asked.  *)
WithinAsked ==
  \A g \in Id : Exists(g) => /\ grant[g].exp <= asked[g]
                            /\ grant[g].eff <= asked[g]

(* What the handlers in progress hold is bounded as well: every expiry     *)
(* that is about to be written was asked for, and for a row that exists.   *)
(* With WithinAsked and TypeOK, this is inductive.                         *)
Bounded(o) ==
  /\ o.pc = "insert" =>
       /\ o.row.parent # None => Exists(o.row.parent)
       /\ IF o.derived THEN /\ o.row.parent # None
                            /\ o.row.exp <= asked[o.row.parent]
                            /\ o.row.eff <= asked[o.row.parent]
                       ELSE o.row.eff <= o.row.exp
  /\ o.pc \in {"update", "patchWrite"} => Exists(o.g) /\ o.eff <= o.exp
  /\ o.pc = "patch" => Exists(o.g) /\ (o.parent # None => Exists(o.parent))
  /\ o.pc = "delegate" => /\ Exists(o.g) /\ o.row.exp <= asked[o.g]
                          /\ o.row.eff <= asked[o.g]
  /\ o.pc = "shorten" => \A c \in o.writes : Exists(c) /\ o.eff <= asked[c]
  /\ o.pc = "narrow" => \A u \in o.writes : Exists(u.g) /\ u.eff <= asked[u.g]

ParentsExist ==
  \A g \in Id : Exists(g) /\ grant[g].parent # None => Exists(grant[g].parent)

InFlightBounded == ParentsExist /\ \A w \in Worker : Bounded(op[w])

(* An ACTIVE grant reaches past the task's current deadline only while the *)
(* event that announces this deadline is still to be acknowledged, in      *)
(* whatever order events arrive and however often consumption is retried.  *)
DeadlineHonoured ==
  \A g \in Id : Exists(g) /\ grant[g].status = "ACTIVE" /\ grant[g].eff > deadline
                 => deadline \in events

(* A revoked grant stays revoked: sharing again never brings it back.      *)
RevokedStay ==
  \A g \in Id : Exists(g) /\ grant[g].status = "REVOKED" => grant'[g].status = "REVOKED"

RevocationFinal == [][RevokedStay]_vars

(* What CONTEXT.md says of a delegated grant: while both are live, it      *)
(* carries no permission that its parent lacks.                            *)
ChildWithinParent ==
  \A g \in Id : Exists(g) /\ Live(g) =>
    \A h \in Ancestors[g] : Live(h) => grant[g].perms \subseteq grant[h].perms
=============================================================================
