--------------------------- MODULE TaskDocuments ---------------------------
(***************************************************************************)
(* Attaching a document to a task and detaching it                         *)
(* (apps/document-management-service/src/tasks/task-documents.service.ts). *)
(* The association is a row of the Document Service, the grants that come  *)
(* with it are rows of the Permission Service, and no transaction spans    *)
(* the two: a request writes one, calls for the other, and undoes what it  *)
(* did when a call fails.                                                  *)
(*                                                                         *)
(* One task and one document.  The callers may share and dispose of it; a  *)
(* recipient is granted access or not (Grants has permissions, expiries,   *)
(* delegation and the rows one by one).  op[h] is what request h is doing  *)
(* and the call it waits for; `late` holds the calls that nobody waits for *)
(* any more, because the caller timed out or crashed: they may still be    *)
(* carried out.                                                            *)
(*                                                                         *)
(* GrantFailedDetaching is a mutated form of the definition it precedes;   *)
(* no action uses it.                                                      *)
(***************************************************************************)
EXTENDS DocumentConstants

VARIABLES
  attached,  \* the TaskDocument row exists
  granted,   \* the users who have an ACTIVE grant of the pair
  op,        \* what each request is doing
  late,      \* calls under way for which no request waits
  requests,  \* requests started so far
  named,     \* history: who was named since the association was made and not removed
  doubt      \* history: for whom a call was lost, or a request stopped half-way

tables == <<attached, granted>>
vars == <<tables, op, late, requests, named, doubt>>
-----------------------------------------------------------------------------
(* A call to the Permission Service: for a "grant" and a "remove", `who`   *)
(* is the user; for a "revoke", the users found to have a grant.           *)
NoCall == [do |-> "none", who |-> {}, step |-> "none"]

Call == [do: {"grant", "revoke", "remove"}, who: SUBSET User,
         step: {"sent", "read", "done", "refused"}]

Send(do, who) == [do |-> do, who |-> who, step |-> "sent"]

Ended(c) == c.step \in {"done", "refused"}

Idle == [pc |-> "idle", todo |-> {}, made |-> FALSE, call |-> NoCall]

Busy(h) == op[h] # Idle

Init ==
  /\ attached = FALSE
  /\ granted = {}
  /\ op = [h \in Handler |-> Idle]
  /\ late = {}
  /\ requests = 0
  /\ named = {}
  /\ doubt = {}
-----------------------------------------------------------------------------
(* The Permission Service at work on a call.  createTaskScopedGrant looks  *)
(* for an active grant of the recipient, which it will overwrite, or else  *)
(* for the association, and then writes; revokeTaskDocumentGrants reads    *)
(* the grants, then revokes those it read.                                 *)
Progress(c) ==
  CASE c.step = "sent" /\ c.do = "grant" ->
         [c EXCEPT !.step = IF attached \/ c.who \subseteq granted THEN "read" ELSE "refused"]
    [] c.step = "sent" /\ c.do = "revoke" -> [c EXCEPT !.step = "read", !.who = granted]
    [] OTHER -> [c EXCEPT !.step = "done"]

Result(c) ==
  CASE c.step = "read" /\ c.do = "grant"  -> granted \cup c.who
    [] c.step = "read" /\ c.do = "revoke" -> granted \ c.who
    [] c.step = "sent" /\ c.do = "remove" -> granted \ c.who
    [] OTHER                              -> granted

Serve(h) ==
  LET c == op[h].call IN
  /\ c # NoCall /\ ~Ended(c)
  /\ op' = [op EXCEPT ![h].call = Progress(c)]
  /\ granted' = Result(c)
  /\ UNCHANGED <<attached, late, requests, named, doubt>>

ServeLate(c) ==
  /\ late' = (late \ {c}) \cup {d \in {Progress(c)} : ~Ended(d)}
  /\ granted' = Result(c)
  /\ UNCHANGED <<attached, op, requests, named, doubt>>

LoseLate(c) ==
  /\ late' = late \ {c}
  /\ UNCHANGED <<tables, op, requests, named, doubt>>

(* Whom a call that is lost may still concern: a revocation reads, when it *)
(* is carried out, who has a grant.                                        *)
Concerned(c) == IF c.do = "revoke" THEN User ELSE c.who

(* The call does not reach the service, or is answered with an error       *)
(* before it had any effect.  After a failed revocation the grants stay.   *)
Refuse(h) ==
  LET c == op[h].call IN
  /\ c.step = "sent"
  /\ op' = [op EXCEPT ![h].call.step = "refused"]
  /\ doubt' = IF c.do = "revoke" THEN doubt \cup granted ELSE doubt
  /\ UNCHANGED <<tables, late, requests, named>>

(* The caller times out: it goes on as after a refusal, while the call is  *)
(* still on its way, half done, or done and only its answer lost.          *)
Timeout(h) ==
  LET c == op[h].call IN
  /\ c # NoCall /\ c.step # "refused"
  /\ Cardinality(late) < MaxLate
  /\ op' = [op EXCEPT ![h].call.step = "refused"]
  /\ late' = late \cup {d \in {c} : ~Ended(d)}
  /\ doubt' = doubt \cup Concerned(c)
  /\ UNCHANGED <<tables, requests, named>>

(* The service stops: nothing is undone, and nothing done of what the      *)
(* request had still to do.                                                *)
Unsettled(o) == o.todo \cup Concerned(o.call) \cup (IF o.pc = "undo" THEN named ELSE {})

Crash(h) ==
  /\ Busy(h)
  /\ Cardinality(late) < MaxLate
  /\ op' = [op EXCEPT ![h] = Idle]
  /\ late' = late \cup {d \in {op[h].call} : d # NoCall /\ ~Ended(d)}
  /\ doubt' = doubt \cup Unsettled(op[h])
  /\ UNCHANGED <<tables, requests, named>>
-----------------------------------------------------------------------------
Become(h, o) == op' = [op EXCEPT ![h] = o]

(* Nothing is expected of requests that overlap.                           *)
Begin(h, o) ==
  /\ ~Busy(h)
  /\ requests < MaxRequests
  /\ requests' = requests + 1
  /\ Become(h, o)
  /\ doubt' = IF \E g \in Handler : Busy(g) THEN User ELSE doubt
  /\ UNCHANGED <<tables, late, named>>

(* attach, once its checks have passed. *)
Attach(h) ==
  \E who \in SUBSET User \ {{}} : Begin(h, [Idle EXCEPT !.pc = "attach", !.todo = who])

AttachDocument(h) ==
  /\ op[h].pc = "attach"
  /\ ~attached
  /\ attached' = TRUE
  /\ named' = op[h].todo
  /\ Become(h, [op[h] EXCEPT !.pc = "granting"])
  /\ UNCHANGED <<granted, late, requests, doubt>>

AlreadyAttached(h) ==
  /\ op[h].pc = "attach"
  /\ attached
  /\ Become(h, Idle)
  /\ UNCHANGED <<tables, late, requests, named, doubt>>

CreateGrant(h) ==
  /\ op[h].pc = "granting"
  /\ op[h].call = NoCall
  /\ \E u \in op[h].todo :
       Become(h, [op[h] EXCEPT !.todo = @ \ {u}, !.call = Send("grant", {u})])
  /\ UNCHANGED <<tables, late, requests, named, doubt>>

GrantCreated(h) ==
  /\ op[h].pc = "granting"
  /\ op[h].call.step = "done"
  /\ Become(h, [op[h] EXCEPT !.made = TRUE, !.call = NoCall])
  /\ UNCHANGED <<tables, late, requests, named, doubt>>

AttachEnds(h) ==
  /\ op[h].pc = "granting"
  /\ op[h].call = NoCall
  /\ op[h].todo = {}
  /\ Become(h, Idle)
  /\ UNCHANGED <<tables, late, requests, named, doubt>>
-----------------------------------------------------------------------------
(* compensateAttach revokes only if an answer said that a grant was made.  *)
GrantFailedDetaching(h) ==
  /\ op[h].pc = "granting"
  /\ op[h].call.step = "refused"
  /\ Become(h, [Idle EXCEPT !.pc = "undo"])
  /\ UNCHANGED <<tables, late, requests, named, doubt>>

GrantFailed(h) ==
  /\ op[h].pc = "granting"
  /\ op[h].call.step = "refused"
  /\ Become(h, IF op[h].made
               THEN [Idle EXCEPT !.pc = "revoke", !.call = Send("revoke", {})]
               ELSE [Idle EXCEPT !.pc = "undo"])
  /\ UNCHANGED <<tables, late, requests, named, doubt>>

(* A failed revocation is logged and the association removed all the same. *)
CompensationRevoked(h) ==
  /\ op[h].pc = "revoke"
  /\ Ended(op[h].call)
  /\ Become(h, [Idle EXCEPT !.pc = "undo"])
  /\ UNCHANGED <<tables, late, requests, named, doubt>>

CompensationDetached(h) ==
  /\ op[h].pc = "undo"
  /\ attached' = FALSE
  /\ named' = {}
  /\ Become(h, Idle)
  /\ UNCHANGED <<granted, late, requests, doubt>>
-----------------------------------------------------------------------------
(* The checks before the association is read change nothing here, so that  *)
(* detach, addGrant and revokeGrant begin with that read; their call is    *)
(* made any time later, whatever has become of the association.            *)
Detach(h) == attached /\ Begin(h, [Idle EXCEPT !.pc = "detach"])

(* The association goes first, "fail-closed".  A detach that is alone from *)
(* here on, with no call late, settles everything.                         *)
DetachDocument(h) ==
  /\ op[h].pc = "detach"
  /\ attached' = FALSE
  /\ named' = {}
  /\ Become(h, IF attached
               THEN [Idle EXCEPT !.pc = "detached", !.call = Send("revoke", {})]
               ELSE Idle)
  /\ doubt' = IF attached /\ late = {} /\ \A g \in Handler \ {h} : ~Busy(g)
              THEN {} ELSE doubt
  /\ UNCHANGED <<granted, late, requests>>

DetachEnds(h) ==
  /\ op[h].pc = "detached"
  /\ Ended(op[h].call)
  /\ Become(h, Idle)
  /\ UNCHANGED <<tables, late, requests, named, doubt>>

AddGrant(h) ==
  /\ attached
  /\ \E u \in User : Begin(h, [Idle EXCEPT !.pc = "add", !.call = Send("grant", {u})])

AddGrantEnds(h) ==
  /\ op[h].pc = "add"
  /\ Ended(op[h].call)
  /\ named' = IF attached /\ op[h].call.step = "done" THEN named \cup op[h].call.who ELSE named
  /\ Become(h, Idle)
  /\ UNCHANGED <<tables, late, requests, doubt>>

RevokeGrant(h) ==
  /\ attached
  /\ \E u \in User : Begin(h, [Idle EXCEPT !.pc = "remove", !.call = Send("remove", {u})])

RevokeGrantEnds(h) ==
  /\ op[h].pc = "remove"
  /\ Ended(op[h].call)
  /\ named' = IF op[h].call.step = "done" THEN named \ op[h].call.who ELSE named
  /\ Become(h, Idle)
  /\ UNCHANGED <<tables, late, requests, doubt>>
-----------------------------------------------------------------------------
Next ==
  \/ \E h \in Handler :
       \/ Attach(h) \/ AttachDocument(h) \/ AlreadyAttached(h)
       \/ CreateGrant(h) \/ GrantCreated(h) \/ AttachEnds(h)
       \/ GrantFailed(h) \/ CompensationRevoked(h) \/ CompensationDetached(h)
       \/ Detach(h) \/ DetachDocument(h) \/ DetachEnds(h)
       \/ AddGrant(h) \/ AddGrantEnds(h)
       \/ RevokeGrant(h) \/ RevokeGrantEnds(h)
       \/ Serve(h) \/ Refuse(h) \/ Timeout(h) \/ Crash(h)
  \/ \E c \in late : ServeLate(c) \/ LoseLate(c)

Spec == Init /\ [][Next]_vars
-----------------------------------------------------------------------------
(* The tables and what requests hold are well typed; a request waits for a *)
(* call exactly where its code awaits one, and only calls that have not    *)
(* ended are late.                                                         *)
Awaited(o) ==
  CASE o.pc \in {"idle", "attach", "undo", "detach"} -> o.call = NoCall
    [] o.pc = "granting"                             -> o.call = NoCall \/ o.call.do = "grant"
    [] o.pc \in {"revoke", "detached"}               -> o.call.do = "revoke"
    [] o.pc = "add"                                  -> o.call.do = "grant"
    [] o.pc = "remove"                               -> o.call.do = "remove"

Request == [pc: {"idle", "attach", "granting", "revoke", "undo", "detach", "detached",
                 "add", "remove"},
            todo: SUBSET User, made: BOOLEAN, call: Call \cup {NoCall}]

TypeOK ==
  /\ attached \in BOOLEAN
  /\ granted \subseteq User
  /\ op \in [Handler -> Request]
  /\ \A h \in Handler : Awaited(op[h])
  /\ late \subseteq {c \in Call : ~Ended(c)}
  /\ requests \in 0 .. MaxRequests
  /\ named \subseteq User
  /\ doubt \subseteq User

(* Calls that are refused, lost, late or carried out without an answer,    *)
(* and requests that stop half-way, leave the two services in disagreement *)
(* only about those whom they concerned: of anybody else, between          *)
(* requests, those who have a grant are those whom a request named since   *)
(* the association was made, and nobody without an association.  In        *)
(* particular an attach whose grants fail half-way leaves neither, and a   *)
(* later detach whose revocation is answered settles what was lost before, *)
(* so that attaching the document again brings nobody back.  Requests that *)
(* overlap promise nothing until such a detach.                            *)
TablesAgree ==
  (\A h \in Handler : ~Busy(h)) =>
    /\ granted \ doubt = named \ doubt
    /\ ~attached => named = {}
=============================================================================
