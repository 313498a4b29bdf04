------------------------------ MODULE Disposal ------------------------------
(***************************************************************************)
(* Retention, holds and disposal of one document                           *)
(* (apps/document-management-service/src/documents/documents.service.ts,   *)
(* RetentionDisposalController).                                           *)
(*                                                                         *)
(* A document past its retention becomes eligible, its disposal is         *)
(* approved, and executing it removes the object that each version names,  *)
(* in any order, unless somebody holds the document.  A version names its  *)
(* object as its creator wrote it: two may name one object, or an object   *)
(* that is not there.  Every operation reads, looks for a hold, and then   *)
(* writes unconditionally; operator[h] is what request h has read and will *)
(* do.  Whoever calls is an employee with the capability and the           *)
(* permission for it; reasons are left out.  That a version of another     *)
(* document may name the same object is left out too.                      *)
(*                                                                         *)
(* FindNoHoldBefore and DeletionSkipped are mutated forms of the           *)
(* definitions they precede; no action uses them.                          *)
(***************************************************************************)
EXTENDS DocumentConstants, Sequences

CONSTANT MaxVersion   \* bound: versions of the document

VARIABLES
  document, \* Document: is its retention over and it archived, disposal_status, an approval
  versions, \* DocumentVersion rows: the object_key of each
  objects,  \* the objects in the store
  holds,    \* RetentionHold rows
  operator, \* what each request is doing
  opened,   \* requests started so far
  late      \* history: versions added to a document disposed of, or while it was

disposal == <<document, versions, objects, holds, operator, opened, late>>
-----------------------------------------------------------------------------
Hold == 1 .. MaxHolds

Active == {k \in Hold : holds[k].active}

Away == [pc |-> "away", user |-> NoUser, hold |-> 0, left |-> {},
         row |-> {}, failed |-> FALSE, found |-> {}]

Init ==
  /\ document = [due |-> FALSE, status |-> "null", approved |-> FALSE]
  /\ versions \in {<<>>} \cup {<<f>> : f \in File}
  /\ objects \in SUBSET File
  /\ holds = [k \in Hold |-> [by |-> NoUser, active |-> FALSE]]
  /\ operator = [h \in Handler |-> Away]
  /\ opened = 0
  /\ late = {}
-----------------------------------------------------------------------------
Become(h, r) == operator' = [operator EXCEPT ![h] = r]

(* The first read of a request; `found` keeps, for the properties, which   *)
(* holds were active then.                                                 *)
Begin(h, r) ==
  /\ operator[h] = Away
  /\ opened < MaxRequests
  /\ opened' = opened + 1
  /\ Become(h, [r EXCEPT !.found = Active])
  /\ UNCHANGED <<document, versions, objects, holds, late>>

Goes(h, r) ==
  /\ Become(h, r)
  /\ UNCHANGED <<document, versions, objects, holds, opened, late>>

Ends(h, pc) ==
  /\ operator[h].pc = pc
  /\ Become(h, Away)
  /\ UNCHANGED <<versions, objects, opened, late>>

(* Refused, failed, or stopped with the process. *)
Stop(h) == operator[h] # Away /\ Ends(h, operator[h].pc) /\ UNCHANGED <<document, holds>>

(* A query for an active hold, in all four operations that must not find   *)
(* one, and what they do next.                                             *)
AfterLook == [check |-> "eligible", approve |-> "approval", approved |-> "delete", place |-> "hold"]

FindNoHoldBefore(h) ==
  /\ operator[h].pc \in DOMAIN AfterLook
  /\ operator[h].pc # "approved" => Active = {}
  /\ Goes(h, [operator[h] EXCEPT !.pc = AfterLook[@]])

FindNoHold(h) ==
  /\ operator[h].pc \in DOMAIN AfterLook
  /\ Active = {}
  /\ Goes(h, [operator[h] EXCEPT !.pc = AfterLook[@]])
-----------------------------------------------------------------------------
(* checkRetentionEligibility *)
CheckEligibility(h) ==
  /\ document.due
  /\ document.status = "null"
  /\ Begin(h, [Away EXCEPT !.pc = "check"])

WriteEligible(h) ==
  /\ Ends(h, "eligible")
  /\ document' = [document EXCEPT !.status = "DISPOSED_ELIGIBLE"]
  /\ UNCHANGED holds

(* approveDisposal *)
ApproveDisposal(h) ==
  /\ document.status = "DISPOSED_ELIGIBLE"
  /\ Begin(h, [Away EXCEPT !.pc = "approve"])

InsertApproval(h) ==
  /\ Ends(h, "approval")
  /\ document' = [document EXCEPT !.approved = TRUE]
  /\ UNCHANGED holds
-----------------------------------------------------------------------------
(* executeDisposal *)
ExecuteDisposal(h) ==
  /\ document.status = "DISPOSED_ELIGIBLE"
  /\ Begin(h, [Away EXCEPT !.pc = "execute", !.left = DOMAIN versions])

FindApproval(h) ==
  /\ operator[h].pc = "execute"
  /\ document.approved
  /\ Goes(h, [operator[h] EXCEPT !.pc = "approved"])

(* deleteObject: stat, then remove.  An object that is not there, perhaps  *)
(* because another version names it or another execution removed it, is an *)
(* error like any failed call, and the loop goes on to the next version.   *)
StatObject(h) ==
  /\ operator[h].pc = "delete"
  /\ \E v \in operator[h].left :
       /\ versions[v] \in objects
       /\ Goes(h, [operator[h] EXCEPT !.pc = "remove", !.row = {v}])

RemoveObject(h) ==
  /\ operator[h].pc = "remove"
  /\ objects' = objects \ {versions[v] : v \in operator[h].row}
  /\ Become(h, [operator[h] EXCEPT !.pc = "delete", !.left = @ \ operator[h].row, !.row = {}])
  /\ UNCHANGED <<document, versions, holds, opened, late>>

DeletionSkipped(h) ==
  /\ operator[h].pc = "delete"
  /\ \E v \in operator[h].left : Goes(h, [operator[h] EXCEPT !.left = @ \ {v}])

DeletionFails(h) ==
  \/ /\ operator[h].pc = "delete"
     /\ \E v \in operator[h].left :
          Goes(h, [operator[h] EXCEPT !.left = @ \ {v}, !.failed = TRUE])
  \/ /\ operator[h].pc = "remove"
     /\ Goes(h, [operator[h] EXCEPT !.pc = "delete", !.left = @ \ operator[h].row,
                                    !.row = {}, !.failed = TRUE])

WriteDisposed(h) ==
  /\ operator[h].left = {}
  /\ ~operator[h].failed
  /\ Ends(h, "delete")
  /\ document' = [document EXCEPT !.status = "DISPOSED"]
  /\ UNCHANGED holds

AnswerDeletionFailed(h) ==
  /\ operator[h].left = {}
  /\ operator[h].failed
  /\ Ends(h, "delete")
  /\ UNCHANGED <<document, holds>>
-----------------------------------------------------------------------------
(* placeRetentionHold and releaseRetentionHold: only by who placed it. *)
PlaceHold(h) == \E u \in User : Begin(h, [Away EXCEPT !.pc = "place", !.user = u])

InsertHold(h) ==
  \E k \in Hold :
    /\ holds[k].by = NoUser
    /\ \A j \in 1 .. k - 1 : holds[j].by # NoUser
    /\ Ends(h, "hold")
    /\ holds' = [holds EXCEPT ![k] = [by |-> operator[h].user, active |-> TRUE]]
    /\ UNCHANGED document

ReleaseHold(h) ==
  \E k \in Active : Begin(h, [Away EXCEPT !.pc = "release", !.user = holds[k].by, !.hold = k])

WriteReleased(h) ==
  /\ Ends(h, "release")
  /\ holds' = [holds EXCEPT ![operator[h].hold].active = FALSE]
  /\ UNCHANGED document
-----------------------------------------------------------------------------
(* Nothing here archives a document or sets the end of its retention.      *)
(* FallDue is that, and time passing.                                      *)
FallDue ==
  /\ ~document.due
  /\ document' = [document EXCEPT !.due = TRUE]
  /\ UNCHANGED <<versions, objects, holds, operator, opened, late>>

(* createVersion, which looks neither at holds nor at disposal_status, and *)
(* neither stores an object nor asks whether the one named is there.       *)
AddVersion ==
  \E f \in File :
    /\ Len(versions) < MaxVersion
    /\ versions' = Append(versions, f)
    /\ late' = IF \/ document.status = "DISPOSED"
                  \/ \E h \in Handler : operator[h].pc \in {"execute", "approved", "delete", "remove"}
               THEN late \cup {Len(versions) + 1} ELSE late
    /\ UNCHANGED <<document, objects, holds, operator, opened>>

Next ==
  \/ FallDue \/ AddVersion
  \/ \E h \in Handler :
       \/ FindNoHold(h) \/ Stop(h)
       \/ CheckEligibility(h) \/ WriteEligible(h)
       \/ ApproveDisposal(h) \/ InsertApproval(h)
       \/ ExecuteDisposal(h) \/ FindApproval(h) \/ StatObject(h) \/ RemoveObject(h)
       \/ DeletionFails(h) \/ WriteDisposed(h) \/ AnswerDeletionFailed(h)
       \/ PlaceHold(h) \/ InsertHold(h) \/ ReleaseHold(h) \/ WriteReleased(h)

Spec == Init /\ [][Next]_disposal
-----------------------------------------------------------------------------
(* Rows and requests are well typed. *)
OperatorType ==
  [pc: {"away", "check", "eligible", "approve", "approval", "execute", "approved", "delete",
        "remove", "place", "hold", "release"},
   user: User \cup {NoUser}, hold: 0 .. MaxHolds, left: SUBSET (1 .. MaxVersion),
   row: SUBSET (1 .. MaxVersion), failed: BOOLEAN, found: SUBSET Hold]

TypeOK ==
  /\ document \in [due: BOOLEAN, status: {"null", "DISPOSED_ELIGIBLE", "DISPOSED"}, approved: BOOLEAN]
  /\ versions \in Seq(File)
  /\ Len(versions) <= MaxVersion
  /\ objects \in SUBSET File
  /\ late \in SUBSET DOMAIN versions
  /\ holds \in [Hold -> [by: User \cup {NoUser}, active: BOOLEAN]]
  /\ operator \in [Handler -> OperatorType]
  /\ \A h \in Handler : /\ operator[h].pc = "release" => operator[h].hold \in Hold
                        /\ operator[h].row \cup operator[h].left \subseteq DOMAIN versions
  /\ opened \in 0 .. MaxRequests

Deleting(h) == operator[h].pc \in {"delete", "remove"}

(* While a disposal removes objects, no hold is active that was already    *)
(* active when it was asked for, whatever is placed, released and approved *)
(* meanwhile.  (One placed later does not stop it: HoldsBlock.)            *)
HoldProtects == \A h \in Handler : Deleting(h) => operator[h].found \cap Active = {}

(* Disposals remove objects only after the end of retention and an         *)
(* approval; and of a document DISPOSED no version has its object left,    *)
(* except versions added during or after its disposal: whatever failed on  *)
(* the way, however many disposals ran at the same time, and whichever     *)
(* objects the versions name.                                              *)
DisposedMeansGone ==
  /\ \A h \in Handler : Deleting(h) => document.due /\ document.approved
  /\ document.status = "DISPOSED" =>
       \A v \in DOMAIN versions \ late : versions[v] \notin objects

(* What the documentation says: nothing is removed while a hold is active. *)
HoldsBlock == [][objects' \subseteq objects /\ objects' # objects => Active = {}]_disposal
=============================================================================
