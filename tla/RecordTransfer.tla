--------------------------- MODULE RecordTransfer ---------------------------
(***************************************************************************)
(* Records and their transfer to the archive                               *)
(* (apps/document-management-service/src/documents/documents.service.ts,   *)
(* RecordsController and TransferPackagesController).                      *)
(*                                                                         *)
(* One record, which its custodian fills and seals, and the packages that  *)
(* hand it over.  Every operation reads what it needs, checks it, and      *)
(* writes unconditionally.  clerk[h] is what request h will write, and     *)
(* what it has read.  Whoever calls has the capabilities for it; titles,   *)
(* checksums and reasons are left out; a manifest is the set of files it   *)
(* names.                                                                  *)
(*                                                                         *)
(* AcceptPackageOnly is a mutated form of the definition it precedes; no   *)
(* action uses it.                                                         *)
(***************************************************************************)
EXTENDS DocumentConstants

VARIABLES
  record,    \* Record: status and the files of its entries
  package,   \* TransferPackage, numbered from 1
  clerk,     \* what each request is doing
  asked,     \* requests started so far
  overlapped \* history: two requests ran at the same time

transfer == <<record, package, clerk, asked, overlapped>>
-----------------------------------------------------------------------------
Package == 1 .. MaxPackages

(* A receipt says who decided and how. *)
NoReceipt == [by |-> NoUser, accepted |-> FALSE]

NewPackage(u, files) ==
  [status |-> "DRAFT", submitter |-> u, archivist |-> NoUser, files |-> files, receipt |-> NoReceipt]

NoPackage == [NewPackage(NoUser, {}) EXCEPT !.status = "none"]

Free == [pc |-> "free", user |-> NoUser, on |-> 0, files |-> {}]

Init ==
  /\ record = [status |-> "DRAFT", files |-> {}]
  /\ package = [p \in Package |-> NoPackage]
  /\ clerk = [h \in Handler |-> Free]
  /\ asked = 0
  /\ overlapped = FALSE
-----------------------------------------------------------------------------
Become(h, c) == clerk' = [clerk EXCEPT ![h] = c]

Holding(pc, u, p, files) == [pc |-> pc, user |-> u, on |-> p, files |-> files]

(* The first read of a request; what follows it has been checked. *)
Begin(h, c) ==
  /\ clerk[h] = Free
  /\ asked < MaxRequests
  /\ asked' = asked + 1
  /\ Become(h, c)
  /\ overlapped' = (overlapped \/ \E g \in Handler : clerk[g] # Free)
  /\ UNCHANGED <<record, package>>

Goes(h, from, to) ==
  /\ clerk[h].pc = from
  /\ Become(h, [clerk[h] EXCEPT !.pc = to])
  /\ UNCHANGED <<record, package, asked, overlapped>>

Ends(h, pc) ==
  /\ clerk[h].pc = pc
  /\ Become(h, Free)
  /\ UNCHANGED <<asked, overlapped>>

Stop(h) == clerk[h] # Free /\ Ends(h, clerk[h].pc) /\ UNCHANGED <<record, package>>
-----------------------------------------------------------------------------
(* addDocumentToRecord and sealRecord *)
AddEntry(h) ==
  /\ record.status = "DRAFT"
  /\ \E f \in File \ record.files : Begin(h, Holding("add", NoUser, 0, {f}))

InsertEntry(h) ==
  /\ Ends(h, "add")
  /\ record' = [record EXCEPT !.files = @ \cup clerk[h].files]
  /\ UNCHANGED package

SealRecord(h) ==
  /\ record.status = "DRAFT"
  /\ record.files # {}
  /\ Begin(h, Holding("seal", NoUser, 0, {}))

WriteSealed(h) ==
  /\ Ends(h, "seal")
  /\ record' = [record EXCEPT !.status = "SEALED"]
  /\ UNCHANGED package
-----------------------------------------------------------------------------
(* createTransferPackage *)
CreatePackage(h) ==
  /\ record.status = "SEALED"
  /\ \E u \in User : Begin(h, Holding("create", u, 0, record.files))

IsActive(row) == row.status \in {"DRAFT", "SUBMITTED", "RECEIVED_CHECKING"}

FindNoActive(h) ==
  /\ \A p \in Package : ~IsActive(package[p])
  /\ Goes(h, "create", "insert")

InsertPackage(h) ==
  \E p \in Package :
    /\ package[p] = NoPackage
    /\ \A q \in 1 .. p - 1 : package[q] # NoPackage
    /\ Ends(h, "insert")
    /\ package' = [package EXCEPT ![p] = NewPackage(clerk[h].user, clerk[h].files)]
    /\ UNCHANGED record

(* submitTransferPackage *)
SubmitPackage(h) ==
  \E p \in Package :
    /\ package[p].status = "DRAFT"
    /\ Begin(h, Holding("submit", package[p].submitter, p, {}))

FindSealed(h) == record.status = "SEALED" /\ Goes(h, "submit", "submitted")

WriteSubmitted(h) ==
  /\ Ends(h, "submitted")
  /\ package' = [package EXCEPT ![clerk[h].on].status = "SUBMITTED"]
  /\ UNCHANGED record
-----------------------------------------------------------------------------
(* receiveTransferPackage: not by its submitter. *)
Receivable(row, u) == row.status = "SUBMITTED" /\ row.submitter # u

ReceivePackage(h) ==
  \E p \in Package, u \in User :
    Receivable(package[p], u) /\ Begin(h, Holding("receive", u, p, {}))

WriteReceived(h) ==
  /\ Ends(h, "receive")
  /\ package' = [package EXCEPT ![clerk[h].on].status = "RECEIVED_CHECKING",
                                ![clerk[h].on].archivist = clerk[h].user]
  /\ UNCHANGED record

(* generateHandoverReceipt *)
Receipt(u, accepted) == [by |-> u, accepted |-> accepted]

(* acceptTransferPackage: by the archivist who received it, and only if    *)
(* the manifest names as many files as the record has entries, and each of *)
(* them.                                                                   *)
AcceptPackage(h) ==
  \E p \in Package :
    /\ package[p].status = "RECEIVED_CHECKING"
    /\ Begin(h, Holding("accept", package[p].archivist, p, package[p].files))

ValidatePackage(h) == clerk[h].files = record.files /\ Goes(h, "accept", "accepted")

AcceptPackageOnly(h) ==
  /\ Ends(h, "accepted")
  /\ package' = [package EXCEPT ![clerk[h].on].status = "ACCEPTED",
                                ![clerk[h].on].receipt = Receipt(clerk[h].user, TRUE)]
  /\ UNCHANGED record

WriteAccepted(h) ==
  /\ Ends(h, "accepted")
  /\ package' = [package EXCEPT ![clerk[h].on].status = "ACCEPTED",
                                ![clerk[h].on].receipt = Receipt(clerk[h].user, TRUE)]
  /\ record' = [record EXCEPT !.status = "TRANSFERRED"]

(* rejectTransferPackage *)
RejectPackage(h) ==
  \E p \in Package :
    /\ package[p].status = "RECEIVED_CHECKING"
    /\ Begin(h, Holding("reject", package[p].archivist, p, {}))

WriteRejected(h) ==
  /\ Ends(h, "reject")
  /\ package' = [package EXCEPT ![clerk[h].on].status = "REJECTED",
                                ![clerk[h].on].receipt = Receipt(clerk[h].user, FALSE)]
  /\ UNCHANGED record

(* archiveTransferPackage *)
ArchivePackage(h) ==
  \E p \in Package :
    /\ package[p].status = "ACCEPTED"
    /\ Begin(h, Holding("archive", NoUser, p, {}))

WriteArchived(h) ==
  /\ Ends(h, "archive")
  /\ package' = [package EXCEPT ![clerk[h].on].status = "ARCHIVED"]
  /\ record' = [record EXCEPT !.status = "ARCHIVED"]
-----------------------------------------------------------------------------
Next ==
  \E h \in Handler :
    \/ AddEntry(h) \/ InsertEntry(h) \/ SealRecord(h) \/ WriteSealed(h)
    \/ CreatePackage(h) \/ FindNoActive(h) \/ InsertPackage(h)
    \/ SubmitPackage(h) \/ FindSealed(h) \/ WriteSubmitted(h)
    \/ ReceivePackage(h) \/ WriteReceived(h)
    \/ AcceptPackage(h) \/ ValidatePackage(h) \/ WriteAccepted(h)
    \/ RejectPackage(h) \/ WriteRejected(h)
    \/ ArchivePackage(h) \/ WriteArchived(h)
    \/ Stop(h)

Spec == Init /\ [][Next]_transfer
-----------------------------------------------------------------------------
(* Rows and requests are well typed, and a request that will write a       *)
(* package holds one.                                                      *)
PackageType ==
  [status: {"none", "DRAFT", "SUBMITTED", "RECEIVED_CHECKING", "ACCEPTED", "REJECTED", "ARCHIVED"},
   submitter: User \cup {NoUser}, archivist: User \cup {NoUser}, files: SUBSET File,
   receipt: [by: User \cup {NoUser}, accepted: BOOLEAN]]

ClerkType ==
  [pc: {"free", "add", "seal", "create", "insert", "submit", "submitted", "receive",
        "accept", "accepted", "reject", "archive"},
   user: User \cup {NoUser}, on: 0 .. MaxPackages, files: SUBSET File]

TypeOK ==
  /\ record \in [status: {"DRAFT", "SEALED", "TRANSFERRED", "ARCHIVED"}, files: SUBSET File]
  /\ package \in [Package -> PackageType]
  /\ clerk \in [Handler -> ClerkType]
  /\ \A h \in Handler :
       clerk[h].pc \in {"submit", "submitted", "receive", "accept", "accepted", "reject", "archive"}
         => clerk[h].on \in Package /\ package[clerk[h].on] # NoPackage
  /\ asked \in 0 .. MaxRequests
  /\ overlapped \in BOOLEAN

(* Nobody receives or decides on a package of their own, and nobody        *)
(* decides on one that was never received, whatever requests overwrite     *)
(* each other's decisions.                                                 *)
SeparateHands ==
  \A p \in Package :
    /\ package[p].archivist \in User => package[p].archivist # package[p].submitter
    /\ package[p].receipt # NoReceipt =>
         /\ package[p].receipt.by \in User \ {package[p].submitter}
         /\ package[p].archivist \in User

(* As long as requests come one at a time, a record has at most one        *)
(* package that is on its way or arrived; and the record, the package and  *)
(* its receipt tell the same story: the record has moved on exactly if a   *)
(* package was accepted, by the archivist who received it, with all the    *)
(* files of the record and no other.                                       *)
OnItsWay(p) == package[p].status \notin {"none", "REJECTED"}

CustodyAgrees ==
  ~overlapped =>
    /\ \A p, q \in Package : OnItsWay(p) /\ OnItsWay(q) => p = q
    /\ \A p \in Package :
         /\ package[p].status \in {"ACCEPTED", "ARCHIVED"} <=>
              package[p].receipt = Receipt(package[p].archivist, TRUE)
         /\ package[p].status = "ACCEPTED" => record.status = "TRANSFERRED"
         /\ package[p].status = "ARCHIVED" => record.status = "ARCHIVED"
         /\ package[p].receipt.accepted => package[p].files = record.files
    /\ record.status \in {"TRANSFERRED", "ARCHIVED"} => \E p \in Package : package[p].receipt.accepted
=============================================================================
