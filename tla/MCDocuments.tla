---------------------------- MODULE MCDocuments ----------------------------
(***************************************************************************)
(* One run for five parts of the Document Service.  They keep no state in *)
(* common (what users may do is arbitrary in DocumentAccess, whatever      *)
(* TaskDocuments does to the grants), so that they are explored one at a   *)
(* time: `part` says which, and the others stay as they began.  The bounds *)
(* on requests, all in the configuration, are what each scenario takes:    *)
(* issue or open, and two that compete; attach, detach, attach again and   *)
(* one that interferes; a record whose first package is rejected and whose *)
(* second is archived; a disposal with a second one or holds; and two      *)
(* uploads with a version of one of them.                                  *)
(***************************************************************************)
EXTENDS DocumentAccess, TLC

CONSTANTS
  TaskRequests,      \* bounds: requests started, of each part
  RecordRequests,
  DisposalRequests,
  MaxCalls,
  Doc,               \* what DocumentStore is parameterised by besides
  MaxVersion,
  Kek,
  FirstKek

ASSUME DocumentsAssumption ==
  /\ {TaskRequests, RecordRequests, DisposalRequests, MaxCalls} \subseteq Nat
  /\ MaxVersion \in Nat \ {0}
  /\ FirstKek \in Kek

VARIABLES
  part,
  attached, granted, op, late, requests, named, doubt,
  record, package, clerk, asked, overlapped,
  document, versions, objects, holds, operator, opened, tardy,
  row, numbers, keyed, files, job, client, calls, started, key, torn, scanned

tasks == <<attached, granted, op, late, requests, named, doubt>>
records == <<record, package, clerk, asked, overlapped>>
disposals == <<document, versions, objects, holds, operator, opened, tardy>>
store == <<row, numbers, keyed, files, job, client, calls, started, key, torn, scanned>>

T == INSTANCE TaskDocuments WITH MaxRequests <- TaskRequests
R == INSTANCE RecordTransfer WITH MaxRequests <- RecordRequests
D == INSTANCE Disposal WITH MaxRequests <- DisposalRequests, late <- tardy
S == INSTANCE DocumentStore WITH
  Client <- Handler, versions <- numbers, record <- keyed, objects <- files

InitOfAll ==
  /\ part \in {"tasks", "access", "records", "disposals", "store"}
  /\ Init /\ T!Init /\ R!Init /\ D!Init /\ S!Init
  /\ part # "disposals" => versions = <<>> /\ objects = {}

NextOfOne ==
  \/ part = "tasks" /\ T!Next /\ UNCHANGED <<part, access, records, disposals, store>>
  \/ part = "access" /\ Next /\ UNCHANGED <<part, tasks, records, disposals, store>>
  \/ part = "records" /\ R!Next /\ UNCHANGED <<part, tasks, access, disposals, store>>
  \/ part = "disposals" /\ D!Next /\ UNCHANGED <<part, tasks, access, records, store>>
  \/ part = "store" /\ S!Next /\ UNCHANGED <<part, tasks, access, records, disposals>>

SpecOfOne == InitOfAll /\ [][NextOfOne]_<<part, tasks, access, records, disposals, store>>

Symmetric == Permutations(Handler) \cup Permutations(User)
-----------------------------------------------------------------------------
(* The properties of DocumentAccess are checked as they are stated there.  *)
(* TaskDocuments: associations and grants agree between requests, but for  *)
(* those whom a lost call concerned.                                       *)
TablesAgree == T!TablesAgree

(* RecordTransfer: one package at a time; record, package and receipt tell *)
(* the same story. *)
CustodyAgrees == R!CustodyAgrees

(* Disposal: a hold found by nobody deletes nothing it came before. *)
HoldProtects == D!HoldProtects

(* Disposal: DISPOSED means that every object is gone. *)
DisposedMeansGone == D!DisposedMeansGone

(* DocumentStore: an uploaded file can be had again. *)
UploadsDecryptable == part = "store" => S!UploadsDecryptable

(* DocumentStore: no file is served that was not found clean. *)
ServedWereScanned == part = "store" => S!ServedWereScanned

(* DocumentStore: versions are numbered without a gap. *)
NumbersUnbroken == part = "store" => S!NumbersUnbroken
=============================================================================
