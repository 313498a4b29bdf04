---------------------------- MODULE DocumentStore ----------------------------
(***************************************************************************)
(* Uploading documents, and their versions: the Document Service           *)
(* (apps/document-management-service/src/documents and src/security) and   *)
(* the Document Security Service behind it                                 *)
(* (apps/document-security-service/src/security).                          *)
(*                                                                         *)
(* An upload gives the document a new id and hands every file to the       *)
(* security service, which scans, encrypts, stores and records it (job[d], *)
(* step by step), and goes on doing so when its caller has given up.       *)
(* client[h] is what request h of the Document Service is doing.  Version  *)
(* numbers are counted in two statements.  A signature is one the service  *)
(* computed itself ("hmac") or one that somebody sent ("given"); contents  *)
(* and checksums are left out, as is what a task attaches afterwards       *)
(* (TaskDocuments) or disposal removes (Disposal).                         *)
(*                                                                         *)
(* NumberAgain, PutLater and ScanOpenly are mutated forms of the           *)
(* definitions they precede; no action uses them.                          *)
(***************************************************************************)
EXTENDS ServiceConstants

CONSTANTS
  Client,       \* requests of the Document Service that may run at the same time
  Doc,          \* bound: documents
  MaxVersion,   \* bound: versions of one document
  Kek,          \* versions of the key encryption key
  FirstKek,
  MaxCalls      \* bound: requests started

VARIABLES
  row,      \* Document: how it came to be, and current_version
  versions, \* DocumentVersion: the numbers of a document
  record,   \* EncryptionRecord, by document and version
  objects,  \* documents whose file is in the object store
  job,      \* what the security service does with the file of a document
  client,   \* what each request is doing
  calls,    \* calls of processDocument under way
  started,  \* requests started so far
  key,      \* the keys configured, and the version that is active
  torn,     \* history: documents with a version that was counted only half
  scanned   \* history: documents whose file ClamAV found clean

store == <<row, versions, record, objects, job, client, calls, started, key, torn, scanned>>
-----------------------------------------------------------------------------
Version == 1 .. MaxVersion

NoRecord == [scan |-> "none", signature |-> "none", kek |-> FirstKek]

Idle == [pc |-> "idle", todo |-> {}, doc |-> {}, version |-> 0]

Init ==
  /\ row = [d \in Doc |-> [from |-> "none", current |-> 0]]
  /\ versions = [d \in Doc |-> {}]
  /\ record = [d \in Doc |-> [v \in Version |-> NoRecord]]
  /\ objects = {}
  /\ job = [d \in Doc |-> "none"]
  /\ client = [h \in Client |-> Idle]
  /\ calls = {}
  /\ started = 0
  /\ key = [configured |-> {FirstKek}, active |-> FirstKek]
  /\ torn = {} /\ scanned = {}

documents == <<row, versions, torn>>
security == <<record, objects, scanned, key>>

Be(h, c) == client' = [client EXCEPT ![h] = c]

Begin(h, c) ==
  /\ client[h] = Idle
  /\ started < MaxCalls
  /\ started' = started + 1
  /\ Be(h, c)
-----------------------------------------------------------------------------
(* uploadDocument and uploadRawDocument: one or more files, in turn. *)
Unused == {d \in Doc : job[d] = "none" /\ row[d].from = "none"
                       /\ \A h \in Client : d \notin client[h].todo \cup client[h].doc}

Upload(h) ==
  /\ \E S \in SUBSET Unused \ {{}} : Begin(h, [Idle EXCEPT !.pc = "file", !.todo = S])
  /\ UNCHANGED <<documents, security, job, calls>>

(* handleUploadedFile: accepted by size and type, and sent. *)
SendFile(h) ==
  /\ client[h].pc = "file"
  /\ \E d \in client[h].todo :
       /\ Be(h, [client[h] EXCEPT !.pc = "wait", !.todo = @ \ {d}, !.doc = {d}])
       /\ job' = [job EXCEPT ![d] = "receive"]
  /\ UNCHANGED <<documents, security, calls, started>>

Processed(h) ==
  /\ client[h].pc = "wait"
  /\ \A d \in client[h].doc : job[d] = "done"
  /\ Be(h, [client[h] EXCEPT !.pc = "insert"])
  /\ UNCHANGED <<documents, security, job, calls, started>>

(* createUploadedDocument: document and version in one transaction. *)
InsertUploaded(h) ==
  /\ client[h].pc = "insert"
  /\ \E d \in client[h].doc :
       /\ row' = [row EXCEPT ![d] = [from |-> "upload", current |-> 1]]
       /\ versions' = [versions EXCEPT ![d] = {1}]
       /\ Be(h, IF client[h].todo = {} THEN Idle ELSE [client[h] EXCEPT !.pc = "file", !.doc = {}])
  /\ UNCHANGED <<torn, security, job, calls, started>>

(* createDocument: metadata only; there is no version 1. *)
CreateDocument(h) ==
  /\ \E d \in Unused : Begin(h, [Idle EXCEPT !.pc = "create", !.doc = {d}])
  /\ UNCHANGED <<documents, security, job, calls>>

InsertDocument(h) ==
  /\ client[h].pc = "create"
  /\ \E d \in client[h].doc : row' = [row EXCEPT ![d] = [from |-> "create", current |-> 1]]
  /\ Be(h, Idle)
  /\ UNCHANGED <<versions, torn, security, job, calls, started>>

(* Refused, failed, timed out, or stopped with the process: what is half   *)
(* done stays so, and files not sent yet are deleted.                      *)
GiveUp(h) ==
  /\ client[h] # Idle
  /\ Be(h, Idle)
  /\ torn' = IF client[h].pc = "count" THEN torn \cup client[h].doc ELSE torn
  /\ UNCHANGED <<row, versions, security, job, calls, started>>
-----------------------------------------------------------------------------
(* createVersion: the number is read, a row inserted under it (unique),    *)
(* and current_version set.                                                *)
CreateVersion(h) ==
  /\ \E d \in Doc :
       /\ row[d].from # "none"
       /\ Begin(h, [Idle EXCEPT !.pc = "number", !.doc = {d}, !.version = row[d].current + 1])
  /\ UNCHANGED <<documents, security, job, calls>>

InsertVersion(h) ==
  /\ client[h].pc = "number"
  /\ \E d \in client[h].doc :
       /\ client[h].version \in Version \ versions[d]
       /\ versions' = [versions EXCEPT ![d] = @ \cup {client[h].version}]
  /\ Be(h, [client[h] EXCEPT !.pc = "count"])
  /\ UNCHANGED <<row, torn, security, job, calls, started>>

(* current_version is set, and processDocument called without waiting. *)
NumberAgain(h) ==
  /\ client[h].pc = "count"
  /\ \E d \in client[h].doc :
       /\ row' = [row EXCEPT ![d].current = @]
       /\ calls' = calls \cup {<<d, client[h].version>>}
  /\ Be(h, Idle)
  /\ UNCHANGED <<versions, torn, security, job, started>>

SetCurrentVersion(h) ==
  /\ client[h].pc = "count"
  /\ \E d \in client[h].doc :
       /\ row' = [row EXCEPT ![d].current = client[h].version]
       /\ calls' = calls \cup {<<d, client[h].version>>}
  /\ Be(h, Idle)
  /\ UNCHANGED <<versions, torn, security, job, started>>

LoseCall ==
  /\ \E c \in calls : calls' = calls \ {c}
  /\ UNCHANGED <<documents, security, job, client, started>>
-----------------------------------------------------------------------------
(* processUploadStream: received, found clean, encrypted, stored, recorded. *)
Job(d, from, to) == job[d] = from /\ job' = [job EXCEPT ![d] = to]

ScanOpenly(d) ==
  /\ Job(d, "receive", "clean")
  /\ scanned' \in {scanned, scanned \cup {d}}
  /\ UNCHANGED <<documents, client, calls, started, record, objects, key>>

ScanFile(d) ==
  /\ Job(d, "receive", "clean")
  /\ scanned' = scanned \cup {d}
  /\ UNCHANGED <<documents, client, calls, started, record, objects, key>>

(* The wrapping key is the active one, which must be configured. *)
PutLater(d) ==
  /\ key.active \in key.configured
  /\ Job(d, "clean", "put")
  /\ UNCHANGED <<documents, client, calls, started, security>>

PutObject(d) ==
  /\ key.active \in key.configured
  /\ Job(d, "clean", "put")
  /\ objects' = objects \cup {d}
  /\ UNCHANGED <<documents, client, calls, started, record, scanned, key>>

UploadRecord == [scan |-> "CLEAN", signature |-> "hmac", kek |-> key.active]

(* The row is written; its answer may be lost. *)
CreateRecord(d, answered) ==
  /\ record[d][1] = NoRecord
  /\ Job(d, "put", IF answered THEN "done" ELSE "undo")
  /\ record' = [record EXCEPT ![d][1] = UploadRecord]
  /\ UNCHANGED <<documents, client, calls, started, objects, scanned, key>>

(* Refused or failed: what was stored is removed again, if that succeeds. *)
FailJob(d) ==
  \/ /\ Job(d, "receive", "failed") \/ Job(d, "clean", "failed")
     /\ UNCHANGED <<documents, client, calls, started, security>>
  \/ /\ Job(d, "put", "undo")
     /\ UNCHANGED <<documents, client, calls, started, security>>
  \/ /\ Job(d, "undo", "failed")
     /\ \/ objects' = objects \ {d}
        \/ objects' = objects
     /\ UNCHANGED <<documents, client, calls, started, record, scanned, key>>

(* The security service starts again, perhaps with other settings: keys    *)
(* are added, never taken away.  Its jobs end where they are.              *)
Running(d) == job[d] \notin {"none", "done", "failed"}

RestartSecurity ==
  /\ \E S \in SUBSET Kek, k \in Kek :
       /\ key.configured \subseteq S
       /\ key' = [configured |-> S, active |-> k]
       /\ key' # key \/ \E d \in Doc : Running(d)
  /\ job' = [d \in Doc |-> IF Running(d) THEN "failed" ELSE job[d]]
  /\ UNCHANGED <<documents, client, calls, started, record, objects, scanned>>

(* processDocument: a record without scan, signature or object.  The call  *)
(* carries the key version that its caller names, here the active one.     *)
ProcessDocument ==
  \E c \in calls :
    /\ record[c[1]][c[2]] = NoRecord
    /\ record' = [record EXCEPT ![c[1]][c[2]] = [scan |-> "PENDING", signature |-> "none", kek |-> key.active]]
    /\ calls' = calls \ {c}
    /\ UNCHANGED <<documents, client, job, started, objects, scanned, key>>
-----------------------------------------------------------------------------
(* updateScanResult and signDocument, called by hand: the gateway does not *)
(* forward them.                                                           *)
UpdateScanResult(d, v) ==
  /\ record[d][v] # NoRecord
  /\ \E s \in {"CLEAN", "INFECTED"} :
       /\ record[d][v].scan # s
       /\ record' = [record EXCEPT ![d][v].scan = s]
  /\ UNCHANGED <<documents, client, job, calls, started, objects, scanned, key>>

SignDocument(d, v) ==
  /\ record[d][v].scan = "CLEAN"
  /\ record[d][v].signature # "given"
  /\ record' = [record EXCEPT ![d][v].signature = "given"]
  /\ UNCHANGED <<documents, client, job, calls, started, objects, scanned, key>>

(* preparePlaintextDownload and decryptDocumentVersionToBuffer succeed: the *)
(* signature is verified, the object there, and its key configured.        *)
Verified(r) == r.signature = "hmac"

Decryptable(d, v) ==
  /\ Verified(record[d][v])
  /\ v = 1 /\ d \in objects
  /\ record[d][v].kek \in key.configured
-----------------------------------------------------------------------------
Next ==
  \/ \E h \in Client :
       \/ Upload(h) \/ SendFile(h) \/ Processed(h) \/ InsertUploaded(h)
       \/ CreateDocument(h) \/ InsertDocument(h)
       \/ CreateVersion(h) \/ InsertVersion(h) \/ SetCurrentVersion(h)
       \/ GiveUp(h)
  \/ \E d \in Doc :
       \/ ScanFile(d) \/ PutObject(d) \/ FailJob(d)
       \/ \E answered \in BOOLEAN : CreateRecord(d, answered)
       \/ \E v \in Version : UpdateScanResult(d, v) \/ SignDocument(d, v)
  \/ LoseCall \/ RestartSecurity \/ ProcessDocument

Spec == Init /\ [][Next]_store
-----------------------------------------------------------------------------
(* Rows, records, jobs and requests are well typed. *)
TypeOK ==
  /\ row \in [Doc -> [from: {"none", "upload", "create"}, current: 0 .. MaxVersion]]
  /\ versions \in [Doc -> SUBSET Version]
  /\ record \in [Doc -> [Version -> [scan: {"none", "PENDING", "CLEAN", "INFECTED"},
                                     signature: {"none", "hmac", "given"}, kek: Kek]]]
  /\ objects \in SUBSET Doc
  /\ job \in [Doc -> {"none", "receive", "clean", "put", "undo", "done", "failed"}]
  /\ client \in [Client -> [pc: {"idle", "file", "wait", "insert", "create", "number", "count"},
                            todo: SUBSET Doc, doc: SUBSET Doc, version: 0 .. MaxVersion + 1]]
  /\ calls \in SUBSET (Doc \X Version)
  /\ started \in 0 .. MaxCalls
  /\ key \in [configured: SUBSET Kek, active: Kek]
  /\ torn \in SUBSET Doc /\ scanned \in SUBSET Doc

(* The file of an uploaded document can be had again, whatever failed,     *)
(* timed out or was compensated while it was uploaded, and whichever keys  *)
(* became active since; unless somebody replaced its signature.            *)
UploadsDecryptable ==
  \A d \in Doc : row[d].from = "upload" =>
    Decryptable(d, 1) \/ record[d][1].signature = "given"

(* Nobody is given a file that ClamAV has not found clean, whatever scan   *)
(* results and signatures are sent to the service.                         *)
ServedWereScanned == \A d \in Doc, v \in Version : Decryptable(d, v) => d \in scanned

(* The versions of a document are numbered without a gap up to its current *)
(* one.  One more is there only while a request is between its statements, *)
(* or after one stopped there; then the document gets no version any more. *)
Counting(d) == \E h \in Client : client[h].pc = "count" /\ d \in client[h].doc

NumbersUnbroken ==
  \A d \in Doc :
    LET last == row[d].current
        first == IF row[d].from = "upload" THEN 1 ELSE 2
    IN  versions[d] = first .. (IF d \in torn \/ Counting(d) THEN last + 1 ELSE last)
=============================================================================
