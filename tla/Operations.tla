------------------------------ MODULE Operations ------------------------------
(***************************************************************************)
(* The operations of the public API and the conditions under which each    *)
(* handler lets a request through.  The conditions are spread over four    *)
(* layers: the policy of the gateway (gateway.controller.ts), what the     *)
(* handler asks of the role and the capabilities in the access token, what *)
(* the Permission Service is asked, and what the service demands of the    *)
(* caller's relation to the row.  No handler has all four, and several     *)
(* have none but the gateway's, so that only the whole says who may do     *)
(* what.                                                                   *)
(*                                                                         *)
(* A way is one sufficient combination of conditions; a handler that tells *)
(* cases apart has several.  A list that is cut down to the caller's own   *)
(* rows counts as an operation on what is one's own ("mine").  What an     *)
(* operation then does is modelled in the module of its service, except    *)
(* for who takes part in a task, on which later requests depend.           *)
(***************************************************************************)
EXTENDS ServiceConstants

Role == {"ADMIN", "EMPLOYEE"}
Administrators == {"ADMIN"}
Employees == {"EMPLOYEE"}
Internal == {}     \* what the gateway forwards for nobody; services call it without the gateway
Anything == "-"    \* a condition that is not made

(* The actions no administrator may ever be allowed: V3 5.2.1.             *)
AdminForbidden ==
  {"TASK_CREATE", "TASK_VIEW", "TASK_ASSIGN", "TASK_COMMENT", "TASK_SUBMIT", "TASK_REVIEW", "TASK_MODIFY",
   "PREVIEW", "DOWNLOAD", "UPDATE", "SHARE", "TRANSFER", "ARCHIVE_SUBMIT", "ARCHIVE_RECEIVE",
   "ARCHIVE_DECIDE", "DISPOSAL_APPROVE", "DISPOSE"}

(* The actions on tasks that are left to the Task Service to decide. *)
TaskActions ==
  {"TASK_CREATE", "TASK_VIEW", "TASK_ASSIGN", "TASK_COMMENT", "TASK_SUBMIT", "TASK_REVIEW", "TASK_MODIFY"}

(* Any of these lets a caller open the page of a document. *)
ViewActions == {"PREVIEW", "DOWNLOAD", "SHARE", "DISPOSE"}
-----------------------------------------------------------------------------
(* Through the gateway for these roles, and the handler for those.         *)
Through(gateway, handler) ==
  [gateway |-> gateway, handler |-> handler, capability |-> Anything, relation |-> {},
   on |-> Anything, action |-> Anything, names |-> FALSE]

Ways(ops, way) == {[op |-> op, way |-> way] : op \in ops}

Asking(way, on, action) == [way EXCEPT !.on = on, !.action = action]
With(way, capability) == [way EXCEPT !.capability = capability]
If(way, relation) == [way EXCEPT !.relation = relation]
Naming(way) == [way EXCEPT !.names = TRUE]

ByEmployees == Through(Role, Employees)
ByAnyone == Through(Role, Role)
ByAdmins == Through(Administrators, Administrators)
Ungated == Through(Administrators, Role)   \* the handler relies on the gateway
ByServices == Through(Internal, Role)

(* An administrator, or whoever it belongs to. *)
OwnOrAdmin(ops) ==
  Ways(ops, If(ByEmployees, {"mine"})) \cup Ways(ops, Through(Role, Administrators))
-----------------------------------------------------------------------------
(* Documents. *)
ListDocuments ==
  Ways({"listDocuments"}, If(ByEmployees, {"mine"}))
    \cup Ways({"listDocuments"}, Asking(Through(Role, Administrators), "DOCUMENT", "PREVIEW"))

DocumentDetails ==
  Ways({"getDocumentPreview"}, Asking(ByAnyone, "DOCUMENT", "PREVIEW"))
    \cup UNION {Ways({"getDocument"}, Asking(ByAnyone, "DOCUMENT", a)) : a \in ViewActions}

DocumentVersions ==
  UNION {Ways({"getVersions", "getVersion"}, Asking(ByAnyone, "DOCUMENT", a)) : a \in ViewActions}

CreateDocuments ==
  Ways({"createDocument", "uploadDocument"}, ByEmployees)
    \cup Ways({"createVersion"}, Asking(Through(Internal, Employees), "DOCUMENT", "UPDATE"))

Previews == Ways({"createPreviewSession"}, Asking(ByAnyone, "DOCUMENT", "PREVIEW"))

DownloadTickets ==
  Ways({"createDownloadTicket", "getDocumentDownload"}, Asking(ByAnyone, "DOCUMENT", "DOWNLOAD"))

DocumentInternals ==
  Ways({"getDocumentStatistics"}, ByServices) \cup Ways({"getInternalTitles"}, ByAnyone)

(* Records, transfer packages, retention. *)
RecordOperations ==
  Ways({"createRecord"}, ByEmployees)
    \cup Ways({"listRecords", "getRecord", "addEntry"}, If(ByEmployees, {"mine"}))
    \cup Ways({"sealRecord"}, Asking(ByEmployees, "RECORD", "TRANSFER"))

SubmitterOperations ==
  Ways({"createPackage", "submitPackage"},
       Asking(With(ByEmployees, "ARCHIVE_SUBMIT"), "TRANSFER_PACKAGE", "TRANSFER"))

ArchivistOperations ==
  Ways({"receivePackage", "acceptPackage", "rejectPackage"},
       Asking(With(ByEmployees, "ARCHIVE_RECEIVE"), "TRANSFER_PACKAGE", "TRANSFER"))

PackageOperations ==
  Ways({"archivePackage"}, Asking(With(ByEmployees, "ARCHIVE_RECEIVE"), "TRANSFER_PACKAGE", "TRANSFER"))
    \cup Ways({"getPackage", "listPackages"}, If(ByEmployees, {"mine"}))
    \cup Ways({"getPackage", "listPackages"}, With(ByEmployees, "ARCHIVE_RECEIVE"))

DisposalOperations ==
  Ways({"checkEligibility"}, ByEmployees)
    \cup Ways({"approveDisposal", "executeDisposal"},
              Asking(With(ByEmployees, "DISPOSAL_APPROVE"), "DOCUMENT", "DISPOSE"))

HoldOperations ==
  Ways({"placeHold", "releaseHold"}, ByEmployees)
    \cup Ways({"listHolds", "listApprovals"}, If(ByEmployees, {"mine"}))
-----------------------------------------------------------------------------
(* Tasks: the handlers have no rule about roles, the Permission Service    *)
(* has.  TaskWay(a) is the common form.                                    *)
TaskWay(action) == Asking(If(ByAnyone, {"participant"}), "TASK", action)

TaskReading ==
  Ways({"getTaskContext", "getTaskStatistics"}, ByServices)
    \cup Ways({"listTasks", "getTask"}, TaskWay("TASK_VIEW"))

TaskCreation ==
  Ways({"createTask"}, Asking(ByAnyone, "TASK", "TASK_CREATE"))
    \cup Ways({"createTask"}, Naming(Asking(ByAnyone, "TASK", "TASK_CREATE")))
    \cup Ways({"updateTask"}, TaskWay("TASK_MODIFY"))

TaskHandling ==
  Ways({"assignReviewer"}, Naming(TaskWay("TASK_MODIFY")))
    \cup Ways({"assignTask"}, Naming(TaskWay("TASK_ASSIGN")))
    \cup Ways({"updateStatus", "blockTask", "unblockTask"}, TaskWay("TASK_MODIFY"))

TaskParticipation ==
  Ways({"addParticipant"}, Naming(TaskWay("TASK_ASSIGN")))
    \cup Ways({"getParticipants"}, TaskWay("TASK_VIEW"))
    \cup Ways({"getComments", "addComment"}, TaskWay("TASK_COMMENT"))

TaskResults ==
  Ways({"submitResult"}, TaskWay("TASK_SUBMIT"))
    \cup Ways({"reviewSubmission"}, TaskWay("TASK_REVIEW"))
    \cup Ways({"getSubmissions", "getSubmission", "getActivity"}, TaskWay("TASK_VIEW"))

(* Documents of a task: an owner who takes part needs no grant. *)
TaskDocumentRoutes ==
  LET sharing == {"attach", "addGrant", "listTaskGrants", "updateGrant", "revokeTaskGrant"}
      partaking == If(ByAnyone, {"participant"}) IN
  Ways(sharing \cup {"detach"}, If(ByAnyone, {"participant", "mine"}))
    \cup Ways(sharing, Asking(partaking, "DOCUMENT", "SHARE"))
    \cup Ways({"detach"}, Asking(partaking, "DOCUMENT", "DISPOSE"))
    \cup Ways({"listTaskDocuments"}, partaking)
-----------------------------------------------------------------------------
(* Grants. *)
Decisions ==
  Ways({"checkPermission"}, ByServices)
    \cup Ways({"createTaskDocumentGrant"}, Through(Internal, Employees))

TaskDocumentGrants ==
  Ways({"revokeTaskDocumentGrants"}, ByServices)
    \cup Ways({"listTaskDocumentGrants", "updateTaskDocumentGrant", "revokeTaskDocumentGrant"},
              Through(Internal, Employees))

GrantOperations ==
  Ways({"createGrant"}, Through(Role, Administrators))
    \cup OwnOrAdmin({"listGrants", "getGrant", "delegateGrant", "revokeGrant"})

(* Accounts and users. *)
AccountOperations == Ways({"registerAdmin"}, ByAdmins) \cup Ways({"revokeAllSessions"}, ByServices)

UserReading ==
  Ways({"memberDirectory"}, ByAnyone) \cup Ways({"getUserStatistics"}, ByServices)
    \cup Ways({"listUsers", "getInternalAdmins", "getInternalUser"}, Ungated)

UserOperations ==
  Ways({"getUser", "createUser", "lockUser", "unlockUser", "grantCapability", "revokeCapability"}, Ungated)

(* Alerts, the audit trail, the inbox. *)
AlertReading ==
  Ways({"getMonitoringStatistics", "recordEvent"}, ByServices) \cup Ways({"listAlerts", "getAlert"}, ByAdmins)

AlertOperations ==
  Ways({"resolveAlert", "createRule", "listRules", "toggleRule", "setRuleEmail", "deleteRule"}, ByAdmins)

AuditOperations ==
  Ways({"appendEvent"}, ByServices)
    \cup Ways({"listEvents"}, If(Through(Employees, Role), {"mine"}))
    \cup Ways({"listEvents", "getEvent", "getChainHead", "verifyChain"}, Ungated)

InboxOperations ==
  Ways({"createNotification"}, ByAdmins)
    \cup OwnOrAdmin({"getNotification", "listNotifications", "markAsRead", "markAllAsRead",
                     "getPreferences", "updatePreferences"})

(* The files themselves. *)
SecurityOperations ==
  Ways({"processUpload", "processDocument", "updateScan", "signDocument", "getEncryptionRecord",
        "getPlaintext"}, ByServices)

PreviewOperations ==
  Ways({"preparePreview", "extendPreview", "getPreviewPage", "revokePreview", "listEncryptionRecords",
        "getActiveKek", "rotateKek"}, ByServices)

Operations ==
  ListDocuments \cup DocumentDetails \cup DocumentVersions \cup CreateDocuments \cup Previews
    \cup DownloadTickets \cup DocumentInternals \cup RecordOperations \cup SubmitterOperations
    \cup ArchivistOperations \cup PackageOperations \cup DisposalOperations \cup HoldOperations
    \cup TaskReading \cup TaskCreation \cup TaskHandling \cup TaskParticipation \cup TaskResults
    \cup TaskDocumentRoutes \cup Decisions \cup TaskDocumentGrants \cup GrantOperations
    \cup AccountOperations \cup UserReading \cup UserOperations \cup AlertReading \cup AlertOperations
    \cup AuditOperations \cup InboxOperations \cup SecurityOperations \cup PreviewOperations
=============================================================================
