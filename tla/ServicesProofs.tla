---------------------------- MODULE ServicesProofs ----------------------------
(***************************************************************************)
(* Theorems about the smaller services, as MCServices puts them together,  *)
(* for any number of users, tokens, requests, events, rules, readers and   *)
(* registrations.                                                          *)
(*                                                                         *)
(* Authority comes first.  Half of it is about the table of operations:    *)
(* whoever passes the gateway and the handler of an operation either has   *)
(* the role for it or must still be refused by the Permission Service or   *)
(* for taking no part in the task.  The rest follows a request through the *)
(* layers.  Notifications, WebClient, Accounts, Gateway and SecurityAlerts *)
(* follow, each with an inductive invariant and a lemma for each group of  *)
(* actions, and in the end the theorems about all of them.                 *)
(***************************************************************************)
EXTENDS MCServices, FiniteSetTheorems, TLAPS

Capabilities == {Anything, "ARCHIVE_SUBMIT", "ARCHIVE_RECEIVE", "DISPOSAL_APPROVE"}
Resources == {Anything, "DOCUMENT", "RECORD", "TRANSFER_PACKAGE", "TASK"}
Actions == AdminForbidden \cup {Anything}
Relations == SUBSET {"mine", "participant"}

Way ==
  [gateway : SUBSET Role, handler : SUBSET Role, capability : Capabilities, relation : Relations,
   on : Resources, action : Actions, names : BOOLEAN]

(* Administrators are kept from content by the gateway and the handler, or *)
(* by the Permission Service, or because they take part in no task.        *)
ContentSafe(way) ==
  "ADMIN" \in way.gateway \cap way.handler =>
    \/ way.on # Anything /\ way.action \in AdminForbidden
    \/ "participant" \in way.relation

ControlSafe(way) == way.gateway \cap way.handler \subseteq Administrators

(* What only administrators may carry out.                                 *)
Managed == Control \cup AboutUsers

Sound(op, way) ==
  /\ way \in Way
  /\ op \in Content => ContentSafe(way)
  /\ op \in Managed => ControlSafe(way)
  /\ way.action = "TASK_CREATE" => way.on # Anything

AllSound(S) == \A o \in S : Sound(o.op, o.way)

SoundWays(ops, way) == AllSound(Ways(ops, way))
-----------------------------------------------------------------------------
(* The sets of roles that conditions are made of.                          *)
LEMMA RolesAre ==
  /\ Role \in SUBSET Role /\ Employees \in SUBSET Role
  /\ Administrators \in SUBSET Role /\ Internal \in SUBSET Role
  BY DEF Role, Employees, Administrators, Internal

(* The names that are no sets of roles.                                    *)
LEMMA Names ==
  /\ Anything \in Capabilities \cap Resources \cap Actions
  /\ {"DOCUMENT", "RECORD", "TRANSFER_PACKAGE", "TASK"} \subseteq Resources \ {Anything}
  /\ {"ARCHIVE_SUBMIT", "ARCHIVE_RECEIVE", "DISPOSAL_APPROVE"} \subseteq Capabilities
  /\ {"PREVIEW", "DOWNLOAD", "SHARE", "DISPOSE", "UPDATE", "TRANSFER"} \subseteq AdminForbidden
  /\ TaskActions \subseteq AdminForbidden
  /\ {"TASK_CREATE", "TASK_VIEW", "TASK_ASSIGN", "TASK_COMMENT", "TASK_SUBMIT", "TASK_REVIEW",
      "TASK_MODIFY"} \subseteq AdminForbidden
  /\ AdminForbidden \subseteq Actions \ {Anything}
  /\ "TASK_CREATE" # Anything
  /\ {{}, {"mine"}, {"participant"}, {"mine", "participant"}} \subseteq Relations
  BY DEF Capabilities, Resources, Actions, Relations,
         AdminForbidden, TaskActions, Anything

(* What each way of making a condition does to it.                         *)
LEMMA ThroughIs ==
  ASSUME NEW gate \in SUBSET Role, NEW hand \in SUBSET Role
  PROVE  /\ Through(gate, hand) \in Way
         /\ Through(gate, hand).gateway = gate /\ Through(gate, hand).handler = hand
         /\ Through(gate, hand).on = Anything /\ Through(gate, hand).action = Anything
         /\ Through(gate, hand).relation = {}
  BY Names DEF Through, Way

(* It sets what the Permission Service is asked.                           *)
LEMMA AskingIs ==
  ASSUME NEW old \in Way, NEW on \in Resources, NEW action \in Actions
  PROVE  /\ Asking(old, on, action) \in Way
         /\ Asking(old, on, action).gateway = old.gateway /\ Asking(old, on, action).handler = old.handler
         /\ Asking(old, on, action).on = on /\ Asking(old, on, action).action = action
         /\ Asking(old, on, action).relation = old.relation
  BY DEF Asking, Way

(* It sets the capability.                                                 *)
LEMMA WithIs ==
  ASSUME NEW old \in Way, NEW capability \in Capabilities
  PROVE  /\ With(old, capability) \in Way
         /\ With(old, capability).gateway = old.gateway /\ With(old, capability).handler = old.handler
         /\ With(old, capability).on = old.on /\ With(old, capability).action = old.action
         /\ With(old, capability).relation = old.relation
  BY DEF With, Way

(* It sets the relation.                                                   *)
LEMMA IfIs ==
  ASSUME NEW old \in Way, NEW relation \in Relations
  PROVE  /\ If(old, relation) \in Way
         /\ If(old, relation).gateway = old.gateway /\ If(old, relation).handler = old.handler
         /\ If(old, relation).on = old.on /\ If(old, relation).action = old.action
         /\ If(old, relation).relation = relation
  BY DEF If, Way

(* It sets whether somebody is named.                                      *)
LEMMA NamingIs ==
  ASSUME NEW old \in Way
  PROVE  /\ Naming(old) \in Way
         /\ Naming(old).gateway = old.gateway /\ Naming(old).handler = old.handler
         /\ Naming(old).on = old.on /\ Naming(old).action = old.action
         /\ Naming(old).relation = old.relation
  BY DEF Naming, Way

(* The members of a set of ways.                                           *)
LEMMA WaysAre ==
  ASSUME NEW ops, NEW way, NEW o \in Ways(ops, way)
  PROVE  o.op \in ops /\ o.way = way
  BY DEF Ways

(* The common ways.                                                        *)
LEMMA ByEmployeesIs == ByEmployees \in Way /\ ByEmployees.handler = Employees /\ ByEmployees.action = Anything
<1>1. ByEmployees \in Way
  BY ThroughIs, RolesAre, Zenon DEF ByEmployees
<1>2. ByEmployees.handler = Employees /\ ByEmployees.action = Anything
  BY DEF ByEmployees, Through
<1> QED
  BY <1>1, <1>2

(* For either role.                                                        *)
LEMMA ByAnyoneIs == ByAnyone \in Way /\ ByAnyone.action = Anything
  BY ThroughIs, RolesAre DEF ByAnyone

(* For nobody who comes through the gateway.                               *)
LEMMA ByServicesAre ==
  /\ ByServices \in Way /\ ByServices.gateway = Internal /\ ByServices.action = Anything
  /\ Through(Internal, Employees) \in Way
  /\ Through(Internal, Employees).gateway = Internal /\ Through(Internal, Employees).action = Anything
<1>1. ByServices \in Way
  BY ThroughIs, RolesAre, Zenon DEF ByServices
<1>2. Through(Internal, Employees) \in Way
  BY ThroughIs, RolesAre, Zenon
<1>3. ByServices.gateway = Internal /\ ByServices.action = Anything
  BY DEF ByServices, Through
<1>4. Through(Internal, Employees).gateway = Internal /\ Through(Internal, Employees).action = Anything
  BY DEF Through
<1> QED
  BY <1>1, <1>2, <1>3, <1>4

(* For administrators, by the gateway or the handler.                      *)
LEMMA ByAdminsAre ==
  /\ ByAdmins \in Way /\ ByAdmins.gateway \cap ByAdmins.handler \subseteq Administrators
  /\ ByAdmins.action = Anything
  /\ Ungated \in Way /\ Ungated.gateway \cap Ungated.handler \subseteq Administrators
  /\ Ungated.action = Anything
  /\ Through(Role, Administrators) \in Way
  /\ Through(Role, Administrators).gateway \cap Through(Role, Administrators).handler \subseteq Administrators
  /\ Through(Role, Administrators).action = Anything
<1>1. ByAdmins \in Way
  BY ThroughIs, RolesAre, Zenon DEF ByAdmins
<1>2. Ungated \in Way
  BY ThroughIs, RolesAre, Zenon DEF Ungated
<1>3. Through(Role, Administrators) \in Way
  BY ThroughIs, RolesAre, Zenon
<1>4. ByAdmins.handler = Administrators /\ ByAdmins.action = Anything
  BY DEF ByAdmins, Through
<1>5. Ungated.gateway = Administrators /\ Ungated.action = Anything
  BY DEF Ungated, Through
<1>6. /\ Through(Role, Administrators).handler = Administrators
      /\ Through(Role, Administrators).action = Anything
  BY DEF Through
<1> QED
  BY <1>1, <1>2, <1>3, <1>4, <1>5, <1>6
-----------------------------------------------------------------------------
(* The ways in which an operation is sound.  Own is what either role may   *)
(* carry out, on what is its own for the most part.                        *)
Own ==
  {"listDocuments", "getInternalTitles", "listGrants", "getGrant", "delegateGrant", "revokeGrant",
   "memberDirectory", "listEvents", "getNotification", "listNotifications", "markAsRead",
   "markAllAsRead", "getPreferences", "updatePreferences"}

(* No operation is of two kinds.                                           *)
LEMMA KindsApart ==
  /\ (Content \cup Own) \cap Managed = {}
  /\ (Managed \cup Own) \cap Content = {}
<1>1. Content \cap Control = {}
  BY DEF Content, Control
<1>2. Content \cap AboutUsers = {}
  BY DEF Content, AboutUsers
<1>3. Own \cap (Content \cup Control \cup AboutUsers) = {}
  BY DEF Own, Content, Control, AboutUsers
<1> QED
  BY <1>1, <1>2, <1>3 DEF Managed

(* The Permission Service is asked for something administrators never may. *)
LEMMA AskedSound ==
  ASSUME NEW ops, NEW old \in Way, NEW on \in Resources \ {Anything}, NEW action \in AdminForbidden,
         ops \subseteq Content \cup Own
  PROVE  SoundWays(ops, Asking(old, on, action)) /\ SoundWays(ops, Naming(Asking(old, on, action)))
<1>1. /\ Asking(old, on, action) \in Way
      /\ Asking(old, on, action).on = on /\ Asking(old, on, action).action = action
  BY AskingIs, Names
<1>2. \A way \in {Naming(Asking(old, on, action))} : way \in Way /\ way.on = on /\ way.action = action
  BY <1>1, NamingIs
<1> QED
  BY <1>1, <1>2, WaysAre, KindsApart DEF SoundWays, AllSound, Sound, ContentSafe

(* The handler refuses administrators.                                     *)
LEMMA EmployeesSound ==
  ASSUME NEW ops, ops \subseteq Content \cup Own, NEW relation \in Relations, NEW capability \in Capabilities
  PROVE  /\ SoundWays(ops, ByEmployees)
         /\ SoundWays(ops, If(ByEmployees, relation))
         /\ SoundWays(ops, With(ByEmployees, capability))
<1> DEFINE IsSuch(way) == way \in Way /\ way.handler = Employees /\ way.action = Anything
<1>1. IsSuch(ByEmployees)
  BY ByEmployeesIs
<1>2. IsSuch(If(ByEmployees, relation))
  BY <1>1, IfIs
<1>3. IsSuch(With(ByEmployees, capability))
  BY <1>1, WithIs
<1>4. ASSUME NEW way, IsSuch(way)
      PROVE  SoundWays(ops, way)
  BY <1>4, WaysAre, KindsApart, Names DEF SoundWays, AllSound, Sound, ContentSafe, Employees
<1> QED
  BY <1>1, <1>2, <1>3, <1>4

(* Whoever calls must take part in the task.                               *)
LEMMA PartakingSound ==
  ASSUME NEW ops, ops \subseteq Content \cup Own, NEW relation \in Relations, "participant" \in relation
  PROVE  SoundWays(ops, If(ByAnyone, relation))
<1>1. ByAnyone \in Way /\ ByAnyone.action = Anything
  BY ByAnyoneIs
<1>2. \A way \in {If(ByAnyone, relation)} :
        way \in Way /\ way.relation = relation /\ way.action = Anything
  BY <1>1, IfIs
<1> QED
  BY <1>2, WaysAre, KindsApart, Names DEF SoundWays, AllSound, Sound, ContentSafe

(* The gateway lets nobody call it.                                        *)
LEMMA InternalSound ==
  ASSUME NEW ops, NEW on \in Resources \ {Anything}, NEW action \in Actions
  PROVE  /\ SoundWays(ops, ByServices)
         /\ SoundWays(ops, Through(Internal, Employees))
         /\ SoundWays(ops, Asking(Through(Internal, Employees), on, action))
<1> DEFINE IsSuch(way) == /\ way \in Way /\ way.gateway = Internal
                          /\ way.action = Anything \/ way.on # Anything
<1>1. IsSuch(ByServices)
  BY ByServicesAre
<1>2. IsSuch(Through(Internal, Employees))
  BY ByServicesAre
<1>3. IsSuch(Asking(Through(Internal, Employees), on, action))
  <2>1. on \in Resources
    OBVIOUS
  <2> QED
    BY <1>2, <2>1, AskingIs
<1>4. ASSUME NEW way, IsSuch(way)
      PROVE  SoundWays(ops, way)
  BY <1>4, WaysAre, KindsApart, Names DEF SoundWays, AllSound, Sound, ContentSafe, ControlSafe, Internal
<1> QED
  BY <1>1, <1>2, <1>3, <1>4

(* The gateway or the handler lets administrators only through.            *)
LEMMA AdminsSound ==
  ASSUME NEW ops, ops \subseteq Managed \cup Own
  PROVE  /\ SoundWays(ops, ByAdmins) /\ SoundWays(ops, Ungated)
         /\ SoundWays(ops, Through(Role, Administrators))
<1> DEFINE IsSuch(way) == way \in Way /\ ControlSafe(way) /\ way.action = Anything
<1>1. IsSuch(ByAdmins) /\ IsSuch(Ungated) /\ IsSuch(Through(Role, Administrators))
  BY ByAdminsAre DEF ControlSafe
<1>2. ASSUME NEW way, IsSuch(way)
      PROVE  SoundWays(ops, way)
  BY <1>2, WaysAre, KindsApart, Names DEF SoundWays, AllSound, Sound
<1> QED
  BY <1>1, <1>2

(* Operations on what is one's own are for either role.                    *)
LEMMA OwnSound ==
  ASSUME NEW ops, ops \subseteq Own,
         NEW gate \in SUBSET Role, NEW hand \in SUBSET Role, NEW relation \in Relations
  PROVE  SoundWays(ops, Through(gate, hand)) /\ SoundWays(ops, If(Through(gate, hand), relation))
<1> DEFINE IsSuch(way) == way \in Way /\ way.action = Anything
<1>1. IsSuch(Through(gate, hand))
  <2>1. Through(gate, hand) \in Way
    BY ThroughIs, Zenon
  <2> QED
    BY <2>1 DEF Through
<1>2. IsSuch(If(Through(gate, hand), relation))
  BY <1>1, IfIs
<1>3. ASSUME NEW way, IsSuch(way)
      PROVE  SoundWays(ops, way)
  BY <1>3, WaysAre, KindsApart, Names DEF SoundWays, AllSound, Sound
<1> QED
  BY <1>1, <1>2, <1>3
-----------------------------------------------------------------------------
(* The groups of operations, one service after the other.                  *)
LEMMA OldWays ==
  /\ ByEmployees \in Way /\ ByAnyone \in Way /\ Through(Role, Administrators) \in Way
  /\ Through(Internal, Employees) \in Way
  /\ If(ByAnyone, {"participant"}) \in Way
  /\ \A c \in Capabilities : With(ByEmployees, c) \in Way
  BY ByEmployeesIs, ByAnyoneIs, ByAdminsAre, ByServicesAre, IfIs, WithIs, Names

(* Sound operations together are sound.                                    *)
LEMMA SoundUnion ==
  ASSUME NEW S, NEW T, AllSound(S), AllSound(T)
  PROVE  AllSound(S \cup T)
  BY DEF AllSound

(* The details of a document, for whoever may view it in any way.          *)
LEMMA ViewsSound ==
  ASSUME NEW ops, ops \subseteq Content \cup Own
  PROVE  AllSound(UNION {Ways(ops, Asking(ByAnyone, "DOCUMENT", a)) : a \in ViewActions})
<1>1. ViewActions \subseteq AdminForbidden
  BY DEF ViewActions, AdminForbidden
<1>2. "DOCUMENT" \in Resources \ {Anything} /\ ByAnyone \in Way
  BY Names, OldWays
<1>3. ASSUME NEW a \in ViewActions
      PROVE  AllSound(Ways(ops, Asking(ByAnyone, "DOCUMENT", a)))
  BY <1>1, <1>2, AskedSound, Zenon DEF SoundWays
<1> QED
  BY <1>3 DEF AllSound

(* Documents are made, opened and downloaded with a grant, by no           *)
(* administrator.                                                          *)
LEMMA DocumentWays ==
  /\ AllSound(ListDocuments) /\ AllSound(CreateDocuments)
  /\ AllSound(Previews) /\ AllSound(DownloadTickets) /\ AllSound(DocumentInternals)
<1>1. AllSound(ListDocuments)
  <2>1. {"listDocuments"} \subseteq Content \cup Own
    BY DEF Own
  <2>2. SoundWays({"listDocuments"}, If(ByEmployees, {"mine"}))
    BY <2>1, EmployeesSound, Names
  <2>3. SoundWays({"listDocuments"}, Asking(Through(Role, Administrators), "DOCUMENT", "PREVIEW"))
    BY <2>1, AskedSound, OldWays, Names
  <2> QED
    BY <2>2, <2>3, SoundUnion DEF ListDocuments, SoundWays
<1>2. AllSound(CreateDocuments)
  <2>1. {"createDocument", "uploadDocument"} \subseteq Content \cup Own
    BY DEF Content
  <2>2. SoundWays({"createDocument", "uploadDocument"}, ByEmployees)
    BY <2>1, EmployeesSound, Names
  <2>3. SoundWays({"createVersion"}, Asking(Through(Internal, Employees), "DOCUMENT", "UPDATE"))
    BY InternalSound, Names
  <2> QED
    BY <2>2, <2>3, SoundUnion DEF CreateDocuments, SoundWays
<1>3. AllSound(Previews)
  <2>1. {"createPreviewSession"} \subseteq Content \cup Own
    BY DEF Content
  <2> QED
    BY <2>1, AskedSound, OldWays, Names DEF Previews, SoundWays
<1>4. AllSound(DownloadTickets)
  <2>1. {"createDownloadTicket", "getDocumentDownload"} \subseteq Content \cup Own
    BY DEF Content
  <2> QED
    BY <2>1, AskedSound, OldWays, Names DEF DownloadTickets, SoundWays
<1>5. AllSound(DocumentInternals)
  <2>1. SoundWays({"getDocumentStatistics"}, ByServices)
    BY InternalSound, Names
  <2>2. SoundWays({"getInternalTitles"}, ByAnyone)
    <3>1. {"getInternalTitles"} \subseteq Own
      BY DEF Own
    <3> QED
      BY <3>1, OwnSound, RolesAre, Names DEF ByAnyone
  <2> QED
    BY <2>1, <2>2, SoundUnion DEF DocumentInternals, SoundWays
<1> QED
  BY <1>1, <1>2, <1>3, <1>4, <1>5

(* The details of a document and its versions.                             *)
LEMMA VersionWays ==
  /\ AllSound(DocumentDetails) /\ AllSound(DocumentVersions)
<1>1. AllSound(DocumentDetails)
  <2>1. {"getDocument"} \subseteq Content \cup Own
    BY DEF Content
  <2>2. AllSound(UNION {Ways({"getDocument"}, Asking(ByAnyone, "DOCUMENT", a)) : a \in ViewActions})
    BY <2>1, ViewsSound
  <2>3. {"getDocumentPreview"} \subseteq Content \cup Own
    BY DEF Content
  <2>4. SoundWays({"getDocumentPreview"}, Asking(ByAnyone, "DOCUMENT", "PREVIEW"))
    BY <2>3, AskedSound, OldWays, Names
  <2> QED
    BY <2>2, <2>4, SoundUnion DEF DocumentDetails, SoundWays
<1>2. AllSound(DocumentVersions)
  <2>1. {"getVersions", "getVersion"} \subseteq Content \cup Own
    BY DEF Content
  <2>2. AllSound(UNION {Ways({"getVersions", "getVersion"}, Asking(ByAnyone, "DOCUMENT", a)) :
                          a \in ViewActions})
    BY <2>1, ViewsSound
  <2> QED
    BY <2>2, Zenon DEF DocumentVersions
<1> QED
  BY <1>1, <1>2

(* Records, transfer packages and disposal are for employees.              *)
LEMMA RecordWays ==
  /\ AllSound(RecordOperations) /\ AllSound(SubmitterOperations)
  /\ AllSound(ArchivistOperations) /\ AllSound(PackageOperations)
  /\ AllSound(DisposalOperations) /\ AllSound(HoldOperations)
<1>1. AllSound(RecordOperations)
  <2>1. {"createRecord"} \subseteq Content \cup Own
    BY DEF Content
  <2>2. SoundWays({"createRecord"}, ByEmployees)
    BY <2>1, EmployeesSound, Names
  <2>3. {"listRecords", "getRecord", "addEntry"} \subseteq Content \cup Own
    BY DEF Content
  <2>4. SoundWays({"listRecords", "getRecord", "addEntry"}, If(ByEmployees, {"mine"}))
    BY <2>3, EmployeesSound, Names
  <2>5. {"sealRecord"} \subseteq Content \cup Own
    BY DEF Content
  <2>6. SoundWays({"sealRecord"}, Asking(ByEmployees, "RECORD", "TRANSFER"))
    BY <2>5, AskedSound, OldWays, Names
  <2> QED
    BY <2>2, <2>4, <2>6, SoundUnion DEF RecordOperations, SoundWays
<1>2. AllSound(SubmitterOperations)
  <2>1. {"createPackage", "submitPackage"} \subseteq Content \cup Own
    BY DEF Content
  <2>2. SoundWays({"createPackage", "submitPackage"},
                  Asking(With(ByEmployees, "ARCHIVE_SUBMIT"), "TRANSFER_PACKAGE", "TRANSFER"))
    BY <2>1, AskedSound, OldWays, Names
  <2> QED
    BY <2>2 DEF SubmitterOperations, SoundWays
<1>3. AllSound(ArchivistOperations)
  <2>1. {"receivePackage", "acceptPackage", "rejectPackage"} \subseteq Content \cup Own
    BY DEF Content
  <2>2. SoundWays({"receivePackage", "acceptPackage", "rejectPackage"},
                  Asking(With(ByEmployees, "ARCHIVE_RECEIVE"), "TRANSFER_PACKAGE", "TRANSFER"))
    BY <2>1, AskedSound, OldWays, Names
  <2> QED
    BY <2>2 DEF ArchivistOperations, SoundWays
<1>4. AllSound(PackageOperations)
  <2>1. {"archivePackage"} \subseteq Content \cup Own
    BY DEF Content
  <2>2. SoundWays({"archivePackage"},
                  Asking(With(ByEmployees, "ARCHIVE_RECEIVE"), "TRANSFER_PACKAGE", "TRANSFER"))
    BY <2>1, AskedSound, OldWays, Names
  <2>3. {"getPackage", "listPackages"} \subseteq Content \cup Own
    BY DEF Content
  <2>4. SoundWays({"getPackage", "listPackages"}, If(ByEmployees, {"mine"}))
    BY <2>3, EmployeesSound, Names
  <2>5. {"getPackage", "listPackages"} \subseteq Content \cup Own
    BY DEF Content
  <2>6. SoundWays({"getPackage", "listPackages"}, With(ByEmployees, "ARCHIVE_RECEIVE"))
    BY <2>5, EmployeesSound, Names
  <2> QED
    BY <2>2, <2>4, <2>6, SoundUnion DEF PackageOperations, SoundWays
<1>5. AllSound(DisposalOperations)
  <2>1. {"checkEligibility"} \subseteq Content \cup Own
    BY DEF Content
  <2>2. SoundWays({"checkEligibility"}, ByEmployees)
    BY <2>1, EmployeesSound, Names
  <2>3. {"approveDisposal", "executeDisposal"} \subseteq Content \cup Own
    BY DEF Content
  <2>4. SoundWays({"approveDisposal", "executeDisposal"},
                  Asking(With(ByEmployees, "DISPOSAL_APPROVE"), "DOCUMENT", "DISPOSE"))
    BY <2>3, AskedSound, OldWays, Names
  <2> QED
    BY <2>2, <2>4, SoundUnion DEF DisposalOperations, SoundWays
<1>6. AllSound(HoldOperations)
  <2>1. {"placeHold", "releaseHold"} \subseteq Content \cup Own
    BY DEF Content
  <2>2. SoundWays({"placeHold", "releaseHold"}, ByEmployees)
    BY <2>1, EmployeesSound, Names
  <2>3. {"listHolds", "listApprovals"} \subseteq Content \cup Own
    BY DEF Content
  <2>4. SoundWays({"listHolds", "listApprovals"}, If(ByEmployees, {"mine"}))
    BY <2>3, EmployeesSound, Names
  <2> QED
    BY <2>2, <2>4, SoundUnion DEF HoldOperations, SoundWays
<1> QED
  BY <1>1, <1>2, <1>3, <1>4, <1>5, <1>6

(* Tasks: the Permission Service refuses administrators, or they take no   *)
(* part.                                                                   *)
LEMMA TaskWays ==
  /\ AllSound(TaskReading) /\ AllSound(TaskCreation) /\ AllSound(TaskHandling)
  /\ AllSound(TaskParticipation) /\ AllSound(TaskResults) /\ AllSound(TaskDocumentRoutes)
<1>1. AllSound(TaskReading)
  <2>1. SoundWays({"getTaskContext", "getTaskStatistics"}, ByServices)
    BY InternalSound, Names
  <2>2. {"listTasks", "getTask"} \subseteq Content \cup Own
    BY DEF Content
  <2>3. SoundWays({"listTasks", "getTask"}, TaskWay("TASK_VIEW"))
    BY <2>2, AskedSound, OldWays, Names DEF TaskWay
  <2> QED
    BY <2>1, <2>3, SoundUnion DEF TaskReading, SoundWays
<1>2. AllSound(TaskCreation)
  <2>1. {"createTask"} \subseteq Content \cup Own
    BY DEF Content
  <2>2. SoundWays({"createTask"}, Asking(ByAnyone, "TASK", "TASK_CREATE"))
    BY <2>1, AskedSound, OldWays, Names
  <2>3. {"createTask"} \subseteq Content \cup Own
    BY DEF Content
  <2>4. SoundWays({"createTask"}, Naming(Asking(ByAnyone, "TASK", "TASK_CREATE")))
    BY <2>3, AskedSound, OldWays, Names
  <2>5. {"updateTask"} \subseteq Content \cup Own
    BY DEF Content
  <2>6. SoundWays({"updateTask"}, TaskWay("TASK_MODIFY"))
    BY <2>5, AskedSound, OldWays, Names DEF TaskWay
  <2> QED
    BY <2>2, <2>4, <2>6, SoundUnion DEF TaskCreation, SoundWays
<1>3. AllSound(TaskHandling)
  <2>1. {"assignReviewer"} \subseteq Content \cup Own
    BY DEF Content
  <2>2. SoundWays({"assignReviewer"}, Naming(TaskWay("TASK_MODIFY")))
    BY <2>1, AskedSound, OldWays, Names DEF TaskWay
  <2>3. {"assignTask"} \subseteq Content \cup Own
    BY DEF Content
  <2>4. SoundWays({"assignTask"}, Naming(TaskWay("TASK_ASSIGN")))
    BY <2>3, AskedSound, OldWays, Names DEF TaskWay
  <2>5. {"updateStatus", "blockTask", "unblockTask"} \subseteq Content \cup Own
    BY DEF Content
  <2>6. SoundWays({"updateStatus", "blockTask", "unblockTask"}, TaskWay("TASK_MODIFY"))
    BY <2>5, AskedSound, OldWays, Names DEF TaskWay
  <2> QED
    BY <2>2, <2>4, <2>6, SoundUnion DEF TaskHandling, SoundWays
<1>4. AllSound(TaskParticipation)
  <2>1. {"addParticipant"} \subseteq Content \cup Own
    BY DEF Content
  <2>2. SoundWays({"addParticipant"}, Naming(TaskWay("TASK_ASSIGN")))
    BY <2>1, AskedSound, OldWays, Names DEF TaskWay
  <2>3. {"getParticipants"} \subseteq Content \cup Own
    BY DEF Content
  <2>4. SoundWays({"getParticipants"}, TaskWay("TASK_VIEW"))
    BY <2>3, AskedSound, OldWays, Names DEF TaskWay
  <2>5. {"getComments", "addComment"} \subseteq Content \cup Own
    BY DEF Content
  <2>6. SoundWays({"getComments", "addComment"}, TaskWay("TASK_COMMENT"))
    BY <2>5, AskedSound, OldWays, Names DEF TaskWay
  <2> QED
    BY <2>2, <2>4, <2>6, SoundUnion DEF TaskParticipation, SoundWays
<1>5. AllSound(TaskResults)
  <2>1. {"submitResult"} \subseteq Content \cup Own
    BY DEF Content
  <2>2. SoundWays({"submitResult"}, TaskWay("TASK_SUBMIT"))
    BY <2>1, AskedSound, OldWays, Names DEF TaskWay
  <2>3. {"reviewSubmission"} \subseteq Content \cup Own
    BY DEF Content
  <2>4. SoundWays({"reviewSubmission"}, TaskWay("TASK_REVIEW"))
    BY <2>3, AskedSound, OldWays, Names DEF TaskWay
  <2>5. {"getSubmissions", "getSubmission", "getActivity"} \subseteq Content \cup Own
    BY DEF Content
  <2>6. SoundWays({"getSubmissions", "getSubmission", "getActivity"}, TaskWay("TASK_VIEW"))
    BY <2>5, AskedSound, OldWays, Names DEF TaskWay
  <2> QED
    BY <2>2, <2>4, <2>6, SoundUnion DEF TaskResults, SoundWays
<1>6. AllSound(TaskDocumentRoutes)
  <2>1. {"attach", "addGrant", "listTaskGrants", "updateGrant", "revokeTaskGrant", "detach"}
        \subseteq Content \cup Own
    BY DEF Content
  <2>2. SoundWays({"attach", "addGrant", "listTaskGrants", "updateGrant", "revokeTaskGrant",
                   "detach"},
                  If(ByAnyone, {"mine", "participant"}))
    BY <2>1, PartakingSound, Names
  <2>3. {"attach", "addGrant", "listTaskGrants", "updateGrant", "revokeTaskGrant"}
        \subseteq Content \cup Own
    BY DEF Content
  <2>4. SoundWays({"attach", "addGrant", "listTaskGrants", "updateGrant", "revokeTaskGrant"},
                  Asking(If(ByAnyone, {"participant"}), "DOCUMENT", "SHARE"))
    BY <2>3, AskedSound, OldWays, Names
  <2>5. {"detach"} \subseteq Content \cup Own
    BY DEF Content
  <2>6. SoundWays({"detach"}, Asking(If(ByAnyone, {"participant"}), "DOCUMENT", "DISPOSE"))
    BY <2>5, AskedSound, OldWays, Names
  <2>7. {"listTaskDocuments"} \subseteq Content \cup Own
    BY DEF Content
  <2>8. SoundWays({"listTaskDocuments"}, If(ByAnyone, {"participant"}))
    BY <2>7, PartakingSound, Names
  <2> QED
    BY <2>2, <2>4, <2>6, <2>8, SoundUnion DEF TaskDocumentRoutes, SoundWays
<1> QED
  BY <1>1, <1>2, <1>3, <1>4, <1>5, <1>6

(* What is one's own is for either role.                                   *)
LEMMA OwnOrAdminSound ==
  ASSUME NEW ops, ops \subseteq Own
  PROVE  AllSound(OwnOrAdmin(ops))
<1>1. SoundWays(ops, If(ByEmployees, {"mine"}))
  BY EmployeesSound, Names
<1>2. SoundWays(ops, Through(Role, Administrators))
  BY AdminsSound
<1> QED
  BY <1>1, <1>2, SoundUnion DEF OwnOrAdmin, SoundWays

(* Grants are decided on by services, made by administrators.              *)
LEMMA GrantWays ==
  /\ AllSound(Decisions) /\ AllSound(TaskDocumentGrants) /\ AllSound(GrantOperations)
<1>1. AllSound(Decisions)
  <2>1. SoundWays({"checkPermission"}, ByServices)
    BY InternalSound, Names
  <2>2. SoundWays({"createTaskDocumentGrant"}, Through(Internal, Employees))
    BY InternalSound, Names
  <2> QED
    BY <2>1, <2>2, SoundUnion DEF Decisions, SoundWays
<1>2. AllSound(TaskDocumentGrants)
  <2>1. SoundWays({"revokeTaskDocumentGrants"}, ByServices)
    BY InternalSound, Names
  <2>2. SoundWays({"listTaskDocumentGrants", "updateTaskDocumentGrant", "revokeTaskDocumentGrant"},
                  Through(Internal, Employees))
    BY InternalSound, Names
  <2> QED
    BY <2>1, <2>2, SoundUnion DEF TaskDocumentGrants, SoundWays
<1>3. AllSound(GrantOperations)
  <2>1. {"createGrant"} \subseteq Managed \cup Own
    BY DEF Managed, Control, AboutUsers
  <2>2. SoundWays({"createGrant"}, Through(Role, Administrators))
    BY <2>1, AdminsSound
  <2>3. {"listGrants", "getGrant", "delegateGrant", "revokeGrant"} \subseteq Own
    BY DEF Own
  <2>4. AllSound(OwnOrAdmin({"listGrants", "getGrant", "delegateGrant", "revokeGrant"}))
    BY <2>3, OwnOrAdminSound
  <2> QED
    BY <2>2, <2>4, SoundUnion DEF GrantOperations, SoundWays
<1> QED
  BY <1>1, <1>2, <1>3

(* Accounts and the directory are administrators' business.                *)
LEMMA AccountWays ==
  /\ AllSound(AccountOperations) /\ AllSound(UserReading) /\ AllSound(UserOperations)
<1>1. AllSound(AccountOperations)
  <2>1. {"registerAdmin"} \subseteq Managed \cup Own
    BY DEF Managed, Control, AboutUsers
  <2>2. SoundWays({"registerAdmin"}, ByAdmins)
    BY <2>1, AdminsSound
  <2>3. SoundWays({"revokeAllSessions"}, ByServices)
    BY InternalSound, Names
  <2> QED
    BY <2>2, <2>3, SoundUnion DEF AccountOperations, SoundWays
<1>2. AllSound(UserReading)
  <2>1. {"memberDirectory"} \subseteq Own
    BY DEF Own
  <2>2. SoundWays({"memberDirectory"}, ByAnyone)
    BY <2>1, OwnSound, RolesAre, Names DEF ByAnyone
  <2>3. SoundWays({"getUserStatistics"}, ByServices)
    BY InternalSound, Names
  <2>4. {"listUsers", "getInternalAdmins", "getInternalUser"} \subseteq Managed \cup Own
    BY DEF Managed, Control, AboutUsers
  <2>5. SoundWays({"listUsers", "getInternalAdmins", "getInternalUser"}, Ungated)
    BY <2>4, AdminsSound
  <2> QED
    BY <2>2, <2>3, <2>5, SoundUnion DEF UserReading, SoundWays
<1>3. AllSound(UserOperations)
  <2>1. {"getUser", "createUser", "lockUser", "unlockUser", "grantCapability", "revokeCapability"}
        \subseteq Managed \cup Own
    BY DEF Managed, Control, AboutUsers
  <2>2. SoundWays({"getUser", "createUser", "lockUser", "unlockUser", "grantCapability",
                   "revokeCapability"},
                  Ungated)
    BY <2>1, AdminsSound
  <2> QED
    BY <2>2 DEF UserOperations, SoundWays
<1> QED
  BY <1>1, <1>2, <1>3

(* So are alerts, the audit trail and the notifications of others.         *)
LEMMA OversightWays ==
  /\ AllSound(AlertReading) /\ AllSound(AlertOperations) /\ AllSound(AuditOperations)
  /\ AllSound(InboxOperations)
<1>1. AllSound(AlertReading)
  <2>1. SoundWays({"getMonitoringStatistics", "recordEvent"}, ByServices)
    BY InternalSound, Names
  <2>2. {"listAlerts", "getAlert"} \subseteq Managed \cup Own
    BY DEF Managed, Control, AboutUsers
  <2>3. SoundWays({"listAlerts", "getAlert"}, ByAdmins)
    BY <2>2, AdminsSound
  <2> QED
    BY <2>1, <2>3, SoundUnion DEF AlertReading, SoundWays
<1>2. AllSound(AlertOperations)
  <2>1. {"resolveAlert", "createRule", "listRules", "toggleRule", "setRuleEmail", "deleteRule"}
        \subseteq Managed \cup Own
    BY DEF Managed, Control, AboutUsers
  <2>2. SoundWays({"resolveAlert", "createRule", "listRules", "toggleRule", "setRuleEmail",
                   "deleteRule"},
                  ByAdmins)
    BY <2>1, AdminsSound
  <2> QED
    BY <2>2 DEF AlertOperations, SoundWays
<1>3. AllSound(AuditOperations)
  <2>1. SoundWays({"appendEvent"}, ByServices)
    BY InternalSound, Names
  <2>2. {"listEvents"} \subseteq Own
    BY DEF Own
  <2>3. SoundWays({"listEvents"}, If(Through(Employees, Role), {"mine"}))
    BY <2>2, OwnSound, RolesAre, Names
  <2>4. {"listEvents", "getEvent", "getChainHead", "verifyChain"} \subseteq Managed \cup Own
    BY DEF Own, Managed, Control
  <2>5. SoundWays({"listEvents", "getEvent", "getChainHead", "verifyChain"}, Ungated)
    BY <2>4, AdminsSound
  <2> QED
    BY <2>1, <2>3, <2>5, SoundUnion DEF AuditOperations, SoundWays
<1>4. AllSound(InboxOperations)
  <2>1. {"createNotification"} \subseteq Managed \cup Own
    BY DEF Managed, Control, AboutUsers
  <2>2. SoundWays({"createNotification"}, ByAdmins)
    BY <2>1, AdminsSound
  <2>3. {"getNotification", "listNotifications", "markAsRead", "markAllAsRead",
         "getPreferences", "updatePreferences"}
        \subseteq Own
    BY DEF Own
  <2>4. AllSound(OwnOrAdmin({"getNotification", "listNotifications", "markAsRead",
                             "markAllAsRead", "getPreferences", "updatePreferences"}))
    BY <2>3, OwnOrAdminSound
  <2> QED
    BY <2>2, <2>4, SoundUnion DEF InboxOperations, SoundWays
<1> QED
  BY <1>1, <1>2, <1>3, <1>4

(* Files are for services.                                                 *)
LEMMA SecurityWays ==
  /\ AllSound(SecurityOperations) /\ AllSound(PreviewOperations)
<1>1. AllSound(SecurityOperations)
  <2>1. SoundWays({"processUpload", "processDocument", "updateScan", "signDocument",
                   "getEncryptionRecord", "getPlaintext"},
                  ByServices)
    BY InternalSound, Names
  <2> QED
    BY <2>1 DEF SecurityOperations, SoundWays
<1>2. AllSound(PreviewOperations)
  <2>1. SoundWays({"preparePreview", "extendPreview", "getPreviewPage", "revokePreview",
                   "listEncryptionRecords", "getActiveKek", "rotateKek"},
                  ByServices)
    BY InternalSound, Names
  <2> QED
    BY <2>1 DEF PreviewOperations, SoundWays
<1> QED
  BY <1>1, <1>2

(* All of them.                                                            *)
LEMMA OperationsSound == AllSound(Operations)
  BY DocumentWays, VersionWays, RecordWays, TaskWays, GrantWays, AccountWays, OversightWays, SecurityWays
     DEF AllSound, Operations

(* The same for what Authority keeps of an operation.                      *)
LEMMA RequestsSound ==
  ASSUME NEW r \in Requests
  PROVE  /\ r.way \in Way
         /\ r.of \in {"content", "control", "internal", "own"}
         /\ r.of = "content" => ContentSafe(r.way)
         /\ r.of = "control" => ControlSafe(r.way)
         /\ r.way.action = "TASK_CREATE" => r.way.on # Anything
<1>1. PICK o \in Operations : r = [of |-> Kind(o.op), way |-> o.way]
  BY DEF Requests
<1>2. r.of = Kind(o.op) /\ r.way = o.way
  BY <1>1
<1>3. Sound(o.op, o.way)
  BY OperationsSound DEF AllSound
<1>4. /\ Kind(o.op) \in {"content", "control", "internal", "own"}
      /\ Kind(o.op) = "content" => o.op \in Content
      /\ Kind(o.op) = "control" => o.op \in Managed
  BY DEF Kind, Managed
<1> QED
  BY <1>2, <1>3, <1>4 DEF Sound
-----------------------------------------------------------------------------
(* Types.                                                                  *)
Stage == {"none", "admitted", "asking", "allowed", "ready", "done"}

Asked ==
  [stage : Stage, of : {"content", "control", "internal", "own"}, way : Way, mine : BOOLEAN, named : User,
   capabilities : SUBSET Capability, age : 0 .. HandlingTime]

Typed ==
  /\ caller \in User
  /\ since \in [Capability -> Ages] /\ lapsed \in Ages
  /\ lookup \in [reading : BOOLEAN, capabilities : SUBSET Capability, age : 0 .. LookupTime]
  /\ tokens \subseteq [capabilities : SUBSET Capability, age : 0 .. Ttl - 1]
  /\ participants \subseteq User
  /\ asked \in Asked

(* Ages are numbers, and grow by one at most.                              *)
LEMMA AgesAre ==
  /\ Long \in Nat /\ 0 \in Ages /\ 1 \in Ages /\ Long \in Ages
  /\ \A age \in Ages : age \in Nat /\ Later(age) \in Ages /\ Later(age) <= age + 1
  /\ LookupTime \in Nat /\ HandlingTime \in Nat /\ Ttl \in Nat /\ Ttl >= 1
  BY AuthorityAssumption DEF Long, Ages, Later

(* Between two requests.                                                   *)
LEMMA NothingAskedIs ==
  ASSUME caller \in User
  PROVE  /\ NothingAsked \in Asked
         /\ NothingAsked.stage = "none" /\ NothingAsked.capabilities = {}
  BY ByAnyoneIs, AgesAre DEF NothingAsked, Asked, Stage

(* Between two lookups.                                                    *)
LEMMA NoLookupIs ==
  /\ NoLookup \in [reading : BOOLEAN, capabilities : SUBSET Capability, age : 0 .. LookupTime]
  /\ NoLookup.capabilities = {}
  BY AgesAre DEF NoLookup

(* What stays as it was while a request goes from stage to stage.          *)
LEMMA GoIs ==
  ASSUME Typed, NEW stage \in Stage, Go(stage)
  PROVE  /\ asked' \in Asked /\ asked'.stage = stage
         /\ asked'.of = asked.of /\ asked'.way = asked.way /\ asked'.mine = asked.mine
         /\ asked'.named = asked.named /\ asked'.capabilities = asked.capabilities
         /\ asked'.age = asked.age
  BY DEF Typed, Go, Asked

(* What a request is when it arrives.                                      *)
LEMMA ArriveIs ==
  ASSUME Typed, Arrive
  PROVE  /\ asked' \in Asked /\ asked'.stage = "admitted" /\ asked'.age = 0
         /\ \E t \in tokens : asked'.capabilities = t.capabilities
         /\ asked'.of = "control" /\ RoleOf(caller) \in asked'.way.handler => caller \in Admin
         /\ asked'.of = "content" /\ RoleOf(caller) \in asked'.way.handler /\ caller \in Admin
              => \/ asked'.way.on # Anything /\ asked'.way.action \in AdminForbidden
                 \/ "participant" \in asked'.way.relation
         /\ asked'.way.action = "TASK_CREATE" => asked'.way.on # Anything
<1>1. PICK r \in Requests, t \in tokens, mine \in BOOLEAN, named \in User :
        /\ RoleOf(caller) \in r.way.gateway
        /\ asked' = [stage |-> "admitted", of |-> r.of, way |-> [r.way EXCEPT !.gateway = {}],
                     mine |-> mine, named |-> named, capabilities |-> t.capabilities, age |-> 0]
  BY DEF Arrive
<1> DEFINE way == [r.way EXCEPT !.gateway = {}]
<1>2. /\ way \in Way /\ way.handler = r.way.handler /\ way.on = r.way.on
      /\ way.action = r.way.action /\ way.relation = r.way.relation
  BY RequestsSound DEF Way
<1>3. t.capabilities \in SUBSET Capability
  BY DEF Typed
<1> HIDE DEF way
<1>4. asked' = [stage |-> "admitted", of |-> r.of, way |-> way,
                mine |-> mine, named |-> named, capabilities |-> t.capabilities, age |-> 0]
  BY <1>1 DEF way
<1>5. /\ asked'.stage = "admitted" /\ asked'.of = r.of /\ asked'.way = way
      /\ asked'.capabilities = t.capabilities /\ asked'.age = 0
  BY <1>4
<1>6. asked' \in Asked
  BY <1>2, <1>3, <1>4, RequestsSound, AgesAre DEF Asked, Stage
<1>7. r.of = "control" /\ RoleOf(caller) \in r.way.handler => caller \in Admin
  BY <1>1, RequestsSound DEF ControlSafe, Administrators, RoleOf
<1>8. r.of = "content" /\ RoleOf(caller) \in r.way.handler /\ caller \in Admin
        => \/ r.way.on # Anything /\ r.way.action \in AdminForbidden
           \/ "participant" \in r.way.relation
  BY <1>1, RequestsSound DEF ContentSafe, RoleOf
<1>9. r.way.action = "TASK_CREATE" => r.way.on # Anything
  BY RequestsSound
<1> QED
  BY <1>2, <1>5, <1>6, <1>7, <1>8, <1>9

(* Types hold at first.                                                    *)
LEMMA TypedInit == Init => Typed
  BY NothingAskedIs, NoLookupIs, AgesAre DEF Init, Typed

(* Types are kept by every step.                                           *)
LEMMA TypedNext == Typed /\ [Next]_authority => Typed'
<1> SUFFICES ASSUME Typed, [Next]_authority
             PROVE  Typed'
  OBVIOUS
<1> USE AgesAre
<1>1. ASSUME NEW c \in Capability, GrantCapability(c) \/ RevokeCapability(c)
      PROVE  Typed'
  BY <1>1 DEF Typed, GrantCapability, RevokeCapability
<1>2. CASE GetCapabilities
  BY <1>2 DEF Typed, GetCapabilities, Held
<1>3. CASE SignToken
  BY <1>3, NoLookupIs DEF Typed, SignToken
<1>4. CASE GrantGiven \/ GrantEnds
  BY <1>4 DEF Typed, GrantGiven, GrantEnds
<1>5. CASE Tick
  <2>1. since' \in [Capability -> Ages] /\ lapsed' \in Ages
    BY <1>5 DEF Typed, Tick
  <2>2. lookup' \in [reading : BOOLEAN, capabilities : SUBSET Capability, age : 0 .. LookupTime]
    BY <1>5 DEF Typed, Tick
  <2>3. tokens' \subseteq [capabilities : SUBSET Capability, age : 0 .. Ttl - 1]
    BY <1>5 DEF Typed, Tick, Accepted
  <2>4. asked' \in Asked
    BY <1>5 DEF Typed, Tick, Asked
  <2> QED
    BY <1>5, <2>1, <2>2, <2>3, <2>4 DEF Typed, Tick
<1>6. CASE Arrive
  BY <1>6, ArriveIs DEF Typed, Arrive
<1>7. CASE Handle \/ Check \/ AssertEmployee
  <2>1. PICK stage \in Stage : Go(stage)
    BY <1>7 DEF Handle, Check, AssertEmployee, Stage
  <2> QED
    BY <1>7, <2>1, GoIs DEF Typed, Handle, Check, AssertEmployee
<1>8. CASE CarryOut
  <2>1. asked' \in Asked
    BY <1>8, GoIs DEF CarryOut, Stage
  <2>2. participants' \subseteq User
    BY <1>8 DEF Typed, CarryOut, Asked
  <2> QED
    BY <1>8, <2>1, <2>2 DEF Typed, CarryOut
<1>9. CASE Answer
  BY <1>9, NothingAskedIs DEF Typed, Answer
<1>10. CASE UNCHANGED authority
  BY <1>10 DEF Typed, authority
<1> QED
  BY <1>1, <1>2, <1>3, <1>4, <1>5, <1>6, <1>7, <1>8, <1>9, <1>10 DEF Next
-----------------------------------------------------------------------------
(* What a copy of the capabilities says was so lately: the lookup's since  *)
(* it began, a token's since the lookup before it, and a request's since   *)
(* the token it came with was signed.                                      *)
CopiesFresh ==
  /\ ~lookup.reading => lookup.capabilities = {}
  /\ asked.stage = "none" => asked.capabilities = {}
  /\ \A c \in lookup.capabilities : since[c] <= 1 + lookup.age
  /\ \A t \in tokens : \A c \in t.capabilities : since[c] <= 1 + LookupTime + t.age
  /\ \A c \in asked.capabilities : since[c] <= Ttl + LookupTime + asked.age

(* Nothing has been copied at first.                                       *)
LEMMA CopiesFreshInit == Init => CopiesFresh
  BY NoLookupIs, NothingAskedIs DEF Init, CopiesFresh

(* No step makes a copy last longer.                                       *)
LEMMA CopiesFreshNext == Typed /\ CopiesFresh /\ [Next]_authority => CopiesFresh'
<1> SUFFICES ASSUME Typed, CopiesFresh, [Next]_authority
             PROVE  CopiesFresh'
  OBVIOUS
<1> USE AgesAre
<1>0. /\ since \in [Capability -> Nat] /\ lookup.age \in Nat /\ lookup.age <= LookupTime
      /\ lookup.capabilities \subseteq Capability
      /\ \A t \in tokens : t.age \in Nat /\ t.age <= Ttl - 1 /\ t.capabilities \subseteq Capability
      /\ asked.capabilities \subseteq Capability /\ asked.age \in Nat
  <2>1. since \in [Capability -> Nat]
    BY DEF Typed
  <2>2. lookup.age \in Nat /\ lookup.age <= LookupTime /\ lookup.capabilities \subseteq Capability
    BY DEF Typed
  <2>3. \A t \in tokens : t.age \in Nat /\ t.age <= Ttl - 1 /\ t.capabilities \subseteq Capability
    BY DEF Typed
  <2>4. asked.capabilities \subseteq Capability /\ asked.age \in Nat
    BY DEF Typed, Asked
  <2> QED
    BY <2>1, <2>2, <2>3, <2>4
<1>1. ASSUME NEW c \in Capability, GrantCapability(c) \/ RevokeCapability(c)
      PROVE  CopiesFresh'
  <2>1. PICK n \in {0, 1} : since' = [since EXCEPT ![c] = n]
    BY <1>1 DEF GrantCapability, RevokeCapability
  <2>2. lookup' = lookup /\ tokens' = tokens /\ asked' = asked
    BY <1>1 DEF GrantCapability, RevokeCapability
  <2>3. \A d \in Capability : since'[d] = since[d] \/ since'[d] \in {0, 1}
    BY <1>0, <2>1
  <2>4. \A d \in lookup'.capabilities : since'[d] <= 1 + lookup'.age
    BY <1>0, <2>2, <2>3 DEF CopiesFresh
  <2>5. \A t \in tokens' : \A d \in t.capabilities : since'[d] <= 1 + LookupTime + t.age
    BY <1>0, <2>2, <2>3 DEF CopiesFresh
  <2>6. \A d \in asked'.capabilities : since'[d] <= Ttl + LookupTime + asked'.age
    BY <1>0, <2>2, <2>3 DEF CopiesFresh
  <2> QED
    BY <2>2, <2>4, <2>5, <2>6 DEF CopiesFresh
<1>2. CASE GetCapabilities
  BY <1>2 DEF Typed, CopiesFresh, GetCapabilities, Held
<1>3. CASE SignToken
  <2>1. /\ tokens' = tokens \cup {[capabilities |-> lookup.capabilities, age |-> 0]}
        /\ lookup' = NoLookup /\ since' = since /\ asked' = asked
    BY <1>3 DEF SignToken
  <2>2. \A c \in lookup.capabilities : since[c] <= 1 + LookupTime
    BY <1>0 DEF CopiesFresh
  <2>3. \A t \in tokens' : \A c \in t.capabilities : since'[c] <= 1 + LookupTime + t.age
    BY <2>1, <2>2 DEF CopiesFresh
  <2> QED
    BY <2>1, <2>3, NoLookupIs DEF CopiesFresh
<1>4. CASE GrantGiven \/ GrantEnds
  BY <1>4 DEF CopiesFresh, GrantGiven, GrantEnds
<1>5. CASE Tick
  <2>1. \A c \in Capability : since'[c] \in Nat /\ since'[c] <= since[c] + 1
    BY <1>5 DEF Typed, Tick
  <2>2. \A c \in lookup'.capabilities : since'[c] <= 1 + lookup'.age
    <3>1. CASE lookup.reading
      <4>1. lookup'.capabilities = lookup.capabilities /\ lookup'.age = lookup.age + 1
        BY <1>5, <3>1 DEF Typed, Tick
      <4> QED
        BY <1>0, <2>1, <4>1 DEF CopiesFresh
    <3>2. CASE ~lookup.reading
      BY <1>5, <3>2 DEF Tick, CopiesFresh
    <3> QED
      BY <3>1, <3>2
  <2>3. \A t \in tokens' : \A c \in t.capabilities : since'[c] <= 1 + LookupTime + t.age
    <3>1. \A t \in tokens' : \E u \in tokens : t.capabilities = u.capabilities /\ t.age = u.age + 1
      BY <1>5 DEF Typed, Tick
    <3> QED
      BY <1>0, <2>1, <3>1 DEF CopiesFresh
  <2>4. \A c \in asked'.capabilities : since'[c] <= Ttl + LookupTime + asked'.age
    BY <1>0, <1>5, <2>1 DEF Typed, Tick, CopiesFresh, Asked
  <2>5. /\ ~lookup'.reading => lookup'.capabilities = {}
        /\ asked'.stage = "none" => asked'.capabilities = {}
    BY <1>5 DEF Typed, Tick, CopiesFresh, Asked
  <2> QED
    BY <2>2, <2>3, <2>4, <2>5 DEF CopiesFresh
<1>6. CASE Arrive
  <2>1. since' = since /\ lookup' = lookup /\ tokens' = tokens
    BY <1>6 DEF Arrive
  <2>2. asked'.stage = "admitted" /\ asked'.age = 0
    BY <1>6, ArriveIs
  <2>3. PICK t \in tokens : asked'.capabilities = t.capabilities
    BY <1>6, ArriveIs
  <2>4. \A c \in asked'.capabilities : since'[c] <= Ttl + LookupTime + asked'.age
    BY <1>0, <2>1, <2>2, <2>3 DEF CopiesFresh
  <2> QED
    BY <2>1, <2>2, <2>4 DEF CopiesFresh
<1>7. CASE Handle \/ Check \/ AssertEmployee \/ CarryOut
  <2>1. PICK stage \in Stage : Go(stage)
    BY <1>7 DEF Handle, Check, AssertEmployee, CarryOut, Stage
  <2>2. since' = since /\ lookup' = lookup /\ tokens' = tokens
    BY <1>7 DEF Handle, Check, AssertEmployee, CarryOut
  <2>3. /\ asked'.capabilities = asked.capabilities /\ asked'.age = asked.age
        /\ asked.stage # "none"
    BY <1>7, <2>1, GoIs DEF Handle, Check, AssertEmployee, CarryOut
  <2>4. asked'.stage # "none"
    BY <1>7, GoIs DEF Handle, Check, AssertEmployee, CarryOut, Stage
  <2> QED
    BY <2>2, <2>3, <2>4 DEF CopiesFresh
<1>8. CASE Answer
  BY <1>8, NothingAskedIs DEF Typed, CopiesFresh, Answer
<1>9. CASE UNCHANGED authority
  BY <1>9 DEF CopiesFresh, authority
<1> QED
  BY <1>1, <1>2, <1>3, <1>4, <1>5, <1>6, <1>7, <1>8, <1>9 DEF Next
-----------------------------------------------------------------------------
(* What every layer has seen to when a request has come so far.            *)
NeedsGrant ==
  /\ asked.way.on # Anything /\ asked.way.on # "TASK"
  /\ ~(asked.way.on = "DOCUMENT" /\ asked.mine)

Admitted ==
  /\ asked.of = "control" /\ RoleOf(caller) \in asked.way.handler => caller \in Admin
  /\ asked.of = "content" /\ RoleOf(caller) \in asked.way.handler /\ caller \in Admin
       => \/ asked.way.on # Anything /\ asked.way.action \in AdminForbidden
          \/ "participant" \in asked.way.relation
  /\ asked.way.action = "TASK_CREATE" => asked.way.on # Anything

Handled ==
  /\ RoleOf(caller) \in asked.way.handler
  /\ asked.way.capability \in asked.capabilities \cup {Anything}

Permitted ==
  /\ asked.way.on # Anything => ~(caller \in Admin /\ asked.way.action \in AdminForbidden)
  /\ NeedsGrant => lapsed <= asked.age + 1

LayersPassed ==
  /\ asked.stage # "none" => Admitted
  /\ asked.stage \in Stage \ {"none", "admitted"} => Handled
  /\ asked.stage \in {"allowed", "ready", "done"} => Permitted
  /\ asked.stage = "ready" => asked.named \notin Admin
  /\ asked.stage = "done" /\ "participant" \in asked.way.relation => caller \in participants
  /\ participants \cap Admin = {}

(* There is no request at first.                                           *)
LEMMA LayersPassedInit == Init => LayersPassed
  BY NothingAskedIs DEF Init, LayersPassed

(* What does not concern the request leaves it as far as it is.            *)
LEMMA LayersKept ==
  ASSUME Typed, LayersPassed, caller' = caller, asked' = asked, participants' = participants,
         lapsed' <= lapsed \/ lapsed' <= 1, lapsed' \in Nat
  PROVE  LayersPassed'
<1>1. NeedsGrant' = NeedsGrant
  BY DEF NeedsGrant
<1>2. asked.age \in Nat /\ lapsed \in Nat
  BY AgesAre DEF Typed, Asked
<1>3. lapsed <= asked.age + 1 => lapsed' <= asked'.age + 1
  BY <1>2
<1>4. Permitted => Permitted'
  BY <1>1, <1>3 DEF Permitted
<1>5. (Admitted => Admitted') /\ (Handled => Handled')
  BY DEF Admitted, Handled, RoleOf
<1> QED
  BY <1>4, <1>5 DEF LayersPassed

(* The same for a request that goes to its next stage.                     *)
LEMMA LayersCarried ==
  ASSUME Typed, NEW stage \in Stage, Go(stage), caller' = caller, lapsed' = lapsed
  PROVE  (Admitted => Admitted') /\ (Handled => Handled') /\ (Permitted => Permitted')
<1>1. /\ asked'.of = asked.of /\ asked'.way = asked.way /\ asked'.mine = asked.mine
      /\ asked'.capabilities = asked.capabilities /\ asked'.age = asked.age
  BY GoIs
<1>2. NeedsGrant' = NeedsGrant
  BY <1>1 DEF NeedsGrant
<1> QED
  BY <1>1, <1>2 DEF Admitted, Handled, Permitted, RoleOf

(* No step lets a request past a layer.                                    *)
LEMMA LayersPassedNext == Typed /\ LayersPassed /\ [Next]_authority => LayersPassed'
<1> SUFFICES ASSUME Typed, LayersPassed, [Next]_authority
             PROVE  LayersPassed'
  OBVIOUS
<1> USE AgesAre
<1>0. lapsed \in Nat
  BY DEF Typed
<1>1. ASSUME NEW c \in Capability, GrantCapability(c) \/ RevokeCapability(c)
      PROVE  LayersPassed'
  BY <1>0, <1>1, LayersKept DEF GrantCapability, RevokeCapability
<1>2. CASE GetCapabilities \/ SignToken
  BY <1>0, <1>2, LayersKept DEF GetCapabilities, SignToken
<1>3. CASE GrantGiven \/ GrantEnds
  BY <1>0, <1>3, LayersKept DEF GrantGiven, GrantEnds
<1>4. CASE Tick
  <2>1. /\ lapsed' \in Nat /\ lapsed' <= lapsed + 1
        /\ caller' = caller /\ participants' = participants
    BY <1>4 DEF Typed, Tick
  <2>2. CASE asked.stage = "none"
    BY <1>4, <2>1, <2>2 DEF LayersPassed, Tick
  <2>3. CASE asked.stage # "none"
    <3>1. asked' = [asked EXCEPT !.age = @ + 1]
      BY <1>4, <2>3 DEF Tick
    <3>2. /\ asked'.stage = asked.stage /\ asked'.of = asked.of /\ asked'.way = asked.way
          /\ asked'.mine = asked.mine /\ asked'.named = asked.named
          /\ asked'.capabilities = asked.capabilities
      BY <3>1 DEF Typed, Asked
    <3>3. asked.age \in Nat /\ asked'.age = asked.age + 1
      BY <3>1 DEF Typed, Asked
    <3>4. (Admitted => Admitted') /\ (Handled => Handled')
      BY <2>1, <3>2 DEF Admitted, Handled, RoleOf
    <3>5. Permitted => Permitted'
      <4>1. NeedsGrant' = NeedsGrant
        BY <3>2 DEF NeedsGrant
      <4>2. lapsed <= asked.age + 1 => lapsed' <= asked'.age + 1
        BY <1>0, <2>1, <3>3
      <4> QED
        BY <2>1, <3>2, <4>1, <4>2 DEF Permitted
    <3> QED
      BY <2>1, <3>2, <3>4, <3>5 DEF LayersPassed
  <2> QED
    BY <2>2, <2>3
<1>5. CASE Arrive
  <2>1. asked'.stage = "admitted" /\ Admitted'
    BY <1>5, ArriveIs DEF Admitted, Arrive, RoleOf
  <2> QED
    BY <1>5, <2>1 DEF LayersPassed, Arrive
<1>6. CASE Handle
  <2>1. PICK stage \in {"asking", "allowed"} :
          Go(stage) /\ (stage = "allowed" => asked.way.on = Anything)
    BY <1>6 DEF Handle
  <2>2. asked'.stage = stage /\ asked'.way = asked.way /\ asked'.named = asked.named
    BY <2>1, GoIs DEF Stage
  <2>3. Admitted /\ Handled
    BY <1>6 DEF LayersPassed, Handle, HandlerAdmits, Handled
  <2>4. stage = "allowed" => Permitted
    BY <2>1 DEF Permitted, NeedsGrant
  <2>5. Admitted' /\ Handled' /\ (stage = "allowed" => Permitted')
    BY <1>6, <2>1, <2>3, <2>4, LayersCarried DEF Handle, Stage
  <2> QED
    BY <1>6, <2>2, <2>5 DEF LayersPassed, Handle
<1>7. CASE Check
  <2>1. /\ Go("allowed") /\ asked.stage = "asking"
        /\ participants' = participants /\ caller' = caller /\ lapsed' = lapsed
    BY <1>7 DEF Check
  <2>2. Admitted /\ Handled
    BY <2>1 DEF LayersPassed, Stage
  <2>3. Permitted
    BY <1>7 DEF Check, Allowed, Permitted, NeedsGrant, Typed, Asked
  <2>4. asked'.stage = "allowed" /\ Admitted' /\ Handled' /\ Permitted'
    BY <2>1, <2>2, <2>3, GoIs, LayersCarried DEF Stage
  <2> QED
    BY <2>1, <2>4 DEF LayersPassed
<1>8. CASE AssertEmployee
  <2>1. /\ Go("ready") /\ asked.stage = "allowed" /\ asked.named \notin Admin
        /\ participants' = participants /\ caller' = caller /\ lapsed' = lapsed
    BY <1>8 DEF AssertEmployee
  <2>2. Admitted /\ Handled /\ Permitted
    BY <2>1 DEF LayersPassed, Stage
  <2>3. /\ asked'.stage = "ready" /\ asked'.named = asked.named
        /\ Admitted' /\ Handled' /\ Permitted'
    BY <2>1, <2>2, GoIs, LayersCarried DEF Stage
  <2> QED
    BY <2>1, <2>3 DEF LayersPassed
<1>9. CASE CarryOut
  <2>1. /\ Go("done") /\ asked.stage = IF asked.way.names THEN "ready" ELSE "allowed"
        /\ "participant" \in asked.way.relation => caller \in participants
        /\ caller' = caller /\ lapsed' = lapsed
        /\ participants' = participants \cup (IF asked.way.names THEN {asked.named} ELSE {})
                             \cup (IF asked.way.action = "TASK_CREATE" THEN {caller} ELSE {})
    BY <1>9 DEF CarryOut
  <2>2. Admitted /\ Handled /\ Permitted
    BY <2>1 DEF LayersPassed, Stage
  <2>3. asked'.stage = "done" /\ asked'.way = asked.way /\ Admitted' /\ Handled' /\ Permitted'
    BY <2>1, <2>2, GoIs, LayersCarried DEF Stage
  <2>4. asked.way.names => asked.named \notin Admin
    BY <2>1 DEF LayersPassed
  <2>5. asked.way.action = "TASK_CREATE" => caller \notin Admin
    BY <2>2, Names DEF Admitted, Permitted
  <2>6. participants' \cap Admin = {}
    BY <2>1, <2>4, <2>5 DEF LayersPassed
  <2> QED
    BY <2>1, <2>3, <2>6 DEF LayersPassed
<1>10. CASE Answer
  BY <1>10, NothingAskedIs DEF LayersPassed, Answer, Typed
<1>11. CASE UNCHANGED authority
  BY <1>0, <1>11, LayersKept DEF authority
<1> QED
  BY <1>1, <1>2, <1>3, <1>4, <1>5, <1>6, <1>7, <1>8, <1>9, <1>10, <1>11 DEF Next
-----------------------------------------------------------------------------
Inv == Typed /\ CopiesFresh /\ LayersPassed

(* The three together are inductive.                                       *)
LEMMA InvHolds == Spec => []Inv
<1>1. Init => Inv
  BY TypedInit, CopiesFreshInit, LayersPassedInit DEF Inv
<1>2. Inv /\ [Next]_authority => Inv'
  BY TypedNext, CopiesFreshNext, LayersPassedNext DEF Inv
<1> QED
  BY <1>1, <1>2, PTL DEF Spec

(* A capability, a grant and the roles: what ActsWithAuthority asks for is *)
(* what the layers have seen to, one after the other.                      *)
LEMMA InvSuffices == Inv => ActsWithAuthority
<1> SUFFICES ASSUME Inv
             PROVE  ActsWithAuthority
  OBVIOUS
<1> USE DEF Inv
<1>1. asked.stage = "done" => Admitted /\ Handled /\ Permitted
  BY DEF LayersPassed, Stage
<1>2. CapabilityFresh
  BY <1>1 DEF CapabilityFresh, Handled, CopiesFresh
<1>3. GrantFresh
  BY <1>1 DEF GrantFresh, Permitted, NeedsGrant
<1>4. RolesApart
  <2>1. participants \cap Admin = {}
    BY DEF LayersPassed
  <2>2. asked.stage = "done" /\ asked.of = "content" => caller \notin Admin
    BY <1>1, <2>1 DEF LayersPassed, Admitted, Handled, Permitted
  <2>3. asked.stage = "done" /\ asked.of = "control" => caller \in Admin
    BY <1>1 DEF Admitted, Handled
  <2> QED
    BY <2>1, <2>2, <2>3 DEF RolesApart
<1> QED
  BY <1>2, <1>3, <1>4 DEF ActsWithAuthority

(* Every request carried out - any of the operations of the table, in any  *)
(* of its ways - had its authority: a capability the directory had lately, *)
(* a grant in force since the request arrived, and the role for it.        *)
THEOREM RequestsHaveAuthority == Spec => []ActsWithAuthority
  BY InvHolds, InvSuffices, PTL
-----------------------------------------------------------------------------
(* Notifications.  Besides the types: only what has arrived is consumed; a *)
(* channel that is off was disabled once; a handler that is about to mail  *)
(* is the only one to, and nobody has; and a handler that acknowledges has *)
(* nothing left to do.                                                     *)
AtTask(q) ==
  /\ q.pc \in {"look", "insert"} =>
       \E m \in Message : q.on = {m} /\ N!Recorded(m) /\ message[m] # N!NoMessage
  /\ q.pc = "mail" =>
       \E m \in Message : q.on = {m} /\ m \in consumed /\ N!SendsMail(message[m]) /\ mailed[m] = 0
  /\ q.pc = "ack" => \A m \in q.on : m \in consumed \/ ~N!Recorded(m)

OneMails ==
  \A v, w \in Worker :
    worker[v].pc = "mail" /\ worker[w].pc = "mail" /\ worker[v].on = worker[w].on => v = w

OffWasDisabled ==
  \A u \in Reader : \A c \in N!Channel : c \notin preference[u].on => <<u, c>> \in disabled

OnePerRow ==
  \A m \in Message : \A r \in {m} \X Reader \X N!Channel :
    /\ inbox[r] \in {0, 1}
    /\ inbox[r] = 1 => m \in consumed /\ r \in N!Rows(m)
    /\ m \in consumed /\ r \in N!Rows(m) /\ <<r[2], r[3]>> \notin disabled => inbox[r] = 1

OneMail ==
  \A m \in Message :
    mailed[m] \in {0, 1} /\ (mailed[m] = 1 => m \in consumed /\ N!SendsMail(message[m]))

Settled ==
  /\ \A m \in consumed : message[m] # N!NoMessage
  /\ \A m \in acked : m \in consumed \/ ~N!Recorded(m)
  /\ \A r \in seen : inbox[r] > 0

InboxInv ==
  /\ N!TypeOK
  /\ \A w \in Worker : AtTask(worker[w])
  /\ OneMails /\ OffWasDisabled /\ OnePerRow /\ OneMail /\ Settled

(* Only readers are told, over channels there are.                         *)
LEMMA PeopleAreReaders ==
  ASSUME NEW e \in N!Event \cup {N!NoMessage}
  PROVE  N!People(e) \subseteq Reader /\ N!Channels(e) \subseteq N!Channel
<1>1. e.actor \in N!Person /\ e.assignee \in N!Person /\ e.reviewer \in N!Person
  <2>1. CASE e = N!NoMessage
    BY <2>1 DEF N!NoMessage, N!Person
  <2>2. CASE e \in N!Event
    BY <2>2 DEF N!Event
  <2>. QED
    BY <2>1, <2>2
<1>2. N!Person \ {N!Nobody} \subseteq Reader
  BY DEF N!Person
<1>3. N!People(e) \subseteq Reader
  <2>1. CASE e.kind = "TASK_CREATED"
    BY <1>1, <1>2, <2>1 DEF N!People
  <2>2. CASE e.kind = "TASK_SUBMITTED"
    BY <1>1, <1>2, <2>2 DEF N!People
  <2>3. CASE e.kind = "TASK_DEADLINE_REMINDER"
    BY <1>1, <1>2, <2>3 DEF N!People
  <2>4. CASE e.kind \notin {"TASK_CREATED", "TASK_SUBMITTED", "TASK_DEADLINE_REMINDER"}
    BY <1>1, <1>2, <2>4 DEF N!People
  <2>. QED
    BY <2>1, <2>2, <2>3, <2>4
<1>. QED
  BY <1>3 DEF N!Channels, N!Channel

(* What the invariant says gives what the run checks.                      *)
LEMMA InboxFollows == InboxInv => N!InboxExact
<1>. SUFFICES ASSUME InboxInv
              PROVE  N!InboxExact
  OBVIOUS
<1>. USE DEF InboxInv
<1>1. \A m \in Message : N!Rows(m) \subseteq {m} \X Reader \X N!Channel
  BY PeopleAreReaders DEF N!Rows, N!TypeOK
<1>2. ASSUME NEW m \in Message
      PROVE  /\ m \in consumed => \A r \in N!Rows(m) : <<r[2], r[3]>> \notin disabled => inbox[r] = 1
             /\ \A r \in {m} \X Reader \X N!Channel :
                  inbox[r] <= (IF m \in consumed /\ r \in N!Rows(m) THEN 1 ELSE 0)
  <2>1. m \in consumed => \A r \in N!Rows(m) : <<r[2], r[3]>> \notin disabled => inbox[r] = 1
    BY <1>1 DEF OnePerRow
  <2>2. ASSUME NEW r \in {m} \X Reader \X N!Channel
        PROVE  inbox[r] <= (IF m \in consumed /\ r \in N!Rows(m) THEN 1 ELSE 0)
    <3>1. inbox[r] \in {0, 1} /\ (inbox[r] = 1 => m \in consumed /\ r \in N!Rows(m))
      BY DEF OnePerRow
    <3>. QED
      BY <3>1
  <2>. QED
    BY <2>1, <2>2
<1>3. ASSUME NEW m \in Message
      PROVE  mailed[m] <= (IF m \in consumed /\ N!SendsMail(message[m]) THEN 1 ELSE 0)
  BY DEF OneMail
<1>. QED
  BY <1>2, <1>3 DEF Settled, N!InboxExact

(* Nothing has arrived at first.                                           *)
LEMMA InboxInit == N!Init => InboxInv
<1>. SUFFICES ASSUME N!Init
              PROVE  InboxInv
  OBVIOUS
<1>1. N!TypeOK
  BY ServicesAssumption DEF N!Init, N!TypeOK, N!Waiting
<1>2. \A w \in Worker : AtTask(worker[w])
  BY DEF N!Init, AtTask, N!Waiting
<1>3. OneMails
  BY DEF N!Init, OneMails, N!Waiting
<1>4. OnePerRow
  BY DEF N!Init, OnePerRow, N!Row
<1>5. OffWasDisabled /\ OneMail /\ Settled
  BY DEF N!Init, OffWasDisabled, OneMail, Settled
<1>. QED
  BY <1>1, <1>2, <1>3, <1>4, <1>5 DEF InboxInv

(* An event arrives: nobody has had anything to do with it.                *)
LEMMA ArriveStep ==
  ASSUME InboxInv, NEW m \in Message, N!Arrive(m)
  PROVE  InboxInv'
<1>. USE DEF InboxInv, N!Arrive
<1>1. N!TypeOK'
  BY DEF N!TypeOK
<1>2. message \in [Message -> N!Event \cup {N!NoMessage}]
  BY DEF N!TypeOK
<1>3. \A n \in Message : message[n] # N!NoMessage => message'[n] = message[n]
  BY <1>2
<1>4. m \notin consumed /\ message[m] = N!NoMessage /\ N!Recorded(m)
  BY DEF Settled, N!Recorded, N!NoMessage
<1>5. \A n \in consumed : n \in Message /\ message'[n] = message[n]
  BY <1>3 DEF Settled, N!TypeOK
<1>6. \A n \in Message : message[n] # N!NoMessage => N!Recorded(n)' = N!Recorded(n)
  BY <1>3 DEF N!Recorded
<1>7. \A n \in Message : ~N!Recorded(n) => ~N!Recorded(n)'
  BY <1>6 DEF N!Recorded, N!NoMessage
<1>8. \A w \in Worker : AtTask(worker[w])'
  <2>. SUFFICES ASSUME NEW w \in Worker
                PROVE  AtTask(worker[w])'
    OBVIOUS
  <2>1. worker[w].on \subseteq Message
    BY DEF N!TypeOK
  <2>2. CASE worker[w].pc \in {"look", "insert"}
    BY <1>3, <1>6, <2>2 DEF AtTask
  <2>3. CASE worker[w].pc = "mail"
    BY <1>5, <2>3 DEF AtTask
  <2>4. CASE worker[w].pc = "ack"
    BY <1>7, <2>1, <2>4 DEF AtTask
  <2>. QED
    BY <2>2, <2>3, <2>4 DEF AtTask
<1>9. OnePerRow'
  BY <1>5 DEF OnePerRow, N!Rows
<1>10. OneMail'
  BY <1>5 DEF OneMail
<1>11. Settled'
  BY <1>5, <1>7 DEF Settled, N!TypeOK
<1>12. OneMails' /\ OffWasDisabled'
  BY DEF OneMails, OffWasDisabled
<1>. QED
  BY <1>1, <1>8, <1>9, <1>10, <1>11, <1>12

(* A handler that does something else, or nothing any more.                *)
LEMMA WorkerGoes ==
  ASSUME InboxInv, NEW w \in Worker, NEW q \in [pc: {"waiting", "look", "insert", "ack"}, on: SUBSET Message],
         AtTask(q), worker' = [worker EXCEPT ![w] = q], crashes' \in 0 .. MaxCrashes,
         UNCHANGED <<message, consumed, preference, inbox, seen, mailed, changes, disabled>>,
         acked' \in SUBSET Message, \A m \in acked' \ acked : m \in consumed \/ ~N!Recorded(m)
  PROVE  InboxInv'
<1>. USE DEF InboxInv
<1>1. N!TypeOK'
  BY DEF N!TypeOK
<1>2. \A v \in Worker : AtTask(worker[v])'
  BY DEF AtTask, N!TypeOK, N!Recorded
<1>3. OneMails'
  BY DEF OneMails, N!TypeOK
<1>4. OnePerRow' /\ OneMail' /\ OffWasDisabled'
  BY DEF OnePerRow, OneMail, OffWasDisabled, N!Rows
<1>5. Settled'
  BY DEF Settled, N!Recorded
<1>. QED
  BY <1>1, <1>2, <1>3, <1>4, <1>5

(* A handler takes a message, looks it up, acknowledges it or stops: no    *)
(* row is written and no mail tried.                                       *)
LEMMA QuietStep ==
  ASSUME InboxInv, NEW w \in Worker,
         (\E m \in Message : N!Take(w, m)) \/ N!Look(w) \/ N!Ack(w) \/ N!Crash(w)
  PROVE  InboxInv'
<1>1. worker[w] \in [pc: {"waiting", "look", "insert", "mail", "ack"}, on: SUBSET Message]
      /\ worker \in [Worker -> [pc: {"waiting", "look", "insert", "mail", "ack"}, on: SUBSET Message]]
      /\ AtTask(worker[w]) /\ crashes \in 0 .. MaxCrashes /\ acked \in SUBSET Message
  BY DEF InboxInv, N!TypeOK
<1>2. N!Waiting \in [pc: {"waiting", "look", "insert", "ack"}, on: SUBSET Message] /\ AtTask(N!Waiting)
  BY DEF AtTask, N!Waiting
<1>3. ASSUME NEW m \in Message, N!Take(w, m)
      PROVE  InboxInv'
  <2>. DEFINE q == [pc |-> IF N!Recorded(m) THEN "look" ELSE "ack", on |-> {m}]
  <2>1. q \in [pc: {"waiting", "look", "insert", "ack"}, on: SUBSET Message] /\ AtTask(q)
    BY <1>3 DEF N!Take, AtTask
  <2>2. worker' = [worker EXCEPT ![w] = q]
    BY <1>3 DEF N!Take
  <2>. HIDE DEF q
  <2>. QED
    BY <1>1, <1>3, <2>1, <2>2, WorkerGoes DEF N!Take
<1>4. CASE N!Look(w)
  <2>. DEFINE q == [worker[w] EXCEPT !.pc = IF worker[w].on \subseteq consumed THEN "ack" ELSE "insert"]
  <2>1. q \in [pc: {"waiting", "look", "insert", "ack"}, on: SUBSET Message] /\ AtTask(q)
    BY <1>1, <1>4 DEF N!Look, AtTask
  <2>2. worker' = [worker EXCEPT ![w] = q]
    BY <1>1, <1>4 DEF N!Look, N!Doing
  <2>. HIDE DEF q
  <2>. QED
    BY <1>1, <1>4, <2>1, <2>2, WorkerGoes DEF N!Look
<1>5. CASE N!Ack(w)
  BY <1>1, <1>2, <1>5, WorkerGoes DEF N!Ack, AtTask
<1>6. CASE N!Crash(w)
  <2>1. crashes' \in 0 .. MaxCrashes
    BY <1>1, <1>6, ServicesAssumption DEF N!Crash
  <2>. QED
    BY <1>1, <1>2, <1>6, <2>1, WorkerGoes DEF N!Crash
<1>. QED
  BY <1>3, <1>4, <1>5, <1>6

(* The rows of an event are written once.                                  *)
LEMMA InsertRows ==
  ASSUME InboxInv, NEW w \in Worker, N!Insert(w)
  PROVE  InboxInv'
<1>. USE DEF InboxInv
<1>1. PICK m \in worker[w].on \ consumed :
        /\ N!WriteRows(m)
        /\ N!Doing(w, IF N!SendsMail(message[m]) THEN "mail" ELSE "ack")
  BY DEF N!Insert
<1>2. /\ m \in Message /\ worker[w].on = {m} /\ m \notin consumed /\ message[m] # N!NoMessage
      /\ message \in [Message -> N!Event \cup {N!NoMessage}] /\ worker[w].pc = "insert"
  BY <1>1 DEF N!Insert, AtTask, N!TypeOK
<1>3. /\ UNCHANGED <<message, acked, seen, mailed, crashes, changes, disabled>>
      /\ consumed' = consumed \cup {m} /\ N!Rows(m) \subseteq N!Row
      /\ \A n \in Message : N!Recorded(n)' = N!Recorded(n) /\ N!Rows(n)' = N!Rows(n)
  BY <1>1, <1>2, PeopleAreReaders DEF N!Insert, N!WriteRows, N!Recorded, N!Rows, N!Row
<1>4. inbox' = [r \in N!Row |->
         IF r \in N!Rows(m) /\ r[3] \in preference[r[2]].on THEN inbox[r] + 1 ELSE inbox[r]]
  BY <1>1 DEF N!WriteRows
<1>5. /\ preference' \in [Reader -> [there: BOOLEAN, on: SUBSET N!Channel]]
      /\ \A u \in Reader : preference'[u].on = preference[u].on
  BY <1>1 DEF N!WriteRows, N!TypeOK
<1>6. PICK pc \in {"mail", "ack"} :
        /\ worker' = [worker EXCEPT ![w] = [worker[w] EXCEPT !.pc = pc]]
        /\ pc = "mail" => N!SendsMail(message[m])
  BY <1>1 DEF N!Doing, N!TypeOK
<1>7. N!TypeOK'
  BY <1>2, <1>3, <1>4, <1>5, <1>6 DEF N!TypeOK
<1>8. \A v \in Worker : v # w => worker'[v] = worker[v]
  BY <1>6 DEF N!TypeOK
<1>9. worker'[w].pc = pc /\ worker'[w].on = {m}
  BY <1>2, <1>6 DEF N!TypeOK
<1>10. ASSUME NEW v \in Worker
       PROVE  AtTask(worker[v])'
  <2>1. CASE v = w
    <3>1. mailed[m] = 0
      BY <1>2 DEF OneMail
    <3>. QED
      BY <1>2, <1>3, <1>6, <1>9, <2>1, <3>1 DEF AtTask
  <2>2. CASE v # w
    <3>1. worker[v].on \subseteq Message /\ AtTask(worker[v]) /\ worker'[v] = worker[v]
      BY <1>8, <2>2 DEF N!TypeOK
    <3>. QED
      BY <1>3, <3>1 DEF AtTask
  <2>. QED
    BY <2>1, <2>2
<1>11. OneMails'
  BY <1>2, <1>6, <1>8, <1>9 DEF OneMails, AtTask
<1>12. OffWasDisabled'
  BY <1>3, <1>5 DEF OffWasDisabled
<1>13. OnePerRow'
  <2>. SUFFICES ASSUME NEW n \in Message, NEW r \in {n} \X Reader \X N!Channel
                PROVE  /\ inbox'[r] \in {0, 1}
                       /\ inbox'[r] = 1 => n \in consumed' /\ r \in N!Rows(n)
                       /\ n \in consumed' /\ r \in N!Rows(n) /\ <<r[2], r[3]>> \notin disabled => inbox'[r] = 1
    BY <1>3 DEF OnePerRow
  <2>1. r \in N!Row /\ r[1] = n /\ r[2] \in Reader /\ r[3] \in N!Channel
    BY DEF N!Row
  <2>2. CASE n = m
    <3>1. inbox[r] = 0
      BY <1>2, <2>2 DEF OnePerRow
    <3>2. r[3] \notin preference[r[2]].on => <<r[2], r[3]>> \in disabled
      BY <2>1 DEF OffWasDisabled
    <3>. QED
      BY <1>3, <1>4, <2>1, <2>2, <3>1, <3>2
  <2>3. CASE n # m
    <3>1. r \notin N!Rows(m)
      BY <2>1, <2>3 DEF N!Rows
    <3>. QED
      BY <1>3, <1>4, <2>1, <2>3, <3>1 DEF OnePerRow
  <2>. QED
    BY <2>2, <2>3
<1>14. OneMail'
  BY <1>3 DEF OneMail
<1>15. Settled'
  <2>1. \A r \in seen : inbox'[r] > 0
    BY <1>4 DEF Settled, N!TypeOK
  <2>. QED
    BY <1>2, <1>3, <2>1 DEF Settled, N!TypeOK
<1>. QED
  BY <1>7, <1>10, <1>11, <1>12, <1>13, <1>14, <1>15

(* The mails are tried by the one handler that inserted the rows.          *)
LEMMA MailStep ==
  ASSUME InboxInv, NEW w \in Worker, N!Mail(w)
  PROVE  InboxInv'
<1>. USE DEF InboxInv
<1>1. PICK m \in Message :
        worker[w].on = {m} /\ m \in consumed /\ N!SendsMail(message[m]) /\ mailed[m] = 0
  BY DEF N!Mail, AtTask
<1>2. /\ UNCHANGED <<message, consumed, acked, preference, inbox, seen, crashes, changes, disabled>>
      /\ mailed' = [n \in Message |-> IF n = m THEN 1 ELSE mailed[n]]
      /\ \A n \in Message : N!Recorded(n)' = N!Recorded(n) /\ N!Rows(n)' = N!Rows(n)
  BY <1>1 DEF N!Mail, N!TypeOK, N!Recorded, N!Rows
<1>3. worker' = [worker EXCEPT ![w] = [worker[w] EXCEPT !.pc = "ack"]]
  BY DEF N!Mail, N!Doing, N!TypeOK
<1>4. N!TypeOK'
  BY <1>2, <1>3 DEF N!TypeOK
<1>5. \A v \in Worker : v # w => worker'[v] = worker[v]
  BY <1>3 DEF N!TypeOK
<1>6. worker'[w].pc = "ack" /\ worker'[w].on = {m}
  BY <1>1, <1>3 DEF N!TypeOK
<1>7. ASSUME NEW v \in Worker
      PROVE  AtTask(worker[v])'
  <2>1. CASE v = w
    BY <1>1, <1>2, <1>6, <2>1 DEF AtTask
  <2>2. CASE v # w
    <3>1. worker[v].pc = "mail" => worker[v].on # {m}
      BY <1>1, <2>2 DEF OneMails, N!Mail
    <3>2. worker[v].on \subseteq Message /\ AtTask(worker[v]) /\ worker'[v] = worker[v]
      BY <1>5, <2>2 DEF N!TypeOK
    <3>. QED
      BY <1>2, <3>1, <3>2 DEF AtTask
  <2>. QED
    BY <2>1, <2>2
<1>8. OneMails'
  BY <1>5, <1>6 DEF OneMails
<1>9. OnePerRow' /\ OffWasDisabled'
  BY <1>2 DEF OnePerRow, OffWasDisabled
<1>10. OneMail' /\ Settled'
  BY <1>1, <1>2 DEF OneMail, Settled, N!TypeOK
<1>. QED
  BY <1>4, <1>7, <1>8, <1>9, <1>10

(* What people do with their inbox and preferences.                        *)
LEMMA ReaderStep ==
  ASSUME InboxInv,
         \/ \E u \in Reader : N!GetPreferences(u) \/ N!UpdatePreferences(u) \/ N!MarkAllAsRead(u)
         \/ N!MarkAsRead
  PROVE  InboxInv'
<1>. USE DEF InboxInv
<1>1. UNCHANGED <<message, consumed, acked, worker, inbox, mailed, crashes>>
  BY DEF N!GetPreferences, N!UpdatePreferences, N!MarkAllAsRead, N!MarkAsRead
<1>2. changes' \in 0 .. MaxChanges
  <2>1. N!Change
    BY DEF N!GetPreferences, N!UpdatePreferences, N!MarkAllAsRead, N!MarkAsRead
  <2>. QED
    BY <2>1, ServicesAssumption DEF N!Change, N!TypeOK
<1>3. disabled \subseteq disabled' /\ disabled' \in SUBSET (Reader \X N!Channel)
  BY DEF N!GetPreferences, N!UpdatePreferences, N!MarkAllAsRead, N!MarkAsRead, N!TypeOK
<1>4. preference' \in [Reader -> [there: BOOLEAN, on: SUBSET N!Channel]] /\ OffWasDisabled'
  <2>1. ASSUME NEW u \in Reader, N!GetPreferences(u)
        PROVE  preference' \in [Reader -> [there: BOOLEAN, on: SUBSET N!Channel]] /\ OffWasDisabled'
    BY <2>1 DEF N!GetPreferences, N!TypeOK, OffWasDisabled
  <2>2. ASSUME NEW u \in Reader, N!UpdatePreferences(u)
        PROVE  preference' \in [Reader -> [there: BOOLEAN, on: SUBSET N!Channel]] /\ OffWasDisabled'
    <3>1. PICK on \in SUBSET N!Channel :
            /\ preference' = [preference EXCEPT ![u] = [there |-> TRUE, on |-> on]]
            /\ disabled' = disabled \cup ({u} \X (N!Channel \ on))
      BY <2>2 DEF N!UpdatePreferences
    <3>. QED
      BY <3>1 DEF N!TypeOK, OffWasDisabled
  <2>3. CASE UNCHANGED <<preference, disabled>>
    BY <2>3 DEF N!TypeOK, OffWasDisabled
  <2>. QED
    BY <2>1, <2>2, <2>3 DEF N!MarkAllAsRead, N!MarkAsRead
<1>5. seen' \in SUBSET N!Row /\ \A r \in seen' : inbox[r] > 0
  BY DEF N!GetPreferences, N!UpdatePreferences, N!MarkAllAsRead, N!MarkAsRead, N!MarkRead, N!TypeOK, Settled
<1>6. N!TypeOK'
  BY <1>1, <1>2, <1>3, <1>4, <1>5 DEF N!TypeOK
<1>7. OnePerRow'
  BY <1>1, <1>3 DEF OnePerRow, N!Rows
<1>8. OneMail' /\ OneMails' /\ \A w \in Worker : AtTask(worker[w])'
  BY <1>1 DEF OneMail, OneMails, AtTask, N!Recorded
<1>9. Settled'
  BY <1>1, <1>5 DEF Settled, N!Recorded
<1>. QED
  BY <1>4, <1>6, <1>7, <1>8, <1>9

(* Every step keeps the invariant. *)
LEMMA InboxStep == InboxInv /\ [N!Next]_N!notifying => InboxInv'
<1>1. ASSUME InboxInv, UNCHANGED N!notifying
      PROVE  InboxInv'
  BY <1>1 DEF InboxInv, N!notifying, N!TypeOK, OneMails, OffWasDisabled, OnePerRow, OneMail, Settled, AtTask,
              N!Recorded, N!Rows
<1>. QED
  BY <1>1, ArriveStep, QuietStep, InsertRows, MailStep, ReaderStep DEF N!Next

(* Notifications: the invariant holds in every reachable state. *)
LEMMA InboxAlways == N!Spec => []InboxInv
BY InboxInit, InboxStep, PTL DEF N!Spec

(* A message may be handled again and by two handlers at once, but its     *)
(* consumption is recorded together with its rows: everybody an event      *)
(* names has one row in each channel, and its mails are tried at most      *)
(* once.                                                                   *)
THEOREM InboxStaysExact == N!Spec => []InboxExact
<1>1. InboxInv => InboxExact
  BY InboxFollows DEF InboxExact
<1>. QED
  BY <1>1, InboxAlways, PTL
-----------------------------------------------------------------------------
(* WebClient.  Besides the types: whatever is kept in the cache was sent,  *)
(* and if it has been answered, its answer is as new as every change of    *)
(* the tab that was; whoever shares what another reads is answered with    *)
(* what is new enough for them.                                            *)
Requested ==
  [pc: {"new", "sent", "refreshing", "served", "shared", "done", "failed"}, kind: W!Kind,
   pair: 0 .. issued, again: BOOLEAN, value: 0 .. MaxData, floor: 0 .. MaxData, on: SUBSET W!Call]

(* A read that was sent, whose answer is no older than n.                  *)
AnswersWith(q, n) ==
  /\ q.kind = "read" /\ q.pc \in {"sent", "refreshing", "served", "done", "failed"}
  /\ q.pc \in {"served", "done"} => q.value >= n

UpToDate(q) ==
  /\ q.floor <= changed /\ q.value <= data
  /\ q.kind = "read" /\ q.pc \in {"served", "done"} => q.value >= q.floor
  /\ q.pc = "shared" => q.kind = "read"

SharedAnswers == \A c \in W!Call : call[c].pc = "shared" =>
                   \A d \in call[c].on : AnswersWith(call[d], call[c].floor)

CachedAnswers == \A d \in cache : AnswersWith(call[d], changed)

ReadsInv ==
  /\ W!TypeOK
  /\ changed <= data
  /\ \A c \in W!Call : UpToDate(call[c])
  /\ SharedAnswers /\ CachedAnswers

(* What a request is that has asked nothing.                               *)
LEMMA FreshIs ==
  ASSUME issued \in Nat
  PROVE  /\ W!Fresh \in Requested /\ W!Fresh.pc = "new" /\ W!Fresh.floor = 0 /\ W!Fresh.value = 0
         /\ W!Fresh.kind = "read"
         /\ W!NoRefresh \in [of: 0 .. issued, got: 0 .. issued, done: BOOLEAN]
BY ServicesAssumption DEF W!Fresh, Requested, W!Kind, W!NoRefresh

(* A request that is sent again.                                           *)
LEMMA AgainIs ==
  ASSUME NEW q \in Requested, NEW pair \in 0 .. issued
  PROVE  /\ [q EXCEPT !.pc = "sent", !.pair = pair, !.again = TRUE] \in Requested
         /\ [q EXCEPT !.pc = "sent", !.pair = pair, !.again = TRUE].pc = "sent"
BY DEF Requested

(* A request that was served.                                              *)
LEMMA ServedIs ==
  ASSUME NEW q \in Requested, NEW n \in 0 .. MaxData
  PROVE  /\ [q EXCEPT !.pc = "served", !.value = n] \in Requested
         /\ [q EXCEPT !.pc = "served", !.value = n].pc = "served"
         /\ [q EXCEPT !.pc = "served", !.value = n].value = n
         /\ [q EXCEPT !.pc = "served", !.value = n].kind = q.kind
         /\ [q EXCEPT !.pc = "served", !.value = n].floor = q.floor
BY DEF Requested

(* Every initial state satisfies the invariant. *)
LEMMA ReadsInit == W!Init => ReadsInv
<1>. SUFFICES ASSUME W!Init
              PROVE  ReadsInv
  OBVIOUS
<1>1. issued = 0 /\ issued \in Nat /\ data = 0 /\ changed = 0 /\ cache = {} /\ \A c \in W!Call : call[c] = W!Fresh
  BY DEF W!Init
<1>2. W!TypeOK
  <2>1. call \in [W!Call -> Requested]
    BY <1>1, FreshIs DEF W!Init
  <2>2. refresh \in [of: 0 .. issued, got: 0 .. issued, done: BOOLEAN]
    BY <1>1 DEF W!Init, W!NoRefresh
  <2>. QED
    BY <1>1, <2>1, <2>2, ServicesAssumption DEF W!Init, W!TypeOK, Requested
<1>3. \A c \in W!Call : UpToDate(call[c])
  BY <1>1, FreshIs DEF UpToDate
<1>. QED
  BY <1>1, <1>2, <1>3, FreshIs DEF ReadsInv, SharedAnswers, CachedAnswers

(* A request goes on.                                                      *)
LEMMA CallGoes ==
  ASSUME ReadsInv, NEW c \in W!Call, NEW q \in Requested, call' = [call EXCEPT ![c] = q],
         UNCHANGED <<stored, live, issued, changed>>,
         refresh' \in [of: 0 .. issued, got: 0 .. issued, done: BOOLEAN],
         data' \in data .. MaxData, q.floor <= changed, q.value <= data',
         q.kind = "read" /\ q.pc \in {"served", "done"} => q.value >= q.floor,
         q.pc = "shared" => q.kind = "read" /\ \A d \in q.on : d # c /\ AnswersWith(call[d], q.floor),
         \A n \in Nat : n <= changed /\ AnswersWith(call[c], n) => AnswersWith(q, n),
         cache' \subseteq cache \/ (cache' = {c} /\ AnswersWith(q, changed))
  PROVE  ReadsInv'
<1>. USE DEF ReadsInv
<1>1. W!TypeOK'
  BY ServicesAssumption DEF W!TypeOK, Requested
<1>2. /\ changed \in Nat /\ data \in Nat /\ \A d \in W!Call : call[d].floor \in Nat /\ call[d].value \in Nat
      /\ \A d \in W!Call : call[d].on \subseteq W!Call /\ call[d].floor <= changed
      /\ cache \subseteq W!Call /\ data' \in Nat /\ data' >= data
  BY ServicesAssumption DEF W!TypeOK, UpToDate
<1>3. \A d \in W!Call : call'[d] = IF d = c THEN q ELSE call[d]
  BY DEF W!TypeOK
<1>4. changed' <= data'
  BY <1>2
<1>5. \A d \in W!Call : UpToDate(call[d])'
  BY <1>2, <1>3 DEF UpToDate
<1>6. \A d \in W!Call, n \in Nat : n <= changed /\ AnswersWith(call[d], n) => AnswersWith(call'[d], n)
  BY <1>3
<1>7. SharedAnswers'
  <2>. SUFFICES ASSUME NEW b \in W!Call, call'[b].pc = "shared", NEW d \in call'[b].on
                PROVE  AnswersWith(call'[d], call'[b].floor)
    BY DEF SharedAnswers, AnswersWith
  <2>1. CASE b = c
    <3>1. d # c /\ d \in W!Call /\ AnswersWith(call[d], q.floor)
      BY <1>3, <2>1 DEF Requested
    <3>. QED
      BY <1>3, <2>1, <3>1
  <2>2. CASE b # c
    BY <1>2, <1>3, <1>6, <2>2 DEF SharedAnswers
  <2>. QED
    BY <2>1, <2>2
<1>8. CachedAnswers'
  <2>1. CASE cache' \subseteq cache
    BY <1>2, <1>6, <2>1 DEF CachedAnswers, AnswersWith
  <2>2. CASE cache' = {c} /\ AnswersWith(q, changed)
    BY <1>3, <2>2 DEF CachedAnswers, AnswersWith
  <2>. QED
    BY <2>1, <2>2
<1>. QED
  BY <1>1, <1>4, <1>5, <1>7, <1>8

(* What a request is that is over.                                         *)
LEMMA OverIs ==
  ASSUME ReadsInv, NEW c \in W!Call, NEW pc \in {"done", "failed"}
  PROVE  /\ W!Over(c, pc) \in Requested /\ W!Over(c, pc).pc = pc
         /\ call[c].kind = "read" => /\ W!Over(c, pc).kind = "read" /\ W!Over(c, pc).value = call[c].value
                                     /\ W!Over(c, pc).floor = call[c].floor
         /\ call[c].kind # "read" => /\ W!Over(c, pc).kind = "blob" /\ W!Over(c, pc).value = 0
                                     /\ W!Over(c, pc).floor = 0
<1>1. call[c] \in Requested /\ issued \in Nat
  BY DEF ReadsInv, W!TypeOK, Requested
<1>2. CASE call[c].kind = "read"
  BY <1>1, <1>2, FreshIs DEF W!Over, Requested, W!Kind
<1>3. CASE call[c].kind # "read"
  BY <1>1, <1>3, FreshIs DEF W!Over, Requested, W!Kind
<1>. QED
  BY <1>2, <1>3

(* request and cachedGet begin.                                            *)
LEMMA AskStep ==
  ASSUME ReadsInv, NEW c \in W!Call, W!Get(c) \/ \E k \in W!Kind \ {"read"} : W!Send(c, k)
  PROVE  ReadsInv'
<1>1. /\ call[c] = W!Fresh /\ UNCHANGED <<stored, live, issued, changed, refresh, data>>
      /\ refresh \in [of: 0 .. issued, got: 0 .. issued, done: BOOLEAN]
      /\ data \in 0 .. MaxData /\ changed \in 0 .. MaxData /\ changed <= data /\ stored \in 0 .. issued
      /\ cache \subseteq W!Call /\ MaxData \in Nat /\ issued \in Nat
  <2>1. MaxData \in Nat /\ MaxPairs \in Nat
    BY ServicesAssumption
  <2>2. call[c] = W!Fresh /\ UNCHANGED <<stored, live, issued, changed, refresh, data>>
    BY DEF W!Get, W!Send, W!ReadCached, W!Begin
  <2>. QED
    BY <2>1, <2>2 DEF ReadsInv, W!TypeOK
<1>2. data' \in data .. MaxData /\ \A n \in Nat : ~AnswersWith(call[c], n)
  BY <1>1, FreshIs DEF AnswersWith
<1>3. ASSUME NEW k \in W!Kind, W!Send(c, k)
      PROVE  ReadsInv'
  <2>. DEFINE q == [W!Fresh EXCEPT !.pc = "sent", !.kind = k, !.pair = stored,
                                   !.floor = IF k = "read" THEN changed ELSE 0]
  <2>1. /\ q \in Requested /\ q.pc = "sent" /\ q.kind = k /\ q.value = 0
        /\ q.floor = IF k = "read" THEN changed ELSE 0
    BY <1>1, FreshIs DEF Requested
  <2>2. call' = [call EXCEPT ![c] = q] /\ cache' = IF k = "read" THEN {c} ELSE cache
    BY <1>3 DEF W!Send
  <2>. HIDE DEF q
  <2>3. q.floor <= changed /\ q.value <= data' /\ (k = "read" => AnswersWith(q, changed))
    BY <1>1, <2>1 DEF AnswersWith
  <2>. QED
    BY <1>1, <1>2, <2>1, <2>2, <2>3, CallGoes
<1>4. CASE W!ReadCached(c)
  <2>. DEFINE q == [W!Fresh EXCEPT !.pc = "shared", !.floor = changed, !.on = cache]
  <2>1. q \in Requested /\ q.pc = "shared" /\ q.kind = "read" /\ q.value = 0 /\ q.floor = changed /\ q.on = cache
    BY <1>1, FreshIs DEF Requested
  <2>2. call' = [call EXCEPT ![c] = q] /\ cache' = cache
    BY <1>4 DEF W!ReadCached
  <2>. HIDE DEF q
  <2>3. q.floor <= changed /\ q.value <= data'
    BY <1>1, <2>1
  <2>4. \A d \in q.on : d # c /\ AnswersWith(call[d], q.floor)
    BY <1>1, <1>2, <2>1 DEF ReadsInv, CachedAnswers
  <2>. QED
    BY <1>1, <1>2, <2>1, <2>2, <2>3, <2>4, CallGoes
<1>5. CASE W!Get(c)
  <2>1. W!Send(c, "read") \/ W!ReadCached(c)
    BY <1>5 DEF W!Get
  <2>2. "read" \in W!Kind
    BY DEF W!Kind
  <2>. QED
    BY <1>3, <1>4, <2>1, <2>2
<1>. QED
  BY <1>3, <1>5

(* A request is answered, by a service or from the cache, or fails, or has *)
(* to wait for new tokens.                                                 *)
LEMMA AnswerStep ==
  ASSUME ReadsInv, NEW c \in W!Call, W!Share(c) \/ W!Serve(c) \/ W!Fail(c) \/ W!Refused(c)
  PROVE  ReadsInv'
<1>1. /\ UNCHANGED <<stored, live, issued, changed>>
      /\ refresh \in [of: 0 .. issued, got: 0 .. issued, done: BOOLEAN] /\ issued \in Nat
      /\ data \in 0 .. MaxData /\ changed \in 0 .. MaxData /\ changed <= data
      /\ call \in [W!Call -> Requested] /\ MaxData \in Nat /\ UpToDate(call[c])
  <2>1. MaxData \in Nat /\ MaxPairs \in Nat
    BY ServicesAssumption
  <2>2. UNCHANGED <<stored, live, issued, changed>>
    BY DEF W!Share, W!Serve, W!Fail, W!Refused
  <2>. QED
    BY <2>1, <2>2 DEF ReadsInv, W!TypeOK, Requested
<1>2. CASE W!Share(c)
  <2>1. PICK d \in call[c].on :
          /\ call[d].pc \in {"done", "failed"}
          /\ call' = [call EXCEPT ![c].pc = call[d].pc, ![c].value = call[d].value, ![c].on = {}]
    BY <1>2 DEF W!Share
  <2>2. d \in W!Call /\ AnswersWith(call[d], call[c].floor) /\ call[c].kind = "read" /\ call[c].pc = "shared"
    BY <1>1, <1>2, <2>1 DEF W!Share, ReadsInv, SharedAnswers, UpToDate, Requested
  <2>. DEFINE q == [call[c] EXCEPT !.pc = call[d].pc, !.value = call[d].value, !.on = {}]
  <2>3. /\ q \in Requested /\ q.pc = call[d].pc /\ q.value = call[d].value /\ q.kind = "read"
        /\ q.floor = call[c].floor
    BY <1>1, <2>1, <2>2 DEF Requested
  <2>4. call' = [call EXCEPT ![c] = q]
    BY <1>1, <2>1
  <2>. HIDE DEF q
  <2>5. q.pc \in {"done", "failed"} /\ q.floor <= changed /\ q.value <= data
        /\ (q.pc = "done" => q.value >= q.floor)
    BY <1>1, <2>1, <2>2, <2>3 DEF ReadsInv, UpToDate, AnswersWith
  <2>6. UNCHANGED <<refresh, data, cache>>
    BY <1>2 DEF W!Share
  <2>7. data' \in data .. MaxData /\ \A n \in Nat : ~AnswersWith(call[c], n)
    BY <1>1, <2>2, <2>6 DEF AnswersWith
  <2>. QED
    BY <1>1, <2>3, <2>4, <2>5, <2>6, <2>7, CallGoes
<1>3. CASE W!Serve(c)
  <2>1. /\ UNCHANGED <<refresh, cache>> /\ data' \in data .. MaxData /\ data' \in 0 .. MaxData
        /\ call[c].pc = "sent"
        /\ call' = [call EXCEPT ![c].pc = "served", ![c].value = data']
    BY <1>1, <1>3 DEF W!Serve
  <2>. DEFINE q == [call[c] EXCEPT !.pc = "served", !.value = data']
  <2>2. q \in Requested /\ q.pc = "served" /\ q.value = data' /\ q.kind = call[c].kind /\ q.floor = call[c].floor
    <3>1. call[c] \in Requested /\ data' \in 0 .. MaxData
      BY <1>1, <2>1
    <3>. QED
      BY <3>1, ServedIs
  <2>3. call' = [call EXCEPT ![c] = q]
    BY <1>1, <2>1
  <2>. HIDE DEF q
  <2>4. q.floor <= changed /\ q.value <= data' /\ q.value >= q.floor /\ q.floor \in Nat
    BY <1>1, <2>1, <2>2 DEF UpToDate, Requested
  <2>5. \A n \in Nat : n <= changed /\ AnswersWith(call[c], n) => AnswersWith(q, n)
    BY <1>1, <2>1, <2>2 DEF AnswersWith
  <2>. QED
    BY <1>1, <2>1, <2>2, <2>3, <2>4, <2>5, CallGoes
<1>4. CASE W!Fail(c)
  <2>. DEFINE q == W!Over(c, "failed")
  <2>1. /\ UNCHANGED <<refresh, data>> /\ cache' \subseteq cache /\ call' = [call EXCEPT ![c] = q]
        /\ data' \in data .. MaxData
    BY <1>1, <1>4 DEF W!Fail, W!DropFailed
  <2>2. q \in Requested /\ q.pc = "failed" /\ q.floor <= changed /\ q.value <= data
    BY <1>1, OverIs DEF UpToDate
  <2>3. \A n \in Nat : n <= changed /\ AnswersWith(call[c], n) => AnswersWith(q, n)
    BY <1>1, OverIs DEF AnswersWith
  <2>. HIDE DEF q
  <2>. QED
    BY <1>1, <2>1, <2>2, <2>3, CallGoes
<1>5. CASE W!Refused(c)
  <2>1. /\ UNCHANGED <<data, cache>> /\ call[c].pc = "sent" /\ call' = [call EXCEPT ![c].pc = "refreshing"]
        /\ data' \in data .. MaxData
    BY <1>1, <1>5 DEF W!Refused
  <2>. DEFINE q == [call[c] EXCEPT !.pc = "refreshing"]
  <2>2. /\ q \in Requested /\ q.pc = "refreshing" /\ q.value = call[c].value /\ q.kind = call[c].kind
        /\ q.floor = call[c].floor /\ call' = [call EXCEPT ![c] = q]
    BY <1>1, <2>1 DEF Requested
  <2>. HIDE DEF q
  <2>3. q.floor <= changed /\ q.value <= data
    BY <1>1, <2>2 DEF UpToDate
  <2>4. \A n \in Nat : n <= changed /\ AnswersWith(call[c], n) => AnswersWith(q, n)
    BY <2>1, <2>2 DEF AnswersWith
  <2>5. refresh' \in [of: 0 .. issued, got: 0 .. issued, done: BOOLEAN]
    <3>1. [W!NoRefresh EXCEPT !.of = call[c].pair] \in [of: 0 .. issued, got: 0 .. issued, done: BOOLEAN]
      BY <1>1, FreshIs DEF Requested
    <3>. QED
      BY <1>1, <1>5, <3>1 DEF W!Refused
  <2>. QED
    BY <1>1, <2>1, <2>2, <2>3, <2>4, <2>5, CallGoes
<1>. QED
  BY <1>2, <1>3, <1>4, <1>5

(* A change that is answered empties the cache: what is in it later was    *)
(* asked later.                                                            *)
LEMMA ReceiveStep ==
  ASSUME ReadsInv, NEW c \in W!Call, W!Receive(c)
  PROVE  ReadsInv'
<1>1. /\ UNCHANGED <<stored, live, issued, refresh, data>>
      /\ refresh \in [of: 0 .. issued, got: 0 .. issued, done: BOOLEAN] /\ issued \in Nat
      /\ data \in 0 .. MaxData /\ changed \in 0 .. MaxData /\ changed <= data
      /\ call \in [W!Call -> Requested] /\ MaxData \in Nat /\ UpToDate(call[c]) /\ call[c].pc = "served"
  BY ServicesAssumption DEF W!Receive, ReadsInv, W!TypeOK, Requested
<1>. DEFINE q == W!Over(c, "done")
<1>2. call' = [call EXCEPT ![c] = q]
  BY DEF W!Receive
<1>3. CASE call[c].kind # "change"
  <2>1. UNCHANGED <<changed, cache>> /\ data' \in data .. MaxData
    BY <1>1, <1>3 DEF W!Receive, W!Invalidate
  <2>2. /\ q \in Requested /\ q.pc = "done" /\ q.floor <= changed /\ q.value <= data
        /\ q.kind = "read" => q.value >= q.floor
    BY <1>1, OverIs DEF UpToDate
  <2>3. \A n \in Nat : n <= changed /\ AnswersWith(call[c], n) => AnswersWith(q, n)
    BY <1>1, OverIs DEF AnswersWith
  <2>. HIDE DEF q
  <2>. QED
    BY <1>1, <1>2, <2>1, <2>2, <2>3, CallGoes
<1>4. CASE call[c].kind = "change"
  <2>1. cache' = {} /\ changed' \in changed .. data
    BY <1>1, <1>4 DEF W!Receive, W!Invalidate, UpToDate, Requested
  <2>2. q \in Requested /\ q.pc = "done" /\ q.kind = "blob" /\ q.floor = 0 /\ q.value = 0
    BY <1>4, OverIs
  <2>. HIDE DEF q
  <2>3. \A d \in W!Call : call'[d] = IF d = c THEN q ELSE call[d]
    BY <1>1, <1>2
  <2>4. W!TypeOK'
    BY <1>1, <1>2, <2>1, <2>2 DEF ReadsInv, W!TypeOK, Requested
  <2>5. changed' <= data'
    BY <1>1, <2>1
  <2>6. \A d \in W!Call : UpToDate(call[d])'
    <3>. SUFFICES ASSUME NEW d \in W!Call
                  PROVE  UpToDate(call[d])'
      OBVIOUS
    <3>1. call[d] \in Requested /\ UpToDate(call[d])
      BY <1>1 DEF ReadsInv
    <3>. QED
      BY <1>1, <2>1, <2>2, <2>3, <3>1 DEF UpToDate, Requested
  <2>7. SharedAnswers'
    <3>. SUFFICES ASSUME NEW b \in W!Call, call'[b].pc = "shared", NEW d \in call'[b].on
                  PROVE  AnswersWith(call'[d], call'[b].floor)
      BY DEF SharedAnswers, AnswersWith
    <3>1. b # c /\ d \in W!Call /\ AnswersWith(call[d], call[b].floor)
      BY <1>1, <2>2, <2>3 DEF ReadsInv, SharedAnswers, Requested
    <3>2. d # c
      BY <1>4, <3>1 DEF AnswersWith
    <3>. QED
      BY <2>3, <3>1, <3>2
  <2>8. CachedAnswers'
    BY <2>1 DEF CachedAnswers
  <2>. QED
    BY <2>4, <2>5, <2>6, <2>7, <2>8 DEF ReadsInv
<1>. QED
  BY <1>3, <1>4

(* Steps that leave requests and changes alone.                            *)
LEMMA TokenStep ==
  ASSUME ReadsInv, W!SignIn \/ W!Others \/ W!ForgetCached \/ W!Exchange \/ W!SignOut
  PROVE  ReadsInv'
<1>1. UNCHANGED <<call, changed>> /\ cache' \subseteq cache
  BY DEF W!SignIn, W!Others, W!ForgetCached, W!Exchange, W!SignOut
<1>2. /\ data \in 0 .. MaxData /\ changed \in 0 .. MaxData /\ changed <= data /\ issued \in 0 .. MaxPairs
      /\ MaxData \in Nat /\ MaxPairs \in Nat /\ live \subseteq 1 .. issued /\ stored \in 0 .. issued
      /\ refresh \in [of: 0 .. issued, got: 0 .. issued, done: BOOLEAN]
      /\ call \in [W!Call -> Requested]
  BY ServicesAssumption DEF ReadsInv, W!TypeOK, Requested
<1>3. data' \in data .. MaxData
  BY <1>2 DEF W!SignIn, W!Others, W!ForgetCached, W!Exchange, W!SignOut
<1>4. /\ issued' \in issued .. MaxPairs /\ live' \subseteq 1 .. issued' /\ stored' \in 0 .. issued'
      /\ refresh' \in [of: 0 .. issued', got: 0 .. issued', done: BOOLEAN]
  <2>1. CASE W!SignIn
    BY <1>2, <2>1 DEF W!SignIn
  <2>2. CASE W!Others \/ W!ForgetCached \/ W!SignOut
    <3>1. issued' = issued /\ refresh' = refresh /\ live' \subseteq live /\ stored' \in {0, stored}
      BY <2>2 DEF W!Others, W!ForgetCached, W!SignOut
    <3>. QED
      BY <1>2, <3>1
  <2>3. CASE W!Exchange
    <3>1. ASSUME issued' = issued, live' = live, refresh' = [refresh EXCEPT !.done = TRUE]
          PROVE  /\ issued' \in issued .. MaxPairs /\ live' \subseteq 1 .. issued'
                 /\ refresh' \in [of: 0 .. issued', got: 0 .. issued', done: BOOLEAN]
      <4>1. [refresh EXCEPT !.done = TRUE] \in [of: 0 .. issued, got: 0 .. issued, done: BOOLEAN]
        BY <1>2
      <4>2. issued \in issued .. MaxPairs
        BY <1>2
      <4>. QED
        BY <1>2, <3>1, <4>1, <4>2
    <3>2. ASSUME issued < MaxPairs, issued' = issued + 1, live' = (live \ {refresh.of}) \cup {issued + 1},
                 NEW got \in {0, issued + 1}, refresh' = [refresh EXCEPT !.got = got, !.done = TRUE]
          PROVE  /\ issued' \in issued .. MaxPairs /\ live' \subseteq 1 .. issued'
                 /\ refresh' \in [of: 0 .. issued', got: 0 .. issued', done: BOOLEAN]
      <4>1. issued' \in issued .. MaxPairs /\ live' \subseteq 1 .. issued'
        BY <1>2, <3>2
      <4>2. got \in 0 .. issued' /\ refresh.of \in 0 .. issued'
        BY <1>2, <3>2
      <4>3. refresh' = [of |-> refresh.of, got |-> got, done |-> TRUE]
        BY <1>2, <3>2
      <4>. QED
        BY <4>1, <4>2, <4>3
    <3>3. stored' \in 0 .. issued'
      BY <1>2, <2>3 DEF W!Exchange
    <3>. QED
      BY <2>3, <3>1, <3>2, <3>3 DEF W!Exchange
  <2>. QED
    BY <2>1, <2>2, <2>3
<1>5. call' \in [W!Call -> [pc: {"new", "sent", "refreshing", "served", "shared", "done", "failed"},
         kind: W!Kind, pair: 0 .. issued', again: BOOLEAN, value: 0 .. MaxData, floor: 0 .. MaxData,
         on: SUBSET W!Call]]
  BY <1>1, <1>2, <1>4 DEF Requested
<1>6. W!TypeOK'
  BY <1>1, <1>2, <1>3, <1>4, <1>5 DEF ReadsInv, W!TypeOK
<1>7. \A c \in W!Call : UpToDate(call[c])'
  BY <1>1, <1>2, <1>3 DEF ReadsInv, UpToDate, Requested
<1>8. SharedAnswers' /\ CachedAnswers'
  BY <1>1 DEF ReadsInv, SharedAnswers, CachedAnswers, AnswersWith
<1>. QED
  BY <1>1, <1>2, <1>3, <1>6, <1>7, <1>8 DEF ReadsInv

(* Whoever waited for new tokens is sent again, or fails.                  *)
LEMMA RefreshedStep ==
  ASSUME ReadsInv, W!Refreshed
  PROVE  ReadsInv'
<1>1. /\ UNCHANGED <<live, issued, data, changed>> /\ refresh' = W!NoRefresh
      /\ data \in 0 .. MaxData /\ changed \in 0 .. MaxData /\ changed <= data /\ issued \in 0 .. MaxPairs
      /\ MaxData \in Nat /\ MaxPairs \in Nat
      /\ refresh \in [of: 0 .. issued, got: 0 .. issued, done: BOOLEAN]
      /\ call \in [W!Call -> Requested] /\ cache' \subseteq cache /\ stored' \in 0 .. issued
  BY ServicesAssumption DEF W!Refreshed, ReadsInv, W!TypeOK, Requested, W!DropFailed
<1>2. call' \in [W!Call -> Requested] /\ \A c \in W!Call :
        \/ call'[c] = call[c]
        \/ call[c].pc = "refreshing" /\ call'[c] = [call[c] EXCEPT !.pc = "sent", !.pair = refresh.got, !.again = TRUE]
        \/ call[c].pc = "refreshing" /\ call'[c] = W!Over(c, "failed")
  <2>1. CASE refresh.got # 0
    <3>1. call' = [c \in W!Call |-> IF c \in {d \in W!Call : call[d].pc = "refreshing"}
                     THEN [call[c] EXCEPT !.pc = "sent", !.pair = refresh.got, !.again = TRUE] ELSE call[c]]
      BY <2>1 DEF W!Refreshed
    <3>2. \A c \in W!Call : [call[c] EXCEPT !.pc = "sent", !.pair = refresh.got, !.again = TRUE] \in Requested
      BY <1>1, AgainIs
    <3>. QED
      BY <1>1, <3>1, <3>2
  <2>2. CASE refresh.got = 0
    <3>1. call' = [c \in W!Call |-> IF c \in {d \in W!Call : call[d].pc = "refreshing"}
                     THEN W!Over(c, "failed") ELSE call[c]]
      BY <2>2 DEF W!Refreshed
    <3>. QED
      BY <1>1, <3>1, OverIs
  <2>. QED
    BY <2>1, <2>2
<1>3. ASSUME NEW c \in W!Call
      PROVE  /\ UpToDate(call[c])'
             /\ \A n \in Nat : AnswersWith(call[c], n) => AnswersWith(call'[c], n)
             /\ call'[c].pc = "shared" => call'[c] = call[c]
  <2>1. call[c] \in Requested /\ UpToDate(call[c])
    BY <1>1 DEF ReadsInv
  <2>2. CASE call'[c] = call[c]
    BY <1>1, <2>1, <2>2 DEF UpToDate, AnswersWith
  <2>3. CASE call[c].pc = "refreshing" /\ call'[c] = [call[c] EXCEPT !.pc = "sent", !.pair = refresh.got, !.again = TRUE]
    <3>1. /\ call'[c].pc = "sent" /\ call'[c].kind = call[c].kind /\ call'[c].floor = call[c].floor
          /\ call'[c].value = call[c].value
      BY <2>1, <2>3 DEF Requested
    <3>. QED
      BY <1>1, <2>1, <3>1 DEF UpToDate, AnswersWith
  <2>4. CASE call[c].pc = "refreshing" /\ call'[c] = W!Over(c, "failed")
    <3>1. /\ call'[c].pc = "failed" /\ call'[c].floor <= changed /\ call'[c].value <= data
          /\ call[c].kind = "read" => call'[c].kind = "read"
      BY <1>1, <2>1, <2>4, OverIs DEF UpToDate
    <3>. QED
      BY <1>1, <3>1 DEF UpToDate, AnswersWith
  <2>. QED
    BY <1>2, <2>2, <2>3, <2>4
<1>4. W!TypeOK'
  <2>1. cache' \subseteq W!Call /\ live \subseteq 1 .. issued
    BY <1>1 DEF ReadsInv, W!TypeOK
  <2>2. refresh' \in [of: 0 .. issued, got: 0 .. issued, done: BOOLEAN]
    BY <1>1, FreshIs
  <2>. QED
    BY <1>1, <1>2, <2>1, <2>2 DEF W!TypeOK, Requested
<1>5. SharedAnswers'
  <2>. SUFFICES ASSUME NEW b \in W!Call, call'[b].pc = "shared", NEW d \in call'[b].on
                PROVE  AnswersWith(call'[d], call'[b].floor)
    BY DEF SharedAnswers, AnswersWith
  <2>1. call'[b] = call[b] /\ d \in W!Call /\ call[b].floor \in Nat /\ AnswersWith(call[d], call[b].floor)
    BY <1>1, <1>3 DEF ReadsInv, SharedAnswers, Requested
  <2>. QED
    BY <1>3, <2>1
<1>6. CachedAnswers'
  <2>1. \A d \in cache' : d \in W!Call /\ AnswersWith(call[d], changed)
    BY <1>1 DEF ReadsInv, CachedAnswers, W!TypeOK
  <2>2. \A d \in cache' : AnswersWith(call'[d], changed)
    BY <1>1, <1>3, <2>1
  <2>. QED
    BY <1>1, <2>2 DEF CachedAnswers, AnswersWith
<1>. QED
  BY <1>1, <1>3, <1>4, <1>5, <1>6 DEF ReadsInv

(* Every step keeps the invariant. *)
LEMMA ReadsStep == ReadsInv /\ [W!Next]_W!web => ReadsInv'
<1>1. ASSUME ReadsInv, UNCHANGED W!web
      PROVE  ReadsInv'
  BY <1>1 DEF ReadsInv, W!web, W!TypeOK, UpToDate, SharedAnswers, CachedAnswers, AnswersWith
<1>. QED
  BY <1>1, AskStep, AnswerStep, ReceiveStep, TokenStep, RefreshedStep DEF W!Next

(* WebClient: the invariant holds in every reachable state. *)
LEMMA ReadsAlways == W!Spec => []ReadsInv
BY ReadsInit, ReadsStep, PTL DEF W!Spec

(* A change made through request() empties the cache and starts no read    *)
(* that was asked for before: whatever a tab reads shows every such change *)
(* of its own that had been answered, however reads are shared, cached and *)
(* sent again with new tokens, and whatever uploads and files do.          *)
THEOREM TabReadsRequestChanges == W!Spec => []ReadsRequestChanges
<1>1. ReadsInv => ReadsRequestChanges
  BY DEF ReadsInv, UpToDate, ReadsRequestChanges, W!ReadsRequestChanges
<1>. QED
  BY <1>1, ReadsAlways, PTL
-----------------------------------------------------------------------------
(* The bounds that Accounts counts to. *)
LEMMA MailBounds == MaxMails \in Nat
BY ServicesAssumption

(* Accounts calls Cardinality what FiniteSets does.                        *)
LEMMA CardinalityIs == \A S : C!Cardinality(S) = Cardinality(S)
BY DEF C!Cardinality, Cardinality, C!IsFiniteSet, IsFiniteSet

(* A set of which any two members are the same has at most one. *)
LEMMA AtMostOne ==
  ASSUME NEW S, \A x, y \in S : x = y
  PROVE  Cardinality(S) <= 1
<1>1. CASE S = {}
  BY <1>1, FS_EmptySet
<1>2. CASE S # {}
  <2>1. PICK x \in S : S = {x}
    BY <1>2
  <2>. QED
    BY <2>1, FS_Singleton
<1>. QED
  BY <1>1, <1>2
-----------------------------------------------------------------------------
(* Accounts.  Besides the types: no two rows have one address; and how far *)
(* a registration has come says which of its two rows there are, whose     *)
(* address and role are those it was asked for.                            *)
CodeWasMailed(s) == \E i \in 1 .. Len(codes) : s \in codes[i]

Settles(s) ==
  /\ account[s].there =>
       /\ account[s].email = signup[s].email /\ account[s].role = signup[s].role
       /\ signup[s].pc \notin {"new", "create", "refused"}
  /\ entry[s].there =>
       /\ entry[s].email = signup[s].email /\ entry[s].role = signup[s].role
       /\ signup[s].pc \notin {"new", "create", "refused", "provision"}
  /\ signup[s].pc \in {"provision", "compensate", "provisioned", "done"} => account[s].there
  /\ signup[s].pc \in {"provisioned", "done"} => entry[s].there
  /\ signup[s].pc = "failed" /\ s \notin broken => ~account[s].there
  /\ account[s].verified => account[s].there /\ (signup[s].trusted \/ CodeWasMailed(s))
  /\ entry[s].there /\ ~account[s].there => signup[s].pc = "failed"
  /\ verifying[s] # "no" => CodeWasMailed(s)
  /\ code[s] <= Len(codes)

OneOfEach ==
  \A s, t \in Signup :
    /\ account[s].there /\ account[t].there /\ account[s].email = account[t].email => s = t
    /\ entry[s].there /\ entry[t].there /\ entry[s].email = entry[t].email => s = t

AccountsInv == C!TypeOK /\ OneOfEach /\ \A s \in Signup : Settles(s)

AccountType == [there: BOOLEAN, email: Address \cup {C!Nobody}, role: C!Role, verified: BOOLEAN]
EntryType == [there: BOOLEAN, email: Address \cup {C!Nobody}, role: C!Role]
SignupType ==
  [pc: {"new", "create", "provision", "compensate", "provisioned", "done", "refused", "failed", "stopped"},
   email: Address \cup {C!Nobody}, role: C!Role, trusted: BOOLEAN]

(* Every initial state satisfies the invariant. *)
LEMMA AccountsInit == C!Init => AccountsInv
<1>. SUFFICES ASSUME C!Init
              PROVE  AccountsInv
  OBVIOUS
<1>1. C!TypeOK
  BY MailBounds DEF C!Init, C!TypeOK, C!NoAccount, C!NoEntry, C!Unasked, C!Role
<1>2. \A s \in Signup : Settles(s)
  BY DEF C!Init, Settles, C!NoAccount, C!NoEntry, C!Unasked
<1>3. OneOfEach
  BY DEF C!Init, OneOfEach, C!NoAccount, C!NoEntry
<1>. QED
  BY <1>1, <1>2, <1>3 DEF AccountsInv

(* One registration goes on, or its rows change: the others notice nothing *)
(* of it, and no address gets a second row.                                *)
LEMMA AccountGoes ==
  ASSUME AccountsInv, NEW s \in Signup, C!TypeOK', Settles(s)',
         \A t \in Signup \ {s} :
           /\ account'[t] = account[t] /\ entry'[t] = entry[t] /\ signup'[t] = signup[t] /\ code'[t] = code[t]
           /\ t \in broken => t \in broken'
           /\ verifying'[t] = verifying[t],
         Len(codes) <= Len(codes'), \A i \in 1 .. Len(codes) : codes[i] \subseteq codes'[i],
         account'[s].there => \/ account[s].there /\ account'[s].email = account[s].email
                              \/ C!Registered(account'[s].email) = {},
         entry'[s].there => \/ entry[s].there /\ entry'[s].email = entry[s].email
                            \/ C!Listed(entry'[s].email) = {}
  PROVE  AccountsInv'
<1>1. Len(codes) \in Nat /\ Len(codes') \in Nat /\ \A t \in Signup : code[t] \in Nat
  BY MailBounds DEF AccountsInv, C!TypeOK
<1>2. \A t \in Signup : CodeWasMailed(t) => CodeWasMailed(t)'
  BY <1>1 DEF CodeWasMailed
<1>3. \A t \in Signup \ {s} : Settles(t)'
  BY <1>1, <1>2 DEF AccountsInv, Settles
<1>4. OneOfEach'
  <2>. SUFFICES ASSUME NEW t \in Signup, NEW u \in Signup
                PROVE  /\ account'[t].there /\ account'[u].there /\ account'[t].email = account'[u].email => t = u
                       /\ entry'[t].there /\ entry'[u].there /\ entry'[t].email = entry'[u].email => t = u
    BY DEF OneOfEach
  <2>1. \A v \in Signup \ {s} : account'[s].there /\ account[v].there => account'[s].email # account[v].email
    BY DEF AccountsInv, OneOfEach, C!Registered
  <2>2. \A v \in Signup \ {s} : entry'[s].there /\ entry[v].there => entry'[s].email # entry[v].email
    BY DEF AccountsInv, OneOfEach, C!Listed
  <2>. QED
    BY <2>1, <2>2 DEF AccountsInv, OneOfEach
<1>. QED
  BY <1>3, <1>4 DEF AccountsInv

(* Only what a registration is doing changes, or codes and marks.          *)
LEMMA SignupGoes ==
  ASSUME AccountsInv, NEW s \in Signup, NEW q \in SignupType, signup' = [signup EXCEPT ![s] = q],
         UNCHANGED <<account, entry, code, resent, verifying, posting, codes>>,
         broken' \in SUBSET Signup, broken \subseteq broken',
         /\ account[s].there => /\ account[s].email = q.email /\ account[s].role = q.role
                                /\ q.pc \notin {"new", "create", "refused"}
         /\ entry[s].there => /\ entry[s].email = q.email /\ entry[s].role = q.role
                              /\ q.pc \notin {"new", "create", "refused", "provision"}
         /\ q.pc \in {"provision", "compensate", "provisioned", "done"} => account[s].there
         /\ q.pc \in {"provisioned", "done"} => entry[s].there
         /\ q.pc = "failed" /\ s \notin broken' => ~account[s].there
         /\ q.trusted = signup[s].trusted \/ ~account[s].there
         /\ entry[s].there /\ ~account[s].there => q.pc = "failed"
  PROVE  AccountsInv'
<1>1. signup \in [Signup -> SignupType]
  BY DEF AccountsInv, C!TypeOK, SignupType
<1>2. \A t \in Signup : signup'[t] = IF t = s THEN q ELSE signup[t]
  BY <1>1
<1>3. C!TypeOK'
  BY <1>1 DEF AccountsInv, C!TypeOK, SignupType
<1>4. Settles(s)'
  BY <1>2 DEF AccountsInv, Settles, CodeWasMailed
<1>5. Len(codes) \in Nat
  BY DEF AccountsInv, C!TypeOK
<1>. QED
  BY <1>2, <1>3, <1>4, <1>5, AccountGoes

(* A registration is asked for, goes on or stops.                          *)
LEMMA SignupStep ==
  ASSUME AccountsInv, NEW s \in Signup,
         \/ \E a \in Address : C!Register(s, a) \/ C!RegisterAdmin(s, a)
         \/ C!SkipCode(s) \/ C!Stop(s)
  PROVE  AccountsInv'
<1>1. /\ signup \in [Signup -> SignupType] /\ signup[s] \in SignupType /\ Settles(s) /\ broken \in SUBSET Signup
      /\ UNCHANGED <<account, entry, code, resent, verifying, posting, codes>>
  BY DEF C!Register, C!RegisterAdmin, C!SkipCode, C!Stop, AccountsInv, C!TypeOK, SignupType
<1>2. ASSUME NEW a \in Address, C!Register(s, a) \/ C!RegisterAdmin(s, a)
      PROVE  AccountsInv'
  <2>1. broken' = broken /\ ~account[s].there /\ ~entry[s].there
    BY <1>1, <1>2 DEF C!Register, C!RegisterAdmin, C!Unasked, Settles
  <2>2. PICK q \in SignupType :
          signup' = [signup EXCEPT ![s] = q] /\ q.pc \in {"create", "refused"}
    <3>1. CASE C!Register(s, a)
      <4>. DEFINE q == [pc |-> IF C!Registered(a) = {} THEN "create" ELSE "refused",
                        email |-> a, role |-> "EMPLOYEE", trusted |-> FALSE]
      <4>1. q \in SignupType /\ q.pc \in {"create", "refused"}
        BY DEF SignupType, C!Role
      <4>2. signup' = [signup EXCEPT ![s] = q]
        BY <3>1 DEF C!Register
      <4>. QED
        BY <4>1, <4>2
    <3>2. CASE C!RegisterAdmin(s, a)
      <4>1. PICK role \in C!Role :
              signup' = [signup EXCEPT ![s] = [pc |-> "create", email |-> a, role |-> role, trusted |-> TRUE]]
        BY <3>2 DEF C!RegisterAdmin
      <4>2. [pc |-> "create", email |-> a, role |-> role, trusted |-> TRUE] \in SignupType
        BY DEF SignupType
      <4>. QED
        BY <4>1, <4>2
    <3>. QED
      BY <1>2, <3>1, <3>2
  <2>. QED
    BY <1>1, <2>1, <2>2, SignupGoes
<1>3. CASE C!SkipCode(s)
  <2>. DEFINE q == [signup[s] EXCEPT !.pc = "done"]
  <2>1. /\ q \in SignupType /\ q.pc = "done" /\ q.email = signup[s].email /\ q.role = signup[s].role
        /\ q.trusted = signup[s].trusted
    BY <1>1 DEF SignupType
  <2>2. signup' = [signup EXCEPT ![s] = q] /\ signup[s].pc = "provisioned" /\ broken' = broken
    BY <1>1, <1>3 DEF C!SkipCode, C!Reach
  <2>. HIDE DEF q
  <2>. QED
    BY <1>1, <2>1, <2>2, SignupGoes DEF Settles
<1>4. CASE C!Stop(s)
  <2>. DEFINE q == [signup[s] EXCEPT !.pc = "stopped"]
  <2>1. /\ q \in SignupType /\ q.pc = "stopped" /\ q.email = signup[s].email /\ q.role = signup[s].role
        /\ q.trusted = signup[s].trusted
    BY <1>1 DEF SignupType
  <2>2. /\ signup' = [signup EXCEPT ![s] = q] /\ broken' = broken \cup {s}
        /\ signup[s].pc \in {"create", "provision", "compensate", "provisioned"}
    BY <1>1, <1>4 DEF C!Stop, C!Reach
  <2>. HIDE DEF q
  <2>. QED
    BY <1>1, <2>1, <2>2, SignupGoes DEF Settles
<1>. QED
  BY <1>2, <1>3, <1>4

(* The first of the two rows.                                              *)
LEMMA CreateAccountStep ==
  ASSUME AccountsInv, NEW s \in Signup, C!CreateAccount(s)
  PROVE  AccountsInv'
<1>1. /\ signup \in [Signup -> SignupType] /\ signup[s] \in SignupType /\ Settles(s) /\ broken \in SUBSET Signup
      /\ UNCHANGED <<entry, code, resent, verifying, posting, codes, broken>> /\ signup[s].pc = "create"
      /\ account \in [Signup -> AccountType] /\ Len(codes) \in Nat
  BY DEF C!CreateAccount, AccountsInv, C!TypeOK, SignupType, AccountType
<1>2. CASE C!Registered(signup[s].email) = {}
  <2>. DEFINE q == [signup[s] EXCEPT !.pc = "provision"]
              a == [there |-> TRUE, email |-> signup[s].email, role |-> signup[s].role,
                    verified |-> signup[s].trusted]
  <2>1. /\ q \in SignupType /\ q.pc = "provision" /\ q.email = signup[s].email /\ q.role = signup[s].role
        /\ q.trusted = signup[s].trusted
    BY <1>1 DEF SignupType
  <2>2. /\ a \in AccountType /\ a.email = signup[s].email /\ a.role = signup[s].role
        /\ a.verified = signup[s].trusted /\ a.there
    BY <1>1 DEF SignupType, AccountType
  <2>3. signup' = [signup EXCEPT ![s] = q] /\ account' = [account EXCEPT ![s] = a]
    BY <1>1, <1>2 DEF C!CreateAccount, C!Reach
  <2>. HIDE DEF q, a
  <2>4. /\ signup'[s] = q /\ account'[s] = a
        /\ \A t \in Signup \ {s} : signup'[t] = signup[t] /\ account'[t] = account[t]
    BY <1>1, <2>3
  <2>5. C!TypeOK'
    BY <1>1, <2>1, <2>2, <2>3 DEF AccountsInv, C!TypeOK, AccountType, SignupType
  <2>6. Settles(s)'
    BY <1>1, <2>1, <2>2, <2>4 DEF Settles, CodeWasMailed
  <2>. QED
    BY <1>1, <1>2, <2>2, <2>4, <2>5, <2>6, AccountGoes
<1>3. CASE C!Registered(signup[s].email) # {}
  <2>. DEFINE q == [signup[s] EXCEPT !.pc = "refused"]
  <2>1. q \in SignupType /\ q.pc = "refused" /\ q.trusted = signup[s].trusted
    BY <1>1 DEF SignupType
  <2>2. signup' = [signup EXCEPT ![s] = q] /\ account' = account
    BY <1>1, <1>3 DEF C!CreateAccount, C!Reach
  <2>. HIDE DEF q
  <2>. QED
    BY <1>1, <2>1, <2>2, SignupGoes DEF Settles
<1>. QED
  BY <1>2, <1>3

(* The second, and what comes of a failure.                                *)
LEMMA ProvisionStep ==
  ASSUME AccountsInv, NEW s \in Signup, C!ProvisionUser(s)
  PROVE  AccountsInv'
<1>1. /\ signup \in [Signup -> SignupType] /\ signup[s] \in SignupType /\ Settles(s) /\ broken \in SUBSET Signup
      /\ UNCHANGED <<account, code, resent, verifying, posting, codes, broken>> /\ signup[s].pc = "provision"
      /\ entry \in [Signup -> EntryType] /\ Len(codes) \in Nat
  BY DEF C!ProvisionUser, AccountsInv, C!TypeOK, SignupType, EntryType
<1>2. PICK pc \in {"provisioned", "compensate"} : C!Reach(s, pc) /\ (C!CreateUser(s) \/ (pc = "compensate" /\ entry' = entry))
  BY DEF C!ProvisionUser
<1>. DEFINE q == [signup[s] EXCEPT !.pc = pc]
            e == [there |-> TRUE, email |-> signup[s].email, role |-> signup[s].role]
<1>3. /\ q \in SignupType /\ q.pc = pc /\ q.email = signup[s].email /\ q.role = signup[s].role
      /\ q.trusted = signup[s].trusted
  BY <1>1 DEF SignupType
<1>4. signup' = [signup EXCEPT ![s] = q]
  BY <1>1, <1>2 DEF C!Reach
<1>5. e \in EntryType /\ e.email = signup[s].email /\ e.role = signup[s].role /\ e.there
  BY <1>1 DEF SignupType, EntryType
<1>6. CASE C!CreateUser(s)
  <2>1. entry' = [entry EXCEPT ![s] = e] /\ C!Listed(signup[s].email) = {}
    BY <1>6 DEF C!CreateUser
  <2>. HIDE DEF q, e
  <2>2. /\ signup'[s] = q /\ entry'[s] = e
        /\ \A t \in Signup \ {s} : signup'[t] = signup[t] /\ entry'[t] = entry[t]
    BY <1>1, <1>4, <2>1
  <2>3. C!TypeOK'
    BY <1>1, <1>3, <1>4, <1>5, <2>1 DEF AccountsInv, C!TypeOK, EntryType, SignupType
  <2>4. Settles(s)'
    BY <1>1, <1>3, <1>5, <2>2 DEF Settles, CodeWasMailed
  <2>. QED
    BY <1>1, <1>5, <2>1, <2>2, <2>3, <2>4, AccountGoes
<1>7. CASE pc = "compensate" /\ entry' = entry
  <2>. HIDE DEF q
  <2>. QED
    BY <1>1, <1>3, <1>4, <1>7, SignupGoes DEF Settles
<1>. QED
  BY <1>2, <1>6, <1>7

(* The account is deleted again, or it is known that it was not.           *)
LEMMA CompensateStep ==
  ASSUME AccountsInv, NEW s \in Signup, C!Compensate(s)
  PROVE  AccountsInv'
<1>1. /\ signup \in [Signup -> SignupType] /\ signup[s] \in SignupType /\ Settles(s) /\ broken \in SUBSET Signup
      /\ UNCHANGED <<entry, code, resent, verifying, posting, codes>> /\ signup[s].pc = "compensate"
      /\ account \in [Signup -> AccountType] /\ Len(codes) \in Nat
  BY DEF C!Compensate, AccountsInv, C!TypeOK, SignupType, AccountType
<1>. DEFINE q == [signup[s] EXCEPT !.pc = "failed"]
<1>2. /\ q \in SignupType /\ q.pc = "failed" /\ q.email = signup[s].email /\ q.role = signup[s].role
      /\ q.trusted = signup[s].trusted
  BY <1>1 DEF SignupType
<1>3. signup' = [signup EXCEPT ![s] = q]
  BY <1>1 DEF C!Compensate, C!Reach
<1>. HIDE DEF q
<1>4. CASE account' = [account EXCEPT ![s] = C!NoAccount] /\ UNCHANGED broken
  <2>1. C!NoAccount \in AccountType /\ ~C!NoAccount.there /\ ~C!NoAccount.verified
    BY DEF C!NoAccount, AccountType, C!Role
  <2>2. /\ signup'[s] = q /\ account'[s] = C!NoAccount
        /\ \A t \in Signup \ {s} : signup'[t] = signup[t] /\ account'[t] = account[t]
    BY <1>1, <1>3, <1>4
  <2>3. C!TypeOK'
    BY <1>1, <1>2, <1>3, <1>4, <2>1 DEF AccountsInv, C!TypeOK, AccountType, SignupType
  <2>4. Settles(s)'
    BY <1>1, <1>2, <1>4, <2>1, <2>2 DEF Settles, CodeWasMailed
  <2>. QED
    BY <1>1, <1>4, <2>1, <2>2, <2>3, <2>4, AccountGoes
<1>5. CASE broken' = broken \cup {s} /\ UNCHANGED account
  BY <1>1, <1>2, <1>3, <1>5, SignupGoes DEF Settles
<1>. QED
  BY <1>4, <1>5 DEF C!Compensate

(* Codes are sent and used, and forgotten.                                 *)
LEMMA IssueIs ==
  ASSUME AccountsInv, NEW s \in Signup, C!IssueVerifyOtp(s) \/ UNCHANGED <<code, codes, posting>>
  PROVE  /\ codes' \in Seq(SUBSET Signup) /\ Len(codes') <= MaxMails /\ Len(codes) <= Len(codes')
         /\ \A i \in 1 .. Len(codes) : codes'[i] = codes[i]
         /\ code' \in [Signup -> 0 .. MaxMails] /\ code'[s] <= Len(codes')
         /\ \A t \in Signup \ {s} : code'[t] = code[t]
         /\ Len(codes) \in Nat /\ Len(codes') \in Nat
         /\ posting' \subseteq Signup \X (1 .. Len(codes'))
<1>1. /\ codes \in Seq(SUBSET Signup) /\ Len(codes) <= MaxMails /\ MaxMails \in Nat
      /\ code \in [Signup -> 0 .. MaxMails] /\ posting \subseteq Signup \X (1 .. Len(codes))
      /\ code[s] <= Len(codes) /\ Len(codes) \in Nat
  BY MailBounds DEF AccountsInv, C!TypeOK, Settles
<1>2. CASE C!IssueVerifyOtp(s)
  <2>1. /\ Len(codes) < MaxMails /\ code' = [code EXCEPT ![s] = Len(codes) + 1]
        /\ codes' = Append(codes, {}) /\ posting' = posting \cup {<<s, Len(codes) + 1>>}
    BY <1>2 DEF C!IssueVerifyOtp
  <2>2. /\ codes' \in Seq(SUBSET Signup) /\ Len(codes') = Len(codes) + 1
        /\ \A i \in 1 .. Len(codes) : codes'[i] = codes[i]
    BY <1>1, <2>1
  <2>3. posting' \subseteq Signup \X (1 .. Len(codes'))
    BY <1>1, <2>1, <2>2
  <2>. QED
    BY <1>1, <2>1, <2>2, <2>3
<1>3. CASE UNCHANGED <<code, codes, posting>>
  BY <1>1, <1>3
<1>. QED
  BY <1>2, <1>3

(* A code is issued, the first or another. *)
LEMMA CodeStep ==
  ASSUME AccountsInv, NEW s \in Signup, C!SendCode(s) \/ C!ResendOtp(s)
  PROVE  AccountsInv'
<1>1. /\ signup \in [Signup -> SignupType] /\ signup[s] \in SignupType /\ Settles(s)
      /\ UNCHANGED <<account, entry, resent, verifying, broken>>
      /\ C!IssueVerifyOtp(s) \/ UNCHANGED <<code, codes, posting>>
  BY DEF C!SendCode, C!ResendOtp, AccountsInv, C!TypeOK, SignupType
<1>2. /\ codes' \in Seq(SUBSET Signup) /\ Len(codes') <= MaxMails /\ Len(codes) <= Len(codes')
      /\ \A i \in 1 .. Len(codes) : codes'[i] = codes[i]
      /\ code' \in [Signup -> 0 .. MaxMails] /\ code'[s] <= Len(codes')
      /\ \A t \in Signup \ {s} : code'[t] = code[t]
      /\ Len(codes) \in Nat /\ Len(codes') \in Nat
      /\ posting' \subseteq Signup \X (1 .. Len(codes'))
  BY <1>1, IssueIs
<1>3. CodeWasMailed(s) => CodeWasMailed(s)'
  BY <1>2 DEF CodeWasMailed
<1>4. PICK q \in SignupType :
        /\ signup' = [signup EXCEPT ![s] = q]
        /\ q.email = signup[s].email /\ q.role = signup[s].role /\ q.trusted = signup[s].trusted
        /\ q.pc = signup[s].pc \/ (signup[s].pc = "provisioned" /\ q.pc = "done")
  <2>1. CASE C!SendCode(s)
    <3>. DEFINE q == [signup[s] EXCEPT !.pc = "done"]
    <3>1. /\ q \in SignupType /\ q.email = signup[s].email /\ q.role = signup[s].role /\ q.pc = "done"
          /\ q.trusted = signup[s].trusted
      BY <1>1 DEF SignupType
    <3>2. signup' = [signup EXCEPT ![s] = q] /\ signup[s].pc = "provisioned"
      BY <1>1, <2>1 DEF C!SendCode, C!Reach
    <3>. HIDE DEF q
    <3>. QED
      BY <3>1, <3>2
  <2>2. CASE C!ResendOtp(s)
    BY <1>1, <2>2 DEF C!ResendOtp
  <2>. QED
    BY <1>1, <2>1, <2>2
<1>5. signup'[s] = q /\ \A t \in Signup \ {s} : signup'[t] = signup[t]
  BY <1>1, <1>4
<1>6. C!TypeOK'
  BY <1>1, <1>2, <1>4 DEF AccountsInv, C!TypeOK, SignupType
<1>7. Settles(s)'
  BY <1>1, <1>2, <1>3, <1>4, <1>5 DEF Settles
<1>. QED
  BY <1>1, <1>2, <1>5, <1>6, <1>7, AccountGoes

(* A stored code is mailed, and a next one put off, or it is given up.     *)
LEMMA PostStep ==
  ASSUME AccountsInv, NEW s \in Signup, NEW n \in 1 .. MaxMails,
         C!SendMail(s, n) \/ C!PutOff(s, n) \/ C!GiveUpPosting(s, n)
  PROVE  AccountsInv'
<1>1. /\ Settles(s) /\ UNCHANGED <<account, entry, signup, code, verifying, broken>>
      /\ codes \in Seq(SUBSET Signup) /\ Len(codes) \in Nat /\ Len(codes) <= MaxMails
      /\ resent \in SUBSET Signup /\ posting \subseteq Signup \X (1 .. Len(codes))
  BY DEF C!SendMail, C!PutOff, C!GiveUpPosting, AccountsInv, C!TypeOK
<1>2. /\ codes' \in Seq(SUBSET Signup) /\ Len(codes') = Len(codes)
      /\ \A i \in 1 .. Len(codes) : codes[i] \subseteq codes'[i]
  <2>1. CASE C!SendMail(s, n)
    <3>1. n \in 1 .. Len(codes) /\ codes' = [codes EXCEPT ![n] = codes[n] \cup {s}]
      BY <1>1, <2>1 DEF C!SendMail
    <3>. QED
      BY <1>1, <3>1
  <2>2. CASE C!PutOff(s, n) \/ C!GiveUpPosting(s, n)
    BY <1>1, <2>2 DEF C!PutOff, C!GiveUpPosting
  <2>. QED
    BY <2>1, <2>2
<1>3. resent' \in SUBSET Signup /\ posting' \subseteq posting
  BY <1>1 DEF C!SendMail, C!PutOff, C!GiveUpPosting
<1>4. C!TypeOK'
  BY <1>1, <1>2, <1>3 DEF AccountsInv, C!TypeOK
<1>5. CodeWasMailed(s) => CodeWasMailed(s)'
  BY <1>2 DEF CodeWasMailed
<1>6. Settles(s)'
  BY <1>1, <1>2, <1>5 DEF Settles
<1>. QED
  BY <1>1, <1>2, <1>4, <1>6, AccountGoes

(* A code is seen by whoever it was mailed to, or expires, or is deleted   *)
(* when it has been used.                                                  *)
LEMMA KeyStep ==
  ASSUME AccountsInv, NEW s \in Signup,
         C!SeeCode(s) \/ C!ForgetCode(s) \/ C!ForgetResend(s) \/ C!ExpireResend(s) \/ C!ExpireCode(s)
  PROVE  AccountsInv'
<1>1. /\ Settles(s) /\ UNCHANGED <<account, entry, signup, posting, codes, broken>>
      /\ codes \in Seq(SUBSET Signup) /\ Len(codes) \in Nat /\ code \in [Signup -> 0 .. MaxMails] /\ MaxMails \in Nat
      /\ code[s] \in Nat /\ code[s] <= Len(codes)
      /\ verifying \in [Signup -> {"no", "update", "code", "resend"}]
  BY MailBounds DEF C!SeeCode, C!ForgetCode, C!ForgetResend, C!ExpireResend, C!ExpireCode, AccountsInv, C!TypeOK, Settles
<1>2. resent' \subseteq resent
  BY DEF C!SeeCode, C!ForgetCode, C!ForgetResend, C!ExpireResend, C!ExpireCode
<1>3. code' = code \/ code' = [code EXCEPT ![s] = 0]
  BY DEF C!SeeCode, C!ForgetCode, C!ForgetResend, C!ExpireResend, C!ExpireCode
<1>4. /\ code' \in [Signup -> 0 .. MaxMails] /\ code'[s] <= Len(codes)
      /\ \A t \in Signup \ {s} : code'[t] = code[t]
  BY <1>1, <1>3
<1>5. PICK v \in {"no", "update", "code", "resend"} :
        /\ verifying' = [verifying EXCEPT ![s] = v]
        /\ v # "no" => CodeWasMailed(s)
  <2>1. CASE C!SeeCode(s)
    <3>1. CodeWasMailed(s)
      BY <1>1, <2>1 DEF C!SeeCode, CodeWasMailed
    <3>. QED
      BY <2>1, <3>1 DEF C!SeeCode
  <2>2. CASE C!ForgetCode(s)
    BY <1>1, <2>2 DEF C!ForgetCode, Settles
  <2>3. CASE C!ForgetResend(s)
    BY <2>3 DEF C!ForgetResend
  <2>4. CASE C!ExpireResend(s) \/ C!ExpireCode(s)
    <3>1. verifying' = [verifying EXCEPT ![s] = verifying[s]]
      BY <1>1, <2>4 DEF C!ExpireResend, C!ExpireCode
    <3>. QED
      BY <1>1, <3>1 DEF Settles
  <2>. QED
    BY <2>1, <2>2, <2>3, <2>4
<1>6. verifying'[s] = v /\ \A t \in Signup \ {s} : verifying'[t] = verifying[t]
  BY <1>1, <1>5
<1>7. C!TypeOK'
  BY <1>1, <1>2, <1>4, <1>5 DEF AccountsInv, C!TypeOK
<1>8. CodeWasMailed(s)' <=> CodeWasMailed(s)
  BY <1>1 DEF CodeWasMailed
<1>9. Settles(s)'
  BY <1>1, <1>4, <1>5, <1>6, <1>8 DEF Settles
<1>. QED
  BY <1>1, <1>4, <1>6, <1>7, <1>9, AccountGoes

(* Whoever was seen to know the code is verified. *)
LEMMA VerifyStep ==
  ASSUME AccountsInv, NEW s \in Signup, C!VerifyEmail(s)
  PROVE  AccountsInv'
<1>1. /\ Settles(s) /\ UNCHANGED <<entry, signup, code, resent, posting, codes, broken>>
      /\ verifying[s] = "update" /\ Len(codes) \in Nat
      /\ account \in [Signup -> AccountType] /\ account[s] \in AccountType
      /\ verifying \in [Signup -> {"no", "update", "code", "resend"}]
  BY DEF C!VerifyEmail, AccountsInv, C!TypeOK, AccountType
<1>2. PICK v \in {"no", "code"} : verifying' = [verifying EXCEPT ![s] = v]
  BY DEF C!VerifyEmail
<1>3. verifying'[s] = v /\ \A t \in Signup \ {s} : verifying'[t] = verifying[t]
  BY <1>1, <1>2
<1>4. CodeWasMailed(s) /\ CodeWasMailed(s)'
  BY <1>1 DEF Settles, CodeWasMailed
<1>5. CASE account[s].there
  <2>. DEFINE a == [account[s] EXCEPT !.verified = TRUE]
  <2>1. /\ a \in AccountType /\ a.there /\ a.email = account[s].email /\ a.role = account[s].role
    BY <1>1, <1>5 DEF AccountType
  <2>2. account' = [account EXCEPT ![s] = a]
    BY <1>1, <1>5 DEF C!VerifyEmail
  <2>. HIDE DEF a
  <2>3. account'[s] = a /\ \A t \in Signup \ {s} : account'[t] = account[t]
    BY <1>1, <2>2
  <2>4. C!TypeOK'
    BY <1>1, <1>2, <2>1, <2>2 DEF AccountsInv, C!TypeOK, AccountType
  <2>5. Settles(s)'
    BY <1>1, <1>3, <1>4, <1>5, <2>1, <2>3 DEF Settles
  <2>. QED
    BY <1>1, <1>3, <1>5, <2>1, <2>3, <2>4, <2>5, AccountGoes
<1>6. CASE ~account[s].there
  <2>1. account' = account
    BY <1>6 DEF C!VerifyEmail
  <2>2. C!TypeOK'
    BY <1>1, <1>2, <2>1 DEF AccountsInv, C!TypeOK
  <2>3. Settles(s)'
    BY <1>1, <1>3, <1>4, <2>1 DEF Settles
  <2>. QED
    BY <1>1, <1>3, <1>6, <2>1, <2>2, <2>3, AccountGoes
<1>. QED
  BY <1>5, <1>6

(* Every step keeps the invariant. *)
LEMMA AccountsStep == AccountsInv /\ [C!Next]_C!accounts => AccountsInv'
<1>1. ASSUME AccountsInv, UNCHANGED C!accounts
      PROVE  AccountsInv'
  BY <1>1 DEF AccountsInv, C!accounts, C!TypeOK, OneOfEach, Settles, CodeWasMailed
<1>. QED
  BY <1>1, SignupStep, CreateAccountStep, ProvisionStep, CompensateStep, CodeStep, PostStep, KeyStep, VerifyStep
     DEF C!Next

(* Accounts: the invariant holds in every reachable state. *)
LEMMA AccountsAlways == C!Spec => []AccountsInv
BY AccountsInit, AccountsStep, PTL DEF C!Spec

(* register writes in two databases and takes the first write back when    *)
(* the second fails, or only its answer does.  No two rows have one        *)
(* address; no account stays that the directory does not know, unless the  *)
(* process stopped or taking it back failed; and an entry may stay alone,  *)
(* of a registration that was answered with a failure.                     *)
THEOREM AccountsAreListed == C!Spec => []NoAccountAlone
<1>1. AccountsInv => C!NoAccountAlone
  <2>. SUFFICES ASSUME AccountsInv
                PROVE  C!NoAccountAlone
    OBVIOUS
  <2>1. ASSUME NEW a \in Address
        PROVE  C!Cardinality(C!Registered(a)) <= 1 /\ C!Cardinality(C!Listed(a)) <= 1
    <3>1. \A s, t \in C!Registered(a) : s = t
      BY DEF AccountsInv, OneOfEach, C!Registered
    <3>2. \A s, t \in C!Listed(a) : s = t
      BY DEF AccountsInv, OneOfEach, C!Listed
    <3>. QED
      BY <3>1, <3>2, AtMostOne, CardinalityIs
  <2>2. ASSUME NEW s \in Signup
        PROVE  /\ s \notin broken => /\ signup[s].pc = "done" =>
                                         /\ account[s].there /\ entry[s].there
                                         /\ account[s].email = entry[s].email /\ account[s].role = entry[s].role
                                     /\ signup[s].pc \in {"refused", "failed"} => ~account[s].there
               /\ entry[s].there /\ ~account[s].there => signup[s].pc = "failed"
               /\ account[s].verified => signup[s].trusted \/ \E i \in DOMAIN codes : s \in codes[i]
    <3>1. Settles(s) /\ DOMAIN codes = 1 .. Len(codes)
      BY DEF AccountsInv, C!TypeOK
    <3>. QED
      BY <3>1 DEF Settles, CodeWasMailed
  <2>. QED
    BY <2>1, <2>2 DEF C!NoAccountAlone
<1>. QED
  BY <1>1, AccountsAlways, PTL DEF NoAccountAlone
-----------------------------------------------------------------------------
(* The bounds and names of Gateway. *)
LEMMA GateBounds ==
  /\ MaxTime \in Nat /\ MaxRequests \in Nat /\ Window \in Nat /\ OverviewTtl \in Nat /\ MaxArrivals \in Nat
  /\ "org" \notin User /\ "none" \notin User /\ G!Nobody \notin User
BY ServicesAssumption DEF Nobody, G!Nobody

(* Gateway calls Cardinality what FiniteSets does. *)
LEMMA GateCardinality == \A S : G!Cardinality(S) = Cardinality(S)
BY DEF G!Cardinality, Cardinality, G!IsFiniteSet, IsFiniteSet
-----------------------------------------------------------------------------
(* Gateway, the limit.  Whatever was admitted and is not too old is in the *)
(* bucket, so that what the limit counts is at least what any window that  *)
(* has not ended contains.                                                 *)
InWindow(o, t) == {r \in admitted[o] : arrival[r] \in t .. t + Window}

RateType ==
  /\ clock \in 0 .. MaxTime
  /\ bucket \in [Origin -> SUBSET G!Request] /\ admitted \in [Origin -> SUBSET G!Request]
  /\ arrival \in [G!Request -> 0 .. MaxTime]

RateInv ==
  /\ RateType
  /\ \A o \in Origin : \A r \in admitted[o] :
       /\ request[r].pc # "new" /\ arrival[r] <= clock
       /\ arrival[r] + Window >= clock => r \in bucket[o]
  /\ \A o \in Origin, t \in 0 .. MaxTime : Cardinality(InWindow(o, t)) <= MaxRequests

(* Sets of requests can be counted. *)
LEMMA RequestsAreFinite == \A S \in SUBSET G!Request : IsFiniteSet(S)
<1>1. IsFiniteSet(1 .. MaxArrivals)
  BY GateBounds, FS_Interval
<1>. QED
  BY <1>1, FS_Subset DEF G!Request

(* Every initial state satisfies the invariant. *)
LEMMA RateInit == G!Init => RateInv
<1>. SUFFICES ASSUME G!Init
              PROVE  RateInv
  OBVIOUS
<1>1. RateType /\ \A o \in Origin : admitted[o] = {}
  BY GateBounds DEF G!Init, RateType
<1>2. \A o \in Origin, t \in 0 .. MaxTime : InWindow(o, t) = {}
  BY <1>1 DEF InWindow
<1>. QED
  BY <1>1, <1>2, FS_EmptySet, GateBounds DEF RateInv

(* Nothing is admitted, and what goes from a bucket is too old.            *)
LEMMA NothingAdmitted ==
  ASSUME RateInv, UNCHANGED <<arrival, admitted>>, clock' \in clock .. MaxTime,
         bucket' \in [Origin -> SUBSET G!Request],
         \A o \in Origin : G!Prune(bucket[o]) \subseteq bucket'[o],
         \A r \in G!Request : request[r].pc # "new" => request'[r].pc # "new"
  PROVE  RateInv'
<1>1. clock' \in 0 .. MaxTime /\ clock \in Nat /\ clock' \in Nat /\ clock <= clock'
  BY GateBounds DEF RateInv, RateType
<1>2. RateType'
  BY <1>1 DEF RateInv, RateType
<1>3. ASSUME NEW o \in Origin, NEW r \in admitted[o]
      PROVE  /\ request'[r].pc # "new" /\ arrival[r] <= clock'
             /\ arrival[r] + Window >= clock' => r \in bucket'[o]
  <2>1. r \in G!Request /\ arrival[r] \in Nat
    BY GateBounds DEF RateInv, RateType
  <2>2. arrival[r] + Window >= clock' => r \in G!Prune(bucket[o])
    BY <1>1, <2>1, GateBounds DEF RateInv, G!Prune
  <2>. QED
    BY <1>1, <2>1, <2>2 DEF RateInv
<1>4. \A o \in Origin, t \in 0 .. MaxTime : InWindow(o, t)' = InWindow(o, t)
  BY DEF InWindow
<1>. QED
  BY <1>2, <1>3, <1>4 DEF RateInv

(* A request is admitted: its own window has room for it.                  *)
LEMMA LimitKept ==
  ASSUME RateInv, NEW r \in G!Request, NEW o \in Origin, request[r].pc = "new", G!WithinLimit(o),
         bucket' = [bucket EXCEPT ![o] = G!Prune(@) \cup {r}],
         arrival' = [arrival EXCEPT ![r] = clock],
         admitted' = [admitted EXCEPT ![o] = @ \cup {r}],
         clock' = clock, \A q \in G!Request : request[q].pc # "new" \/ q = r => request'[q].pc # "new"
  PROVE  RateInv'
<1>1. /\ clock \in Nat /\ clock \in 0 .. MaxTime /\ bucket \in [Origin -> SUBSET G!Request]
      /\ admitted \in [Origin -> SUBSET G!Request] /\ arrival \in [G!Request -> 0 .. MaxTime]
      /\ G!Prune(bucket[o]) \subseteq G!Request
  BY GateBounds DEF RateInv, RateType, G!Prune
<1>2. \A p \in Origin : r \notin admitted[p]
  BY DEF RateInv
<1>3. \A p \in Origin : admitted'[p] = IF p = o THEN admitted[p] \cup {r} ELSE admitted[p]
  BY <1>1
<1>4. \A p \in Origin : bucket'[p] = IF p = o THEN G!Prune(bucket[p]) \cup {r} ELSE bucket[p]
  BY <1>1
<1>5. arrival'[r] = clock /\ \A q \in G!Request : q # r => arrival'[q] = arrival[q]
  BY <1>1
<1>6. RateType'
  BY <1>1 DEF RateInv, RateType
<1>7. ASSUME NEW p \in Origin, NEW q \in admitted'[p]
      PROVE  /\ request'[q].pc # "new" /\ arrival'[q] <= clock
             /\ arrival'[q] + Window >= clock => q \in bucket'[p]
  <2>1. CASE q = r
    BY <1>1, <1>2, <1>3, <1>4, <1>5, <2>1
  <2>2. CASE q # r
    <3>1. q \in admitted[p] /\ q \in G!Request /\ arrival'[q] = arrival[q]
      BY <1>1, <1>3, <1>5, <2>2
    <3>2. arrival[q] + Window >= clock => q \in G!Prune(bucket[p])
      BY <3>1 DEF RateInv, G!Prune
    <3>3. G!Prune(bucket[p]) \subseteq bucket[p]
      BY DEF G!Prune
    <3>. QED
      BY <1>4, <3>1, <3>2, <3>3 DEF RateInv
  <2>. QED
    BY <2>1, <2>2
<1>8. ASSUME NEW p \in Origin, NEW t \in 0 .. MaxTime
      PROVE  Cardinality(InWindow(p, t)') <= MaxRequests
  <2>1. \A q \in admitted[p] : q \in G!Request /\ arrival'[q] = arrival[q]
    BY <1>1, <1>2, <1>5
  <2>2. CASE p # o \/ clock \notin t .. t + Window
    <3>1. InWindow(p, t)' = InWindow(p, t)
      BY <1>3, <1>5, <2>1, <2>2 DEF InWindow
    <3>. QED
      BY <3>1 DEF RateInv
  <2>3. CASE p = o /\ clock \in t .. t + Window
    <3>1. InWindow(p, t)' = InWindow(p, t) \cup {r}
      <4>1. admitted'[p] = admitted[p] \cup {r}
        BY <1>3, <2>3
      <4>2. \A q \in admitted[p] : arrival'[q] = arrival[q]
        BY <2>1
      <4>3. arrival'[r] \in t .. t + Window
        BY <1>5, <2>3
      <4>. QED
        BY <4>1, <4>2, <4>3 DEF InWindow
    <3>2. InWindow(p, t) \subseteq G!Prune(bucket[o])
      <4>. SUFFICES ASSUME NEW q \in InWindow(p, t)
                    PROVE  q \in G!Prune(bucket[o])
        OBVIOUS
      <4>1. q \in admitted[o] /\ arrival[q] \in t .. t + Window /\ arrival[q] \in Nat
        BY <1>1, <2>1, <2>3, GateBounds DEF InWindow
      <4>2. arrival[q] + Window >= clock
        BY <1>1, <2>3, <4>1, GateBounds
      <4>. QED
        BY <4>1, <4>2 DEF RateInv, G!Prune
    <3>3. /\ IsFiniteSet(G!Prune(bucket[o])) /\ IsFiniteSet(InWindow(p, t))
          /\ Cardinality(G!Prune(bucket[o])) \in Nat /\ Cardinality(InWindow(p, t)) \in Nat
      BY <1>1, <3>2, RequestsAreFinite, FS_CardinalityType, FS_Subset
    <3>4. Cardinality(InWindow(p, t)) <= Cardinality(G!Prune(bucket[o]))
      BY <3>2, <3>3, FS_Subset
    <3>5. Cardinality(G!Prune(bucket[o])) < MaxRequests
      BY GateCardinality DEF G!WithinLimit
    <3>6. Cardinality(InWindow(p, t) \cup {r}) <= Cardinality(InWindow(p, t)) + 1
      <4>1. Cardinality(InWindow(p, t) \cup {r}) =
              IF r \in InWindow(p, t) THEN Cardinality(InWindow(p, t)) ELSE Cardinality(InWindow(p, t)) + 1
        BY <3>3, FS_AddElement, Zenon
      <4>2. Cardinality(InWindow(p, t)) <= Cardinality(InWindow(p, t)) + 1
        BY <3>3
      <4>. QED
        BY <3>3, <4>1, <4>2
    <3>7. Cardinality(InWindow(p, t) \cup {r}) \in Nat
      BY <3>3, FS_AddElement, FS_CardinalityType
    <3>. QED
      BY <3>1, <3>3, <3>4, <3>5, <3>6, <3>7, GateBounds
  <2>. QED
    BY <2>2, <2>3
<1>. QED
  BY <1>6, <1>7, <1>8 DEF RateInv
-----------------------------------------------------------------------------
(* Gateway, the overviews.  A request that waits does so for a build of    *)
(* its own key; so does whoever finds it in the cache; and a request that  *)
(* has not arrived has begun none.                                         *)
RequestType ==
  [pc: {"new", "upstream", "waiting", "answered"}, path: G!Path, who: User \cup {G!Nobody},
   names: User \cup {G!Nobody}, status: G!Status, build: SUBSET G!Request]
BuildType == [key: G!Key \cup {"none"}, begun: 0 .. MaxTime, state: {"none", "running", "done", "refused", "failed"}]
OverviewType == [build: SUBSET G!Request, until: 0 .. MaxTime + OverviewTtl]

HandType ==
  /\ clock \in 0 .. MaxTime
  /\ request \in [G!Request -> RequestType]
  /\ build \in [G!Request -> BuildType]
  /\ overview \in [G!Key -> OverviewType]

(* Whom a request may be handed the build b.                               *)
Entitled(q, b) ==
  /\ build[b].key = G!KeyOf(q.who, q.path)
  /\ build[b].key = "org" => q.who \in Admin
  /\ build[b].state # "none"

KeptFor(k, v) == \A b \in v.build :
  build[b].key = k /\ build[b].state \in {"running", "done"} /\ v.until = build[b].begun + OverviewTtl

HandInv ==
  /\ HandType
  /\ \A r \in G!Request : request[r].pc = "new" => build[r].state = "none"
  /\ \A r \in G!Request : request[r].pc = "waiting" => \E b \in request[r].build : Entitled(request[r], b)
  /\ \A k \in G!Key : KeptFor(k, overview[k])

(* What a request is that has not arrived, and a build that has not begun. *)
LEMMA FreshRequestIs ==
  /\ G!Fresh \in RequestType /\ G!Fresh.pc = "new"
  /\ G!NoBuild \in BuildType /\ G!NoBuild.state = "none"
  /\ G!NoOverview \in OverviewType /\ G!NoOverview.build = {}
BY GateBounds DEF G!Fresh, RequestType, G!Path, G!Status, G!NoBuild, BuildType, G!NoOverview, OverviewType

(* Every initial state satisfies the invariant. *)
LEMMA HandInit == G!Init => HandInv
<1>. SUFFICES ASSUME G!Init
              PROVE  HandInv
  OBVIOUS
<1>1. HandType
  BY FreshRequestIs, GateBounds DEF G!Init, HandType
<1>2. \A r \in G!Request : request[r].pc = "new" /\ build[r].state = "none"
  BY FreshRequestIs DEF G!Init
<1>3. \A k \in G!Key : KeptFor(k, overview[k])
  BY FreshRequestIs DEF G!Init, KeptFor
<1>. QED
  BY <1>1, <1>2, <1>3 DEF HandInv

(* A request goes on, and no build is touched.                             *)
LEMMA RequestGoes ==
  ASSUME HandInv, NEW r \in G!Request, NEW q \in RequestType, request' = [request EXCEPT ![r] = q],
         UNCHANGED <<clock, build, overview>>, q.pc # "new",
         q.pc = "waiting" => \E b \in q.build : Entitled(q, b)
  PROVE  HandInv'
<1>1. request'[r] = q /\ \A p \in G!Request \ {r} : request'[p] = request[p]
  BY DEF HandInv, HandType
<1>2. HandType'
  BY DEF HandInv, HandType
<1>3. \A p \in G!Request : request'[p].pc = "new" => build'[p].state = "none"
  BY <1>1 DEF HandInv
<1>4. \A p, b : Entitled(p, b)' = Entitled(p, b)
  BY DEF Entitled
<1>5. \A p \in G!Request : request'[p].pc = "waiting" => \E b \in request'[p].build : Entitled(request'[p], b)
  BY <1>1 DEF HandInv
<1>6. \A k \in G!Key : KeptFor(k, overview[k])'
  BY DEF HandInv, KeptFor
<1>. QED
  BY <1>2, <1>3, <1>5, <1>6 DEF HandInv, Entitled

(* A service answers, or what was built is handed out.                     *)
LEMMA AnswerIs ==
  ASSUME NEW status \in G!Status
  PROVE  /\ [G!Fresh EXCEPT !.pc = "answered", !.status = status] \in RequestType
         /\ [G!Fresh EXCEPT !.pc = "answered", !.status = status].pc = "answered"
<1>. HIDE DEF G!Fresh
<1>. QED
  BY FreshRequestIs DEF RequestType

(* A request is answered, and nothing else happens. *)
LEMMA AnswerGoes ==
  ASSUME HandInv, NEW r \in G!Request, NEW status \in G!Status, G!Answer(r, status),
         UNCHANGED <<clock, build, overview>>
  PROVE  HandInv' /\ \A p \in G!Request : request[p].pc # "new" => request'[p].pc # "new"
<1>. DEFINE q == [G!Fresh EXCEPT !.pc = "answered", !.status = status]
<1>1. q \in RequestType /\ q.pc = "answered" /\ request' = [request EXCEPT ![r] = q]
  BY AnswerIs DEF G!Answer
<1>. HIDE DEF q
<1>2. HandInv'
  BY <1>1, RequestGoes
<1>3. \A p \in G!Request : request[p].pc # "new" => request'[p].pc # "new"
  BY <1>1 DEF HandInv, HandType
<1>. QED
  BY <1>2, <1>3

(* A service has answered, or the build of an overview that was waited for *)
(* has ended.                                                              *)
LEMMA ReplyStep ==
  ASSUME HandInv, NEW r \in G!Request, G!Reply(r) \/ G!HandOut(r)
  PROVE  HandInv' /\ \A p \in G!Request : request[p].pc # "new" => request'[p].pc # "new"
<1>1. PICK status \in {"ok", "denied", "missing", "unavailable"} : G!Answer(r, status)
  <2>1. CASE G!Reply(r)
    BY <2>1 DEF G!Reply
  <2>2. CASE G!HandOut(r)
    <3>1. \A state \in DOMAIN G!Answers : G!Answers[state] \in {"ok", "denied", "missing", "unavailable"}
      BY DEF G!Answers
    <3>. QED
      BY <2>2, <3>1 DEF G!HandOut
  <2>. QED
    BY <2>1, <2>2
<1>2. status \in G!Status /\ UNCHANGED <<clock, build, overview>>
  BY DEF G!Status, G!Reply, G!HandOut
<1>. QED
  BY <1>1, <1>2, AnswerGoes

(* A build ends; if it fails, what its key keeps is dropped.               *)
LEMMA FinishBuild ==
  ASSUME HandInv, NEW b \in G!Request, G!Finish(b)
  PROVE  HandInv'
<1>1. /\ build \in [G!Request -> BuildType] /\ build[b] \in BuildType /\ build[b].state = "running"
      /\ UNCHANGED <<clock, request>> /\ overview \in [G!Key -> OverviewType]
  BY DEF G!Finish, HandInv, HandType
<1>2. PICK state \in {"done", "refused", "failed"} :
        /\ build' = [build EXCEPT ![b].state = state]
        /\ state = "done" => overview' = overview
        /\ state # "done" => overview' = [overview EXCEPT ![build[b].key] = G!NoOverview]
  BY DEF G!Finish, G!Failure
<1>. DEFINE d == [build[b] EXCEPT !.state = state]
<1>3. d \in BuildType /\ d.state = state /\ d.key = build[b].key /\ d.begun = build[b].begun
  BY <1>1 DEF BuildType
<1>4. build' = [build EXCEPT ![b] = d]
  BY <1>1, <1>2
<1>. HIDE DEF d
<1>5. build'[b] = d /\ \A c \in G!Request : c # b => build'[c] = build[c]
  BY <1>1, <1>4
<1>6. overview' \in [G!Key -> OverviewType]
  BY <1>1, <1>2, FreshRequestIs
<1>7. HandType'
  BY <1>1, <1>3, <1>4, <1>6 DEF HandInv, HandType
<1>8. \A r \in G!Request : request'[r].pc = "new" => build'[r].state = "none"
  BY <1>1, <1>5 DEF HandInv
<1>9. ASSUME NEW r \in G!Request, request'[r].pc = "waiting"
      PROVE  \E c \in request'[r].build : Entitled(request[r], c)'
  <2>1. PICK c \in request[r].build : Entitled(request[r], c)
    BY <1>1, <1>9 DEF HandInv
  <2>2. c \in G!Request
    BY <1>1, <2>1 DEF HandInv, HandType, RequestType
  <2>3. build'[c].key = build[c].key /\ (build[c].state # "none" => build'[c].state # "none")
    BY <1>1, <1>3, <1>5, <2>2
  <2>4. Entitled(request[r], c)'
    BY <1>1, <2>1, <2>3 DEF Entitled
  <2>. QED
    BY <1>1, <2>1, <2>4
<1>10. ASSUME NEW k \in G!Key
       PROVE  KeptFor(k, overview[k])'
  <2>. SUFFICES ASSUME NEW c \in overview'[k].build
                PROVE  /\ build'[c].key = k /\ build'[c].state \in {"running", "done"}
                       /\ overview'[k].until = build'[c].begun + OverviewTtl
    BY DEF KeptFor
  <2>1. overview'[k] = overview[k] /\ c \in G!Request
    BY <1>1, <1>2, <1>6, FreshRequestIs DEF OverviewType
  <2>2. /\ build[c].key = k /\ build[c].state \in {"running", "done"}
        /\ overview[k].until = build[c].begun + OverviewTtl
    BY <2>1 DEF HandInv, KeptFor
  <2>3. CASE c = b
    <3>1. state = "done"
      <4>. SUFFICES ASSUME state # "done"
                    PROVE  FALSE
        OBVIOUS
      <4>1. overview'[k] = G!NoOverview
        BY <1>1, <1>2, <2>2, <2>3
      <4>. QED
        BY <4>1, FreshRequestIs
    <3>. QED
      BY <1>3, <1>5, <2>1, <2>2, <2>3, <3>1
  <2>4. CASE c # b
    BY <1>5, <2>1, <2>2, <2>4
  <2>. QED
    BY <2>3, <2>4
<1>. QED
  BY <1>7, <1>8, <1>9, <1>10 DEF HandInv

(* Time passes, or buckets are pruned.                                     *)
LEMMA HandTick ==
  ASSUME HandInv, UNCHANGED <<request, build, overview>>, clock' \in 0 .. MaxTime
  PROVE  HandInv'
BY DEF HandInv, HandType, KeptFor, Entitled

(* Until when an overview is kept.                                         *)
LEMMA UntilIs == \A n \in 0 .. MaxTime : n + OverviewTtl \in 0 .. MaxTime + OverviewTtl
BY GateBounds

(* What is left of the cache after an eviction.                            *)
LEMMA EvictedIs ==
  ASSUME NEW c \in [G!Key -> OverviewType], NEW d \in G!Evicted(c)
  PROVE  d \in [G!Key -> OverviewType] /\ \A k \in G!Key : d[k] = c[k] \/ d[k] = G!NoOverview
<1>1. CASE d = c
  BY <1>1
<1>2. ASSUME NEW S, d = [k \in G!Key |-> IF k \in S THEN G!NoOverview ELSE c[k]]
      PROVE  d \in [G!Key -> OverviewType] /\ \A k \in G!Key : d[k] = c[k] \/ d[k] = G!NoOverview
  BY <1>2, FreshRequestIs
<1>3. d = c \/ \E S : d = [k \in G!Key |-> IF k \in S THEN G!NoOverview ELSE c[k]]
  BY Zenon DEF G!Evicted
<1>. QED
  BY <1>1, <1>2, <1>3

(* Whoever is let through to an overview has the key that is theirs.       *)
LEMMA KeyIsTheirs ==
  ASSUME NEW who \in User \cup {G!Nobody}, NEW path \in {"my overview", "overview"}, NEW names,
         G!Authenticated(who, path), G!Permitted(who, path, names)
  PROVE  /\ who \in User /\ G!KeyOf(who, path) \in G!Key /\ G!KeyOf(who, path) # "none"
         /\ G!KeyOf(who, path) = "org" => who \in Admin
<1>1. who \in User
  BY DEF G!Authenticated
<1>2. CASE path = "overview"
  <2>1. who \in Admin
    BY <1>2 DEF G!Permitted
  <2>. QED
    BY <1>1, <1>2, <2>1 DEF G!KeyOf, G!Key
<1>3. CASE path = "my overview"
  BY <1>1, <1>3, GateBounds DEF G!KeyOf, G!Key
<1>. QED
  BY <1>2, <1>3

(* getOverview: a build is found, or begun.                                *)
LEMMA OverviewStep ==
  ASSUME HandInv, NEW r \in G!Request, request[r].pc = "new", NEW who \in User, NEW path \in {"my overview", "overview"},
         G!KeyOf(who, path) \in G!Key, G!KeyOf(who, path) = "org" => who \in Admin,
         G!Overview(r, who, path), clock' = clock
  PROVE  HandInv' /\ \A p \in G!Request : request[p].pc # "new" \/ p = r => request'[p].pc # "new"
<1>. DEFINE k == G!KeyOf(who, path)
            waiting(b) == [G!Fresh EXCEPT !.pc = "waiting", !.path = path, !.who = who, !.build = b]
<1>1. ASSUME NEW b \in SUBSET G!Request
      PROVE  /\ waiting(b) \in RequestType /\ waiting(b).pc = "waiting" /\ waiting(b).path = path
             /\ waiting(b).who = who /\ waiting(b).build = b
  BY FreshRequestIs DEF RequestType, G!Path
<1>2. /\ request \in [G!Request -> RequestType] /\ build \in [G!Request -> BuildType] /\ k \in G!Key
      /\ overview \in [G!Key -> OverviewType] /\ clock \in 0 .. MaxTime /\ build[r].state = "none"
  BY DEF HandInv, HandType
<1>3. CASE G!Cached(k)
  <2>1. request' = [request EXCEPT ![r] = waiting(overview[k].build)] /\ UNCHANGED <<build, overview>>
    BY <1>3 DEF G!Overview
  <2>2. overview[k].build \in SUBSET G!Request
    BY <1>2 DEF OverviewType
  <2>3. PICK b \in overview[k].build : build[b].key = k /\ build[b].state \in {"running", "done"}
    BY <1>2, <1>3 DEF G!Cached, HandInv, KeptFor
  <2>. DEFINE q == waiting(overview[k].build)
  <2>4. /\ q \in RequestType /\ q.pc = "waiting" /\ q.path = path /\ q.who = who /\ q.build = overview[k].build
    BY <1>1, <2>2
  <2>. HIDE DEF waiting, q
  <2>5. Entitled(q, b)
    BY <2>3, <2>4 DEF Entitled
  <2>6. request' = [request EXCEPT ![r] = q]
    BY <2>1 DEF q
  <2>7. HandInv'
    BY <2>1, <2>3, <2>4, <2>5, <2>6, RequestGoes
  <2>. QED
    BY <1>2, <2>4, <2>6, <2>7
<1>4. CASE ~G!Cached(k)
  <2>. DEFINE q == waiting({r})
              d == [key |-> k, begun |-> clock, state |-> "running"]
              v == [build |-> {r}, until |-> clock + OverviewTtl]
              c == [overview EXCEPT ![k] = v]
  <2>1. request' = [request EXCEPT ![r] = q] /\ build' = [build EXCEPT ![r] = d] /\ overview' \in G!Evicted(c)
    BY <1>4 DEF G!Overview
  <2>2. /\ q \in RequestType /\ q.pc = "waiting" /\ q.path = path /\ q.who = who /\ q.build = {r}
    BY <1>1
  <2>3. d \in BuildType /\ d.key = k /\ d.begun = clock /\ d.state = "running"
    BY <1>2 DEF BuildType
  <2>4. v \in OverviewType /\ v.build = {r} /\ v.until = clock + OverviewTtl
    <3>1. clock + OverviewTtl \in 0 .. MaxTime + OverviewTtl
      BY <1>2, UntilIs
    <3>. QED
      BY <3>1 DEF OverviewType
  <2>. HIDE DEF waiting, q, d, v
  <2>5. c \in [G!Key -> OverviewType] /\ \A l \in G!Key : c[l] = IF l = k THEN v ELSE overview[l]
    BY <1>2, <2>4
  <2>. HIDE DEF c
  <2>6. overview' \in [G!Key -> OverviewType] /\ \A l \in G!Key : overview'[l] = c[l] \/ overview'[l] = G!NoOverview
    BY <2>1, <2>5, EvictedIs
  <2>7. /\ request'[r] = q /\ build'[r] = d
        /\ \A p \in G!Request : p # r => request'[p] = request[p] /\ build'[p] = build[p]
    BY <1>2, <2>1
  <2>8. HandType'
    BY <1>2, <2>1, <2>2, <2>3, <2>6 DEF HandType
  <2>9. \A p \in G!Request : request'[p].pc = "new" => build'[p].state = "none"
    BY <2>2, <2>7 DEF HandInv
  <2>10. ASSUME NEW p \in G!Request, request'[p].pc = "waiting"
         PROVE  \E b \in request'[p].build : Entitled(request[p], b)'
    <3>1. CASE p = r
      <4>1. r \in request'[p].build /\ Entitled(request[p], r)'
        BY <2>2, <2>3, <2>7, <3>1 DEF Entitled
      <4>. QED
        BY <4>1
    <3>2. CASE p # r
      <4>1. PICK b \in request[p].build : Entitled(request[p], b)
        BY <2>7, <2>10, <3>2 DEF HandInv
      <4>2. b \in G!Request /\ b # r
        BY <1>2, <4>1 DEF RequestType, Entitled
      <4>3. Entitled(request[p], b)'
        BY <2>7, <3>2, <4>1, <4>2 DEF Entitled
      <4>. QED
        BY <2>7, <3>2, <4>1, <4>3
    <3>. QED
      BY <3>1, <3>2
  <2>11. ASSUME NEW l \in G!Key
         PROVE  KeptFor(l, overview[l])'
    <3>. SUFFICES ASSUME NEW b \in overview'[l].build
                  PROVE  /\ build'[b].key = l /\ build'[b].state \in {"running", "done"}
                         /\ overview'[l].until = build'[b].begun + OverviewTtl
      BY DEF KeptFor
    <3>1. overview'[l] = c[l]
      BY <2>6, FreshRequestIs
    <3>2. CASE l = k
      <4>1. b = r /\ overview'[l].until = clock + OverviewTtl
        BY <2>4, <2>5, <3>1, <3>2
      <4>. QED
        BY <2>3, <2>7, <3>2, <4>1
    <3>3. CASE l # k
      <4>1. /\ build[b].key = l /\ build[b].state \in {"running", "done"} /\ b \in G!Request
            /\ overview[l].until = build[b].begun + OverviewTtl /\ overview'[l] = overview[l]
        BY <1>2, <2>5, <3>1, <3>3 DEF HandInv, KeptFor, OverviewType
      <4>2. b # r
        BY <1>2, <4>1
      <4>. QED
        BY <2>7, <4>1, <4>2
    <3>. QED
      BY <3>2, <3>3
  <2>12. HandInv'
    BY <2>8, <2>9, <2>10, <2>11 DEF HandInv
  <2>. QED
    BY <2>2, <2>7, <2>12
<1>. QED
  BY <1>3, <1>4

(* proxy: a request is passed on.                                          *)
LEMMA ForwardStep ==
  ASSUME HandInv, NEW r \in G!Request, NEW who \in User \cup {G!Nobody}, NEW path \in G!Path,
         NEW names \in User \cup {G!Nobody}, G!Forward(r, who, path, names), UNCHANGED <<clock, build, overview>>
  PROVE  HandInv' /\ \A p \in G!Request : request[p].pc # "new" \/ p = r => request'[p].pc # "new"
<1>1. G!Scope(who, path, names) \in User \cup {G!Nobody}
  BY DEF G!Scope
<1>. DEFINE q == [G!Fresh EXCEPT !.pc = "upstream", !.path = path, !.who = who, !.names = G!Scope(who, path, names)]
<1>2. q \in RequestType /\ q.pc = "upstream"
  BY <1>1, FreshRequestIs DEF RequestType
<1>3. request' = [request EXCEPT ![r] = q]
  BY DEF G!Forward
<1>. HIDE DEF q
<1>4. HandInv'
  BY <1>2, <1>3, RequestGoes
<1>5. \A p \in G!Request : request[p].pc # "new" \/ p = r => request'[p].pc # "new"
  BY <1>2, <1>3 DEF HandInv, HandType
<1>. QED
  BY <1>4, <1>5

(* A request arrives: it is counted, and then answered or passed on.       *)
LEMMA ArrivalRouted ==
  ASSUME HandInv, NEW r \in G!Request, NEW o \in Origin, NEW who \in User \cup {G!Nobody}, NEW path \in G!Path,
         NEW names \in User \cup {G!Nobody}, G!Arrive(r, o, who, path, names)
  PROVE  HandInv' /\ \A p \in G!Request : request[p].pc # "new" \/ p = r => request'[p].pc # "new"
<1>1. request[r].pc = "new" /\ clock' = clock /\ request \in [G!Request -> RequestType]
  BY FreshRequestIs DEF G!Arrive, HandInv, HandType
<1>2. ASSUME NEW status \in {"too many", "unauthenticated", "forbidden"}, G!Answer(r, status),
             UNCHANGED <<build, overview>>
      PROVE  HandInv' /\ \A p \in G!Request : request[p].pc # "new" \/ p = r => request'[p].pc # "new"
  <2>1. status \in G!Status
    BY DEF G!Status
  <2>2. request'[r].pc # "new"
    BY <1>1, <1>2, <2>1, AnswerIs DEF G!Answer
  <2>. QED
    BY <1>1, <1>2, <2>1, <2>2, AnswerGoes
<1>3. CASE path \in {"my overview", "overview"} /\ G!Authenticated(who, path) /\ G!Permitted(who, path, names)
           /\ G!Overview(r, who, path)
  BY <1>1, <1>3, KeyIsTheirs, OverviewStep
<1>4. CASE G!Forward(r, who, path, names) /\ UNCHANGED <<build, overview>>
  BY <1>1, <1>4, ForwardStep
<1>. QED
  BY <1>2, <1>3, <1>4 DEF G!Arrive

(* A request arrives: it is admitted if the bucket has room for it, and    *)
(* kept in it then.                                                        *)
LEMMA ArrivalCounted ==
  ASSUME RateInv, NEW r \in G!Request, NEW o \in Origin, NEW who, NEW path, NEW names,
         G!Arrive(r, o, who, path, names),
         \A p \in G!Request : request[p].pc # "new" \/ p = r => request'[p].pc # "new"
  PROVE  RateInv'
<1>1. request[r].pc = "new" /\ clock' = clock
  BY FreshRequestIs DEF G!Arrive
<1>2. CASE G!WithinLimit(o)
  <2>1. /\ bucket' = [bucket EXCEPT ![o] = G!Prune(@) \cup {r}]
        /\ arrival' = [arrival EXCEPT ![r] = clock]
        /\ admitted' = [admitted EXCEPT ![o] = @ \cup {r}]
    BY <1>2 DEF G!Arrive
  <2>. QED
    BY <1>1, <1>2, <2>1, LimitKept
<1>3. CASE ~G!WithinLimit(o)
  <2>1. bucket' = [bucket EXCEPT ![o] = G!Prune(@)] /\ UNCHANGED <<arrival, admitted>>
    BY <1>3 DEF G!Arrive
  <2>2. bucket \in [Origin -> SUBSET G!Request] /\ clock \in clock .. MaxTime
    BY GateBounds DEF RateInv, RateType
  <2>3. bucket' \in [Origin -> SUBSET G!Request] /\ \A p \in Origin : G!Prune(bucket[p]) \subseteq bucket'[p]
    BY <2>1, <2>2 DEF G!Prune
  <2>. QED
    BY <1>1, <2>1, <2>2, <2>3, NothingAdmitted
<1>. QED
  BY <1>2, <1>3

GateInv == RateInv /\ HandInv

(* Every step keeps the invariant. *)
LEMMA GateStep == GateInv /\ [G!Next]_G!gateway => GateInv'
<1>. SUFFICES ASSUME GateInv, [G!Next]_G!gateway
              PROVE  GateInv'
  OBVIOUS
<1>1. /\ RateInv /\ HandInv /\ clock \in clock .. MaxTime /\ bucket \in [Origin -> SUBSET G!Request]
      /\ \A o \in Origin : G!Prune(bucket[o]) \subseteq bucket[o] /\ G!Prune(bucket[o]) \in SUBSET G!Request
  BY GateBounds DEF GateInv, RateInv, RateType, G!Prune
<1>2. ASSUME NEW r \in G!Request, NEW o \in Origin, NEW who \in User \cup {G!Nobody}, NEW p \in G!Path,
             NEW n \in User \cup {G!Nobody}, G!Arrive(r, o, who, p, n)
      PROVE  GateInv'
  BY <1>1, <1>2, ArrivalRouted, ArrivalCounted DEF GateInv
<1>3. ASSUME NEW r \in G!Request, G!Reply(r) \/ G!HandOut(r)
      PROVE  GateInv'
  <2>1. UNCHANGED <<clock, bucket, arrival, admitted>>
    BY <1>3 DEF G!Reply, G!HandOut
  <2>. QED
    BY <1>1, <1>3, <2>1, ReplyStep, NothingAdmitted DEF GateInv
<1>4. ASSUME NEW b \in G!Request, G!Finish(b)
      PROVE  GateInv'
  <2>1. UNCHANGED <<clock, bucket, arrival, admitted, request>>
    BY <1>4 DEF G!Finish
  <2>. QED
    BY <1>1, <1>4, <2>1, FinishBuild, NothingAdmitted DEF GateInv
<1>5. CASE G!CleanUp
  <2>1. /\ UNCHANGED <<clock, arrival, admitted, request, build, overview>>
        /\ bucket' \in [Origin -> SUBSET G!Request] /\ \A o \in Origin : G!Prune(bucket[o]) \subseteq bucket'[o]
    BY <1>1, <1>5 DEF G!CleanUp
  <2>2. clock \in 0 .. MaxTime
    BY <1>1 DEF RateInv, RateType
  <2>. QED
    BY <1>1, <2>1, <2>2, HandTick, NothingAdmitted DEF GateInv
<1>6. CASE G!Tick
  <2>1. UNCHANGED <<bucket, arrival, admitted, request, build, overview>>
    BY <1>6 DEF G!Tick
  <2>2. clock' \in clock .. MaxTime /\ clock' \in 0 .. MaxTime
    BY <1>1, <1>6, GateBounds DEF G!Tick, RateInv, RateType
  <2>. QED
    BY <1>1, <2>1, <2>2, HandTick, NothingAdmitted DEF GateInv
<1>7. CASE UNCHANGED G!gateway
  <2>1. UNCHANGED <<clock, bucket, arrival, admitted, request, build, overview>>
    BY <1>7 DEF G!gateway
  <2>2. clock \in 0 .. MaxTime
    BY <1>1 DEF RateInv, RateType
  <2>. QED
    BY <1>1, <2>1, <2>2, HandTick, NothingAdmitted DEF GateInv
<1>. QED
  BY <1>2, <1>3, <1>4, <1>5, <1>6, <1>7 DEF G!Next

(* Gateway: the invariant holds in every reachable state. *)
LEMMA GateAlways == G!Spec => []GateInv
<1>1. G!Init => GateInv
  BY RateInit, HandInit DEF GateInv
<1>. QED
  BY <1>1, GateStep, PTL DEF G!Spec

(* The limiter prunes a bucket when somebody arrives and once a minute,    *)
(* and an overview is built once for all who wait for it: no window of     *)
(* time admits more than the limit, whatever moment it begins at, and      *)
(* nobody is handed an overview that was built for another.                *)
THEOREM GatewayIsSound == G!Spec => []GatewaySound
<1>1. GateInv => G!RateHonoured /\ G!OverviewSound
  BY GateCardinality DEF GateInv, RateInv, HandInv, InWindow, Entitled, KeptFor, G!RateHonoured, G!OverviewSound
<1>. QED
  BY <1>1, GateAlways, PTL DEF GatewaySound
-----------------------------------------------------------------------------
(* The bounds of SecurityAlerts. *)
LEMMA AlertBounds ==
  /\ MaxThreshold \in Nat /\ MaxThreshold >= 1 /\ MaxAlerts \in Nat /\ MaxCount \in Nat /\ MaxRepairs \in Nat
  /\ MaxFailures \in Nat
BY ServicesAssumption
-----------------------------------------------------------------------------
(* SecurityAlerts.  Raising says who holds the row of a counter.           *)
Raising(h, r, w) ==
  handler[h].pc = "raise" /\ handler[h].rule = {r} /\ \A e \in handler[h].event : incident[e].window = w

(* There is an alert of r, or there will be, or a request gave it up.      *)
Alerted(r) ==
  \/ \E a \in A!Alert : alerts[a].rule = {r}
  \/ r \in missed
  \/ recorder.pc = "raise" /\ r \in recorder.rule

OpenBy(a, r, w) == alerts[a].rule = {r} /\ alerts[a].status = "OPEN" /\ alerts[a].by = {w}

RulesKnown ==
  \A r \in Rule :
    /\ rules[r].is = "none" => ~rules[r].enabled /\ \A w \in Period : counter[r][w] = 0
    /\ rules[r].is # "none" /\ r \notin touched => rules[r].enabled

(* What a handler has of its event, and who has what in common.            *)
Employed(h) ==
  /\ handler[h].pc = "vacant" => handler[h] = A!Vacant
  /\ handler[h].pc # "vacant" => \E e \in Incident : handler[h].event = {e}
  /\ \A r \in handler[h].todo \cup handler[h].rule : rules[r].is # "none"
  /\ handler[h].pc \in {"raise", "publish", "revoke"} => \E r \in Rule : handler[h].rule = {r}
  /\ handler[h].pc = "publish" =>
       /\ handler[h].alert \in A!Alert /\ alerts[handler[h].alert].status # "none"
       /\ pages[handler[h].alert] = 0
  /\ \A e \in handler[h].event : e \notin doubled => incident[e].at = "queued"

ByHand ==
  /\ recorder.pc \in {"vacant", "count", "raise"}
  /\ recorder.pc # "vacant" => \E r \in Rule : recorder.rule = {r} /\ rules[r].is # "none"

Apart ==
  \A h, k \in Worker : h # k =>
    /\ handler[h].event \cap handler[k].event \subseteq doubled
    /\ handler[h].pc = "publish" /\ handler[k].pc = "publish" => handler[h].alert # handler[k].alert
    /\ \A r \in Rule, w \in Period : ~(Raising(h, r, w) /\ Raising(k, r, w))

(* While the row is held the counter does not move; what it would be if    *)
(* the handler stopped has its alert, if it needs one.                     *)
Locks ==
  \A h \in Worker, r \in Rule, w \in Period : Raising(h, r, w) =>
    /\ counter[r][w] >= rules[r].threshold
    /\ counter[r][w] > rules[r].threshold => Alerted(r)
    /\ \A a \in A!Alert : ~OpenBy(a, r, w)

Reached ==
  \A r \in Rule, w \in Period :
    counter[r][w] >= rules[r].threshold /\ ~A!Locked(r, w) => Alerted(r)

OneOpen ==
  \A r \in Rule, w \in Period : \A a, b \in A!Alert : OpenBy(a, r, w) /\ OpenBy(b, r, w) => a = b

Unpaged == \A a \in A!Alert : alerts[a].status = "none" => pages[a] = 0 /\ alerts[a].rule = {}

(* A revocation that is owed for an event: the event is still to be        *)
(* handled, or is being handled and the rule is yet to come.               *)
Pending(h, e, r) ==
  e \in handler[h].event =>
    \/ handler[h].pc = "rules" \/ r \in handler[h].todo
    \/ handler[h].pc \in {"raise", "publish", "revoke"} /\ handler[h].rule = {r}

Exceeds(r, w) ==
  /\ counter[r][w] >= rules[r].threshold
  /\ A!Locked(r, w) => counter[r][w] > rules[r].threshold

Owing ==
  \A e \in Incident, r \in Rule : <<e, r>> \in owed /\ r \notin touched /\ e \notin doubled =>
    /\ incident[e].at # "consumed" /\ rules[r].is # "none" /\ rules[r].blocks
    /\ Exceeds(r, incident[e].window)
    /\ \A h \in Worker : Pending(h, e, r)

AlertsInv ==
  /\ A!TypeOK /\ RulesKnown /\ (\A h \in Worker : Employed(h)) /\ ByHand /\ Apart
  /\ Locks /\ Reached /\ OneOpen /\ Unpaged /\ Owing

RuleType ==
  [is: {"none", "there", "deleted"}, enabled: BOOLEAN, threshold: 1 .. MaxThreshold, blocks: BOOLEAN,
   mails: BOOLEAN]
AlertType == [rule: SUBSET Rule, status: {"none", "OPEN", "RESOLVED"}, by: SUBSET Period]
IncidentType == [at: {"queued", "consumed", "dead"}, window: Period]

(* Types, in the form in which the steps need them.                        *)
LEMMA AlertTypes ==
  ASSUME AlertsInv
  PROVE  /\ rules \in [Rule -> RuleType] /\ counter \in [Rule -> [Period -> 0 .. MaxCount]]
         /\ alerts \in [A!Alert -> AlertType] /\ incident \in [Incident -> IncidentType]
         /\ handler \in [Worker -> A!DoingType] /\ recorder \in A!DoingType
         /\ pages \in [A!Alert -> 0 .. 1] /\ repairs \in 0 .. MaxRepairs /\ failures \in 0 .. MaxFailures
         /\ owed \in SUBSET (Incident \X Rule) /\ doubled \in SUBSET Incident /\ touched \in SUBSET Rule
         /\ missed \in SUBSET Rule
         /\ \A r \in Rule : \A w \in Period : counter[r][w] \in Nat
         /\ \A r \in Rule : rules[r].threshold \in Nat /\ rules[r].threshold >= 1
<1>. USE DEF AlertsInv, A!TypeOK, RuleType, AlertType, IncidentType
<1>1. counter \in [Rule -> [Period -> 0 .. MaxCount]] /\ rules \in [Rule -> RuleType]
  OBVIOUS
<1>2. \A r \in Rule : \A w \in Period : counter[r][w] \in Nat
  BY <1>1, AlertBounds
<1>3. \A r \in Rule : rules[r].threshold \in Nat /\ rules[r].threshold >= 1
  BY <1>1, AlertBounds
<1>. QED
  BY <1>1, <1>2, <1>3

(* What is vacant.                                                         *)
LEMMA VacantIs ==
  /\ A!Vacant \in A!DoingType /\ A!Vacant.pc = "vacant" /\ A!Vacant.event = {} /\ A!Vacant.rule = {}
  /\ A!Vacant.todo = {}
  /\ A!NoAlert \in AlertType /\ A!NoAlert.status = "none" /\ A!NoAlert.rule = {}
  /\ A!NoRule \in RuleType /\ A!NoRule.is = "none" /\ ~A!NoRule.enabled
BY AlertBounds DEF A!Vacant, A!DoingType, A!NoAlert, AlertType, A!NoRule, RuleType

(* The row of a counter is locked by whoever is raising. *)
LEMMA LockedIs ==
  /\ \A r, w : A!Locked(r, w) <=> \E h \in Worker : Raising(h, r, w)
  /\ \A r, w : A!Locked(r, w)' <=> \E h \in Worker : Raising(h, r, w)'
BY DEF A!Locked, Raising

(* Every initial state satisfies the invariant. *)
LEMMA AlertsInit == A!Init => AlertsInv
<1>. SUFFICES ASSUME A!Init
              PROVE  AlertsInv
  OBVIOUS
<1>1. /\ \A h \in Worker : handler[h] = A!Vacant
      /\ recorder = A!Vacant /\ owed = {} /\ \A a \in A!Alert : alerts[a] = A!NoAlert /\ pages[a] = 0
      /\ \A r \in Rule : rules[r] = A!NoRule /\ \A w \in Period : counter[r][w] = 0
  BY DEF A!Init
<1>2. A!TypeOK
  <2>1. handler \in [Worker -> A!DoingType] /\ recorder \in A!DoingType
    BY VacantIs DEF A!Init
  <2>2. rules \in [Rule -> RuleType] /\ alerts \in [A!Alert -> AlertType]
    BY VacantIs DEF A!Init
  <2>3. counter \in [Rule -> [Period -> 0 .. MaxCount]] /\ pages \in [A!Alert -> 0 .. 1]
        /\ repairs \in 0 .. MaxRepairs /\ failures \in 0 .. MaxFailures
    BY AlertBounds DEF A!Init
  <2>. QED
    BY <2>1, <2>2, <2>3 DEF A!Init, A!TypeOK, RuleType, AlertType
<1>3. RulesKnown
  BY <1>1, VacantIs DEF RulesKnown
<1>4. \A h \in Worker : Employed(h)
  BY <1>1, VacantIs DEF Employed
<1>5. ByHand /\ Apart /\ Locks
  BY <1>1, VacantIs DEF ByHand, Apart, Locks, Raising
<1>6. Reached
  <2>1. \A r \in Rule : rules[r].threshold \in 1 .. MaxThreshold
    BY <1>1, VacantIs DEF RuleType
  <2>. QED
    BY <1>1, <2>1, AlertBounds DEF Reached
<1>7. OneOpen /\ Unpaged
  BY <1>1, VacantIs DEF OneOpen, OpenBy, Unpaged
<1>8. Owing
  BY <1>1 DEF Owing
<1>. QED
  BY <1>2, <1>3, <1>4, <1>5, <1>6, <1>7, <1>8 DEF AlertsInv
-----------------------------------------------------------------------------
(* A handler goes on, and neither takes the row of a counter nor has it;   *)
(* counters, rules and alerts are as they were.                            *)
LEMMA HandlerGoes ==
  ASSUME AlertsInv, NEW h \in Worker, NEW q \in A!DoingType, handler' = [handler EXCEPT ![h] = q],
         UNCHANGED <<rules, counter, alerts, recorder, touched, missed>>,
         repairs' = repairs, failures' \in 0 .. MaxFailures,
         handler[h].pc # "raise", q.pc \notin {"raise", "publish"},
         pages' \in [A!Alert -> 0 .. 1],
         \A a \in A!Alert : pages'[a] # pages[a] => handler[h].pc = "publish" /\ a = handler[h].alert,
         incident' \in [Incident -> IncidentType],
         \A e \in Incident : incident'[e].window = incident[e].window,
         \A e \in Incident : incident'[e].at # incident[e].at => e \in handler[h].event,
         doubled' \in SUBSET Incident, doubled \subseteq doubled',
         q.pc = "vacant" => q = A!Vacant,
         q.pc # "vacant" => \E e \in Incident :
                              /\ q.event = {e} /\ incident'[e].at = incident[e].at
                              /\ \A k \in Worker \ {h} : e \in handler[k].event => e \in doubled'
                              /\ handler[h].pc = "vacant" => incident[e].at = "queued"
                              /\ handler[h].pc # "vacant" => handler[h].event = {e},
         \A r \in q.todo \cup q.rule : r \in Rule /\ rules[r].is # "none",
         q.pc = "revoke" => \E r \in Rule : q.rule = {r},
         owed' \in SUBSET owed,
         \A e \in Incident, r \in Rule : <<e, r>> \in owed' /\ r \notin touched /\ e \notin doubled' =>
           /\ incident'[e].at # "consumed"
           /\ e \in q.event => \/ q.pc = "rules" \/ r \in q.todo
                               \/ q.pc = "revoke" /\ q.rule = {r}
  PROVE  AlertsInv'
<1>1. /\ handler'[h] = q /\ \A k \in Worker \ {h} : handler'[k] = handler[k]
      /\ handler \in [Worker -> A!DoingType] /\ handler' \in [Worker -> A!DoingType]
      /\ handler[h] \in A!DoingType
  BY AlertTypes
<1>2. A!TypeOK'
  BY <1>1 DEF AlertsInv, A!TypeOK, IncidentType
<1>3. \A k \in Worker : \A r, w : Raising(k, r, w)' <=> Raising(k, r, w)
  <2>. SUFFICES ASSUME NEW k \in Worker, NEW r, NEW w
                PROVE  Raising(k, r, w)' <=> Raising(k, r, w)
    OBVIOUS
  <2>1. \A e \in handler[k].event : e \in Incident
    BY <1>1 DEF A!DoingType
  <2>. QED
    BY <1>1, <2>1 DEF Raising
<1>4. \A r, w : A!Locked(r, w)' <=> A!Locked(r, w)
  BY <1>3, LockedIs
<1>5. RulesKnown' /\ ByHand' /\ OneOpen'
  BY DEF AlertsInv, RulesKnown, ByHand, OneOpen, OpenBy
<1>6. \A r : Alerted(r)' <=> Alerted(r)
  BY DEF Alerted
<1>7. Locks' /\ Reached'
  BY <1>3, <1>4, <1>6 DEF AlertsInv, Locks, Reached, OpenBy
<1>8. Unpaged'
  BY DEF AlertsInv, Unpaged, Employed
<1>9. ASSUME NEW k \in Worker
      PROVE  Employed(k)'
  <2>1. CASE k = h
    <3>1. \A e \in q.event : e \notin doubled' => incident'[e].at = "queued"
      BY <1>1, VacantIs DEF AlertsInv, Employed
    <3>. QED
      BY <1>1, <2>1, <3>1 DEF Employed
  <2>2. CASE k # h
    <3>1. handler'[k] = handler[k] /\ Employed(k) /\ handler[k].event \subseteq Incident
      BY <1>1, <2>2 DEF AlertsInv, A!DoingType
    <3>2. handler[k].pc = "publish" => pages'[handler[k].alert] = pages[handler[k].alert]
      BY <2>2, <3>1 DEF AlertsInv, Apart, Employed
    <3>3. \A e \in handler[k].event : e \notin doubled' => incident'[e].at = incident[e].at
      BY <2>2, <3>1 DEF AlertsInv, Apart
    <3>. QED
      BY <3>1, <3>2, <3>3 DEF Employed
  <2>. QED
    BY <2>1, <2>2
<1>10. Apart'
  <2>. SUFFICES ASSUME NEW k \in Worker, NEW l \in Worker, k # l
                PROVE  /\ handler'[k].event \cap handler'[l].event \subseteq doubled'
                       /\ handler'[k].pc = "publish" /\ handler'[l].pc = "publish" =>
                            handler'[k].alert # handler'[l].alert
                       /\ \A r \in Rule, w \in Period : ~(Raising(k, r, w) /\ Raising(l, r, w))'
    BY DEF Apart
  <2>1. \A r \in Rule, w \in Period : ~(Raising(k, r, w) /\ Raising(l, r, w))'
    BY <1>3 DEF AlertsInv, Apart
  <2>2. CASE k # h /\ l # h
    BY <1>1, <2>1, <2>2 DEF AlertsInv, Apart
  <2>3. CASE k = h \/ l = h
    <3>1. \A m \in Worker \ {h} : q.event \cap handler[m].event \subseteq doubled'
      BY VacantIs
    <3>. QED
      BY <1>1, <2>1, <2>3, <3>1
  <2>. QED
    BY <2>2, <2>3
<1>11. Owing'
  <2>. SUFFICES ASSUME NEW e \in Incident, NEW r \in Rule, <<e, r>> \in owed', r \notin touched, e \notin doubled'
                PROVE  /\ incident'[e].at # "consumed" /\ rules[r].is # "none" /\ rules[r].blocks
                       /\ Exceeds(r, incident[e].window)' /\ \A k \in Worker : Pending(k, e, r)'
    BY DEF Owing
  <2>1. /\ rules[r].is # "none" /\ rules[r].blocks
        /\ Exceeds(r, incident[e].window) /\ \A k \in Worker : Pending(k, e, r)
    BY DEF AlertsInv, Owing
  <2>2. Exceeds(r, incident[e].window)'
    BY <1>4, <2>1 DEF Exceeds
  <2>3. \A k \in Worker : Pending(k, e, r)'
    BY <1>1, <2>1 DEF Pending
  <2>. QED
    BY <2>1, <2>2, <2>3
<1>. QED
  BY <1>2, <1>5, <1>7, <1>8, <1>9, <1>10, <1>11 DEF AlertsInv
-----------------------------------------------------------------------------
(* A rule is made, or changed by hand.                                     *)
LEMMA RulesGo ==
  ASSUME AlertsInv,
         UNCHANGED <<alerts, incident, handler, recorder, pages, failures, owed, doubled, missed>>,
         repairs' \in 0 .. MaxRepairs, rules' \in [Rule -> RuleType],
         counter' \in [Rule -> [Period -> 0 .. MaxCount]], touched \subseteq touched', touched' \subseteq Rule,
         \A r \in Rule : rules[r].is # "none" => /\ rules'[r].is # "none"
                                                 /\ rules'[r].threshold = rules[r].threshold
                                                 /\ rules'[r].blocks = rules[r].blocks,
         \A r \in Rule : rules'[r].is = "none" => ~rules'[r].enabled,
         \A r \in Rule : rules'[r].is # "none" /\ r \notin touched' => rules'[r].enabled,
         \A r \in Rule : counter'[r] = counter[r] \/ /\ r \in touched'
                                                     /\ \A w \in Period : counter'[r][w] = 0 /\ ~A!Locked(r, w)
  PROVE  AlertsInv'
<1>1. A!TypeOK'
  BY DEF AlertsInv, A!TypeOK, RuleType
<1>2. \A h \in Worker : \A r, w : Raising(h, r, w)' <=> Raising(h, r, w)
  BY DEF Raising
<1>3. \A r, w : A!Locked(r, w)' <=> A!Locked(r, w)
  BY <1>2, LockedIs
<1>4. \A r : Alerted(r)' <=> Alerted(r)
  BY DEF Alerted
<1>5. RulesKnown'
  BY DEF AlertsInv, RulesKnown
<1>6. ByHand' /\ Apart' /\ OneOpen' /\ Unpaged'
  BY <1>2 DEF AlertsInv, ByHand, Apart, OneOpen, OpenBy, Unpaged
<1>7. ASSUME NEW h \in Worker
      PROVE  Employed(h)'
  <2>1. handler[h] \in A!DoingType
    BY AlertTypes
  <2>2. \A r \in handler[h].todo \cup handler[h].rule : r \in Rule /\ rules'[r].is # "none"
    BY <2>1 DEF AlertsInv, Employed, A!DoingType
  <2>. QED
    BY <2>2 DEF AlertsInv, Employed
<1>8. Locks'
  <2>. SUFFICES ASSUME NEW h \in Worker, NEW r \in Rule, NEW w \in Period, Raising(h, r, w)
                PROVE  /\ counter'[r][w] >= rules'[r].threshold
                       /\ counter'[r][w] > rules'[r].threshold => Alerted(r)
                       /\ \A a \in A!Alert : ~OpenBy(a, r, w)
    BY <1>2, <1>4 DEF Locks, OpenBy
  <2>1. rules[r].is # "none" /\ r \in handler[h].rule
    BY DEF AlertsInv, Employed, Raising
  <2>2. A!Locked(r, w)
    BY LockedIs
  <2>3. counter'[r] = counter[r] /\ rules'[r].threshold = rules[r].threshold
    BY <2>1, <2>2
  <2>. QED
    BY <2>3 DEF AlertsInv, Locks
<1>9. Reached'
  <2>. SUFFICES ASSUME NEW r \in Rule, NEW w \in Period, counter'[r][w] >= rules'[r].threshold, ~A!Locked(r, w)
                PROVE  Alerted(r)
    BY <1>3, <1>4 DEF Reached
  <2>1. rules'[r].threshold \in Nat /\ rules'[r].threshold >= 1
    BY AlertBounds DEF RuleType
  <2>2. counter'[r][w] # 0
    BY <2>1
  <2>3. counter'[r] = counter[r]
    BY <2>2
  <2>4. rules[r].is # "none"
    BY <2>2, <2>3 DEF AlertsInv, RulesKnown
  <2>. QED
    BY <2>3, <2>4 DEF AlertsInv, Reached
<1>10. Owing'
  <2>. SUFFICES ASSUME NEW e \in Incident, NEW r \in Rule, <<e, r>> \in owed, r \notin touched', e \notin doubled
                PROVE  /\ incident[e].at # "consumed" /\ rules'[r].is # "none" /\ rules'[r].blocks
                       /\ Exceeds(r, incident[e].window)' /\ \A k \in Worker : Pending(k, e, r)'
    BY DEF Owing
  <2>1. /\ incident[e].at # "consumed" /\ rules[r].is # "none" /\ rules[r].blocks
        /\ Exceeds(r, incident[e].window) /\ \A k \in Worker : Pending(k, e, r)
    BY DEF AlertsInv, Owing
  <2>2. Exceeds(r, incident[e].window)'
    BY <1>3, <2>1 DEF Exceeds
  <2>. QED
    BY <2>1, <2>2 DEF Pending
<1>. QED
  BY <1>1, <1>5, <1>6, <1>7, <1>8, <1>9, <1>10 DEF AlertsInv

(* A new rule is typed. *)
LEMMA NewRuleType ==
  ASSUME NEW n \in 1 .. MaxThreshold, NEW b \in BOOLEAN
  PROVE  [is |-> "there", enabled |-> TRUE, threshold |-> n, blocks |-> b, mails |-> TRUE] \in RuleType
BY DEF RuleType

(* What a change leaves of a rule.                                         *)
LEMMA RuleExcept ==
  ASSUME NEW x \in RuleType
  PROVE  /\ [x EXCEPT !.enabled = ~@] \in RuleType /\ [x EXCEPT !.enabled = ~@].is = x.is
         /\ [x EXCEPT !.enabled = ~@].threshold = x.threshold /\ [x EXCEPT !.enabled = ~@].blocks = x.blocks
         /\ [x EXCEPT !.mails = ~@] \in RuleType /\ [x EXCEPT !.mails = ~@].is = x.is
         /\ [x EXCEPT !.mails = ~@].threshold = x.threshold /\ [x EXCEPT !.mails = ~@].blocks = x.blocks
         /\ [x EXCEPT !.mails = ~@].enabled = x.enabled
         /\ [x EXCEPT !.is = "deleted", !.enabled = FALSE] \in RuleType
         /\ [x EXCEPT !.is = "deleted", !.enabled = FALSE].is = "deleted"
         /\ [x EXCEPT !.is = "deleted", !.enabled = FALSE].threshold = x.threshold
         /\ [x EXCEPT !.is = "deleted", !.enabled = FALSE].blocks = x.blocks
BY DEF RuleType

(* createRule, toggleRule, setRuleEmail and deleteRule. *)
LEMMA EditRules ==
  ASSUME AlertsInv, NEW r \in Rule,
         A!CreateRule(r) \/ A!ToggleRule(r) \/ A!SetRuleEmail(r) \/ A!DeleteRule(r)
  PROVE  AlertsInv'
<1>1. /\ rules \in [Rule -> RuleType] /\ counter \in [Rule -> [Period -> 0 .. MaxCount]]
      /\ repairs \in 0 .. MaxRepairs /\ touched \in SUBSET Rule
  BY AlertTypes
<1>2. \A x \in Rule : /\ rules[x].is = "none" => ~rules[x].enabled
                      /\ rules[x].is # "none" /\ x \notin touched => rules[x].enabled
  BY DEF AlertsInv, RulesKnown
<1>3. A!Repair => repairs' \in 0 .. MaxRepairs
  BY <1>1, AlertBounds DEF A!Repair
<1>4. rules[r] \in RuleType
  BY <1>1
<1>5. CASE A!CreateRule(r)
  <2>1. PICK n \in 1 .. MaxThreshold, b \in BOOLEAN :
          rules' = [rules EXCEPT ![r] = [is |-> "there", enabled |-> TRUE, threshold |-> n, blocks |-> b,
                                         mails |-> TRUE]]
    BY <1>5 DEF A!CreateRule
  <2>2. rules' \in [Rule -> RuleType] /\ (\A x \in Rule \ {r} : rules'[x] = rules[x])
        /\ rules'[r].is = "there" /\ rules'[r].enabled
    BY <1>1, <2>1, NewRuleType
  <2>3. rules[r].is = "none"
    BY <1>5, VacantIs DEF A!CreateRule
  <2>4. UNCHANGED <<counter, alerts, incident, handler, recorder, pages, repairs, failures, owed, doubled,
                    touched, missed>>
    BY <1>5 DEF A!CreateRule, A!history
  <2>. QED
    BY <1>1, <1>2, <2>2, <2>3, <2>4, RulesGo
<1>6. CASE A!ToggleRule(r)
  <2>1. rules' = [rules EXCEPT ![r] = [rules[r] EXCEPT !.enabled = ~@]] /\ rules[r].is = "there"
        /\ touched' = touched \cup {r}
    BY <1>1, <1>6 DEF A!ToggleRule
  <2>2. /\ rules' \in [Rule -> RuleType] /\ (\A x \in Rule \ {r} : rules'[x] = rules[x])
        /\ rules'[r].is = "there" /\ rules'[r].threshold = rules[r].threshold
        /\ rules'[r].blocks = rules[r].blocks
    BY <1>1, <1>4, <2>1, RuleExcept
  <2>3. UNCHANGED <<counter, alerts, incident, handler, recorder, pages, failures, owed, doubled, missed>>
        /\ A!Repair
    BY <1>6 DEF A!ToggleRule
  <2>. QED
    BY <1>1, <1>2, <1>3, <2>1, <2>2, <2>3, RulesGo
<1>7. CASE A!SetRuleEmail(r)
  <2>1. rules' = [rules EXCEPT ![r] = [rules[r] EXCEPT !.mails = ~@]] /\ rules[r].is = "there"
    BY <1>1, <1>7 DEF A!SetRuleEmail
  <2>2. /\ rules' \in [Rule -> RuleType] /\ (\A x \in Rule \ {r} : rules'[x] = rules[x])
        /\ rules'[r].is = "there" /\ rules'[r].threshold = rules[r].threshold
        /\ rules'[r].blocks = rules[r].blocks /\ rules'[r].enabled = rules[r].enabled
    BY <1>1, <1>4, <2>1, RuleExcept
  <2>3. UNCHANGED <<counter, alerts, incident, handler, recorder, pages, failures, owed, doubled, touched, missed>>
        /\ A!Repair
    BY <1>7 DEF A!SetRuleEmail, A!history
  <2>. QED
    BY <1>1, <1>2, <1>3, <2>1, <2>2, <2>3, RulesGo
<1>8. CASE A!DeleteRule(r)
  <2>1. rules' = [rules EXCEPT ![r] = [rules[r] EXCEPT !.is = "deleted", !.enabled = FALSE]]
        /\ rules[r].is = "there" /\ touched' = touched \cup {r}
    BY <1>1, <1>8 DEF A!DeleteRule
  <2>2. /\ rules' \in [Rule -> RuleType] /\ (\A x \in Rule \ {r} : rules'[x] = rules[x])
        /\ rules'[r].is = "deleted" /\ rules'[r].threshold = rules[r].threshold
        /\ rules'[r].blocks = rules[r].blocks
    BY <1>1, <1>4, <2>1, RuleExcept
  <2>3. UNCHANGED <<alerts, incident, handler, recorder, pages, failures, owed, doubled, missed>>
        /\ A!Repair /\ \A w \in Period : ~A!Locked(r, w)
    BY <1>8 DEF A!DeleteRule
  <2>4. counter' = [counter EXCEPT ![r] = [w \in Period |-> 0]]
    BY <1>8 DEF A!DeleteRule
  <2>5. [w \in Period |-> 0] \in [Period -> 0 .. MaxCount]
    BY AlertBounds
  <2>6. /\ counter' \in [Rule -> [Period -> 0 .. MaxCount]] /\ \A x \in Rule \ {r} : counter'[x] = counter[x]
        /\ \A w \in Period : counter'[r][w] = 0
    BY <1>1, <2>4, <2>5
  <2>. QED
    BY <1>1, <1>2, <1>3, <2>1, <2>2, <2>3, <2>6, RulesGo
<1>. QED
  BY <1>5, <1>6, <1>7, <1>8
-----------------------------------------------------------------------------
(* What resolving leaves of an alert. *)
LEMMA AlertExcept ==
  ASSUME NEW x \in AlertType
  PROVE  /\ [x EXCEPT !.status = "RESOLVED"] \in AlertType /\ [x EXCEPT !.status = "RESOLVED"].status = "RESOLVED"
         /\ [x EXCEPT !.status = "RESOLVED"].rule = x.rule /\ [x EXCEPT !.status = "RESOLVED"].by = x.by
BY DEF AlertType

(* resolveAlert. *)
LEMMA Resolving ==
  ASSUME AlertsInv, NEW b \in A!Alert, A!ResolveAlert(b)
  PROVE  AlertsInv'
<1>1. alerts \in [A!Alert -> AlertType] /\ alerts[b] \in AlertType /\ repairs \in 0 .. MaxRepairs
  BY AlertTypes
<1>2. UNCHANGED <<rules, counter, incident, handler, recorder, pages, failures, owed, doubled, touched, missed>>
      /\ repairs' \in 0 .. MaxRepairs
  BY <1>1, AlertBounds DEF A!ResolveAlert, A!Repair, A!history
<1>3. alerts' = [alerts EXCEPT ![b] = [alerts[b] EXCEPT !.status = "RESOLVED"]] /\ alerts[b].status = "OPEN"
  BY <1>1 DEF A!ResolveAlert
<1>4. /\ alerts' \in [A!Alert -> AlertType]
      /\ \A a \in A!Alert : /\ alerts'[a].rule = alerts[a].rule /\ alerts'[a].by = alerts[a].by
                            /\ alerts'[a].status = "none" <=> alerts[a].status = "none"
                            /\ alerts'[a].status = "OPEN" => alerts[a].status = "OPEN"
  BY <1>1, <1>3, AlertExcept
<1>5. A!TypeOK'
  BY <1>2, <1>4 DEF AlertsInv, A!TypeOK, AlertType
<1>6. \A h \in Worker : \A r, w : Raising(h, r, w)' <=> Raising(h, r, w)
  BY <1>2 DEF Raising
<1>7. \A r, w : A!Locked(r, w)' <=> A!Locked(r, w)
  BY <1>6, LockedIs
<1>8. \A r : Alerted(r)' <=> Alerted(r)
  BY <1>2, <1>4 DEF Alerted
<1>9. \A a \in A!Alert : \A r, w : OpenBy(a, r, w)' => OpenBy(a, r, w)
  BY <1>4 DEF OpenBy
<1>10. RulesKnown' /\ ByHand' /\ Apart' /\ OneOpen' /\ Unpaged'
  BY <1>2, <1>4, <1>6, <1>9 DEF AlertsInv, RulesKnown, ByHand, Apart, OneOpen, Unpaged
<1>11. \A h \in Worker : Employed(h)'
  BY <1>2, <1>4 DEF AlertsInv, Employed
<1>12. Locks' /\ Reached'
  BY <1>2, <1>6, <1>7, <1>8, <1>9 DEF AlertsInv, Locks, Reached
<1>13. Owing'
  BY <1>2, <1>7 DEF AlertsInv, Owing, Exceeds, Pending
<1>. QED
  BY <1>5, <1>10, <1>11, <1>12, <1>13 DEF AlertsInv
-----------------------------------------------------------------------------
(* What a handler keeps that begins or goes on to count. *)
LEMMA DoingCounts ==
  ASSUME NEW x \in A!DoingType, NEW t \in SUBSET Rule
  PROVE  /\ [x EXCEPT !.pc = "count", !.todo = t] \in A!DoingType
         /\ [x EXCEPT !.pc = "count", !.todo = t].pc = "count"
         /\ [x EXCEPT !.pc = "count", !.todo = t].event = x.event
         /\ [x EXCEPT !.pc = "count", !.todo = t].rule = x.rule
         /\ [x EXCEPT !.pc = "count", !.todo = t].todo = t
         /\ [x EXCEPT !.pc = "count", !.rule = {}] \in A!DoingType
         /\ [x EXCEPT !.pc = "count", !.rule = {}].pc = "count"
         /\ [x EXCEPT !.pc = "count", !.rule = {}].event = x.event
         /\ [x EXCEPT !.pc = "count", !.rule = {}].rule = {}
         /\ [x EXCEPT !.pc = "count", !.rule = {}].todo = x.todo
BY DEF A!DoingType

(* What a handler keeps whose page was published. *)
LEMMA DoingGoesOn ==
  ASSUME NEW x \in A!DoingType, NEW p \in {"revoke", "count"}
  PROVE  /\ [x EXCEPT !.alert = 0, !.pc = p] \in A!DoingType
         /\ [x EXCEPT !.alert = 0, !.pc = p].pc = p
         /\ [x EXCEPT !.alert = 0, !.pc = p].event = x.event
         /\ [x EXCEPT !.alert = 0, !.pc = p].rule = x.rule
         /\ [x EXCEPT !.alert = 0, !.pc = p].todo = x.todo
<1>1. 0 \in 0 .. MaxAlerts
  BY AlertBounds
<1>. QED
  BY <1>1 DEF A!DoingType

(* What a handler keeps that has raised an alert. *)
LEMMA DoingPublishes ==
  ASSUME NEW x \in A!DoingType, NEW a \in A!Alert
  PROVE  /\ [x EXCEPT !.pc = "publish", !.alert = a] \in A!DoingType
         /\ [x EXCEPT !.pc = "publish", !.alert = a].pc = "publish"
         /\ [x EXCEPT !.pc = "publish", !.alert = a].event = x.event
         /\ [x EXCEPT !.pc = "publish", !.alert = a].rule = x.rule
         /\ [x EXCEPT !.pc = "publish", !.alert = a].todo = x.todo
         /\ [x EXCEPT !.pc = "publish", !.alert = a].alert = a
<1>1. a \in 0 .. MaxAlerts
  BY AlertBounds DEF A!Alert
<1>. QED
  BY <1>1 DEF A!DoingType

(* What a handler keeps that has counted for a rule. *)
LEMMA DoingCounted ==
  ASSUME NEW x \in A!DoingType, NEW t
  PROVE  /\ [x EXCEPT !.todo = @ \ t] \in A!DoingType
         /\ [x EXCEPT !.todo = @ \ t].pc = x.pc
         /\ [x EXCEPT !.todo = @ \ t].event = x.event
         /\ [x EXCEPT !.todo = @ \ t].rule = x.rule
         /\ [x EXCEPT !.todo = @ \ t].todo = x.todo \ t
         /\ [x EXCEPT !.todo = @ \ t].alert = x.alert
BY DEF A!DoingType

(* What a handler keeps that has counted and is going to revoke or to      *)
(* raise.                                                                  *)
LEMMA DoingGives ==
  ASSUME NEW x \in A!DoingType, NEW r \in Rule
  PROVE  /\ [x EXCEPT !.pc = "revoke", !.rule = {r}] \in A!DoingType
         /\ [x EXCEPT !.pc = "revoke", !.rule = {r}].pc = "revoke"
         /\ [x EXCEPT !.pc = "revoke", !.rule = {r}].event = x.event
         /\ [x EXCEPT !.pc = "revoke", !.rule = {r}].rule = {r}
         /\ [x EXCEPT !.pc = "revoke", !.rule = {r}].todo = x.todo
         /\ [x EXCEPT !.pc = "raise", !.rule = {r}] \in A!DoingType
         /\ [x EXCEPT !.pc = "raise", !.rule = {r}].pc = "raise"
         /\ [x EXCEPT !.pc = "raise", !.rule = {r}].event = x.event
         /\ [x EXCEPT !.pc = "raise", !.rule = {r}].rule = {r}
         /\ [x EXCEPT !.pc = "raise", !.rule = {r}].todo = x.todo
BY DEF A!DoingType

(* What a request keeps that has counted by hand. *)
LEMMA HandCounted ==
  ASSUME NEW x \in A!DoingType
  PROVE  /\ [x EXCEPT !.pc = "raise"] \in A!DoingType /\ [x EXCEPT !.pc = "raise"].pc = "raise"
         /\ [x EXCEPT !.pc = "raise"].rule = x.rule
BY DEF A!DoingType

(* What a handler is that takes up an event. *)
LEMMA TakenUp ==
  ASSUME NEW e \in Incident
  PROVE  LET q == [A!Vacant EXCEPT !.pc = "rules", !.event = {e}]
         IN  /\ q \in A!DoingType /\ q.pc = "rules" /\ q.event = {e} /\ q.rule = {} /\ q.todo = {}
BY VacantIs DEF A!DoingType

(* What is known of a handler at work.                                     *)
LEMMA AtWork ==
  ASSUME AlertsInv, NEW h \in Worker
  PROVE  /\ handler[h] \in A!DoingType
         /\ handler[h].pc = "vacant" <=> handler[h] = A!Vacant
         /\ handler[h].pc # "vacant" => \E e \in Incident : handler[h].event = {e}
         /\ \A r \in handler[h].todo \cup handler[h].rule : r \in Rule /\ rules[r].is # "none"
         /\ handler[h].pc \in {"raise", "publish", "revoke"} => \E r \in Rule : handler[h].rule = {r}
         /\ \A e \in handler[h].event : e \notin doubled => incident[e].at = "queued"
         /\ \A k \in Worker \ {h} : \A e \in handler[h].event : e \in handler[k].event => e \in doubled
<1>1. handler[h] \in A!DoingType
  BY AlertTypes
<1>2. Employed(h)
  BY DEF AlertsInv
<1>3. \A k \in Worker \ {h} : \A e \in handler[h].event : e \in handler[k].event => e \in doubled
  BY DEF AlertsInv, Apart
<1>. QED
  BY <1>1, <1>2, <1>3, VacantIs DEF Employed, A!DoingType

(* An event is delivered, possibly while another handler has it. *)
LEMMA Delivering ==
  ASSUME AlertsInv, NEW h \in Worker, NEW e \in Incident, A!Deliver(h, e)
  PROVE  AlertsInv'
<1>. DEFINE q == [A!Vacant EXCEPT !.pc = "rules", !.event = {e}]
<1>1. /\ q \in A!DoingType /\ q.pc = "rules" /\ q.event = {e} /\ q.rule = {} /\ q.todo = {}
  BY TakenUp
<1>2. /\ handler' = [handler EXCEPT ![h] = q] /\ handler[h].pc = "vacant" /\ incident[e].at = "queued"
      /\ doubled' = IF \E k \in Worker : e \in handler[k].event THEN doubled \cup {e} ELSE doubled
  BY VacantIs DEF A!Deliver, A!Do
<1>3. UNCHANGED <<rules, counter, alerts, incident, recorder, pages, repairs, failures, owed, touched, missed>>
  BY DEF A!Deliver
<1>4. /\ failures \in 0 .. MaxFailures /\ pages \in [A!Alert -> 0 .. 1] /\ incident \in [Incident -> IncidentType]
      /\ doubled \in SUBSET Incident
  BY AlertTypes
<1>5. \A k \in Worker \ {h} : e \in handler[k].event => e \in doubled'
  BY <1>2
<1>6. doubled' \in SUBSET Incident /\ doubled \subseteq doubled'
  BY <1>2, <1>4
<1>7. \A x \in Incident, r \in Rule : <<x, r>> \in owed' /\ r \notin touched /\ x \notin doubled' =>
        incident'[x].at # "consumed"
  BY <1>3, <1>6 DEF AlertsInv, Owing
<1>. HIDE DEF q
<1>. QED
  BY <1>1, <1>2, <1>3, <1>4, <1>5, <1>6, <1>7, HandlerGoes

(* The rules that are enabled are found: a rule somebody is owed for is    *)
(* among them.                                                             *)
LEMMA FindingRules ==
  ASSUME AlertsInv, NEW h \in Worker, A!FindRules(h)
  PROVE  AlertsInv'
<1>. DEFINE t == {r \in Rule : rules[r].enabled}
            q == [handler[h] EXCEPT !.pc = "count", !.todo = t]
<1>1. /\ q \in A!DoingType /\ q.pc = "count" /\ q.event = handler[h].event /\ q.rule = handler[h].rule
      /\ q.todo = t
  <2>1. handler[h] \in A!DoingType /\ t \in SUBSET Rule
    BY AtWork
  <2>. HIDE DEF t
  <2>. QED
    BY <2>1, DoingCounts
<1>2. handler' = [handler EXCEPT ![h] = q] /\ handler[h].pc = "rules"
  BY DEF A!FindRules, A!Do
<1>3. UNCHANGED <<rules, counter, alerts, incident, recorder, pages, repairs, failures, owed, doubled, touched,
                  missed>>
  BY DEF A!FindRules, A!history
<1>4. /\ failures \in 0 .. MaxFailures /\ pages \in [A!Alert -> 0 .. 1] /\ incident \in [Incident -> IncidentType]
      /\ doubled \in SUBSET Incident
  BY AlertTypes
<1>5. \A r \in q.todo \cup q.rule : r \in Rule /\ rules[r].is # "none"
  BY <1>1, AtWork DEF AlertsInv, RulesKnown
<1>6. \A x \in Incident, r \in Rule : <<x, r>> \in owed' /\ r \notin touched /\ x \notin doubled' =>
        incident'[x].at # "consumed" /\ r \in q.todo
  BY <1>1, <1>3 DEF AlertsInv, Owing, RulesKnown
<1>7. \E e \in Incident : /\ q.event = {e} /\ handler[h].event = {e}
                          /\ \A k \in Worker \ {h} : e \in handler[k].event => e \in doubled'
  BY <1>1, <1>2, <1>3, AtWork
<1>. HIDE DEF q
<1>. QED
  BY <1>1, <1>2, <1>3, <1>4, <1>5, <1>6, <1>7, HandlerGoes

(* The page of an alert is published or lost, by the one handler that      *)
(* raised it.                                                              *)
LEMMA Publishing ==
  ASSUME AlertsInv, NEW h \in Worker, A!PublishAlert(h)
  PROVE  AlertsInv'
<1>. DEFINE p == IF \E r \in handler[h].rule : rules[r].blocks THEN "revoke" ELSE "count"
            q == [handler[h] EXCEPT !.alert = 0, !.pc = p]
<1>1. /\ q \in A!DoingType /\ q.pc = p /\ q.event = handler[h].event /\ q.rule = handler[h].rule
      /\ q.todo = handler[h].todo
  <2>1. handler[h] \in A!DoingType /\ p \in {"revoke", "count"}
    BY AtWork
  <2>. HIDE DEF p
  <2>. QED
    BY <2>1, DoingGoesOn
<1>2. handler' = [handler EXCEPT ![h] = q] /\ handler[h].pc = "publish"
  BY DEF A!PublishAlert, A!Do
<1>3. UNCHANGED <<rules, counter, alerts, incident, recorder, repairs, failures, owed, doubled, touched, missed>>
  BY DEF A!PublishAlert, A!history
<1>4. /\ failures \in 0 .. MaxFailures /\ pages \in [A!Alert -> 0 .. 1] /\ incident \in [Incident -> IncidentType]
      /\ doubled \in SUBSET Incident
  BY AlertTypes
<1>5. \A r \in q.todo \cup q.rule : r \in Rule /\ rules[r].is # "none"
  BY <1>1, AtWork
<1>6. PICK b \in Rule : handler[h].rule = {b}
  BY <1>2, AtWork
<1>7. PICK n \in {0, 1} : pages' = [pages EXCEPT ![handler[h].alert] = pages[handler[h].alert] + n]
  BY DEF A!PublishAlert
<1>8. handler[h].alert \in A!Alert /\ pages[handler[h].alert] = 0
  BY <1>2 DEF AlertsInv, Employed
<1>9. pages' \in [A!Alert -> 0 .. 1] /\ \A a \in A!Alert : pages'[a] # pages[a] => a = handler[h].alert
  BY <1>4, <1>7, <1>8
<1>10. ASSUME NEW x \in Incident, NEW r \in Rule, <<x, r>> \in owed, r \notin touched, x \notin doubled
       PROVE  /\ incident[x].at # "consumed"
              /\ x \in q.event => r \in q.todo \/ (q.pc = "revoke" /\ q.rule = {r})
  <2>1. /\ incident[x].at # "consumed" /\ rules[r].blocks
        /\ x \in handler[h].event => r \in handler[h].todo \/ handler[h].rule = {r}
    BY <1>2, <1>10 DEF AlertsInv, Owing, Pending
  <2>2. handler[h].rule = {r} => p = "revoke"
    BY <2>1
  <2>. QED
    BY <1>1, <2>1, <2>2
<1>11. \E e \in Incident : /\ q.event = {e} /\ handler[h].event = {e}
                           /\ \A k \in Worker \ {h} : e \in handler[k].event => e \in doubled'
  BY <1>1, <1>2, <1>3, AtWork
<1>12. q.pc \in {"revoke", "count"} /\ q.rule = {b}
  BY <1>1, <1>6
<1>. HIDE DEF q, p
<1>. QED
  BY <1>1, <1>2, <1>3, <1>4, <1>5, <1>9, <1>10, <1>11, <1>12, HandlerGoes

(* The revocation is attempted and no longer owed. *)
LEMMA Revoking ==
  ASSUME AlertsInv, NEW h \in Worker, A!RevokeAllSessions(h)
  PROVE  AlertsInv'
<1>. DEFINE q == [handler[h] EXCEPT !.pc = "count", !.rule = {}]
<1>1. /\ q \in A!DoingType /\ q.pc = "count" /\ q.event = handler[h].event /\ q.rule = {}
      /\ q.todo = handler[h].todo
  BY AtWork, DoingCounts
<1>2. handler' = [handler EXCEPT ![h] = q] /\ handler[h].pc = "revoke"
  BY DEF A!RevokeAllSessions, A!Do
<1>3. UNCHANGED <<rules, counter, alerts, incident, recorder, pages, repairs, failures, doubled, touched, missed>>
      /\ owed' = owed \ (Incident \X handler[h].rule)
  BY DEF A!RevokeAllSessions
<1>4. /\ failures \in 0 .. MaxFailures /\ pages \in [A!Alert -> 0 .. 1] /\ incident \in [Incident -> IncidentType]
      /\ doubled \in SUBSET Incident
  BY AlertTypes
<1>5. \A r \in q.todo \cup q.rule : r \in Rule /\ rules[r].is # "none"
  BY <1>1, AtWork
<1>6. ASSUME NEW x \in Incident, NEW r \in Rule, <<x, r>> \in owed', r \notin touched, x \notin doubled
      PROVE  incident[x].at # "consumed" /\ (x \in q.event => r \in q.todo)
  <2>1. <<x, r>> \in owed /\ r \notin handler[h].rule
    BY <1>3, <1>6
  <2>2. /\ incident[x].at # "consumed"
        /\ x \in handler[h].event => r \in handler[h].todo \/ handler[h].rule = {r}
    BY <1>2, <1>6, <2>1 DEF AlertsInv, Owing, Pending
  <2>. QED
    BY <1>1, <2>1, <2>2
<1>7. \E e \in Incident : /\ q.event = {e} /\ handler[h].event = {e}
                          /\ \A k \in Worker \ {h} : e \in handler[k].event => e \in doubled'
  BY <1>1, <1>2, <1>3, AtWork
<1>. HIDE DEF q
<1>. QED
  BY <1>1, <1>2, <1>3, <1>4, <1>5, <1>6, <1>7, HandlerGoes

(* What consuming and putting aside leave of an event. *)
LEMMA IncidentExcept ==
  ASSUME NEW x \in IncidentType, NEW at \in {"queued", "consumed", "dead"}
  PROVE  [x EXCEPT !.at = at] \in IncidentType /\ [x EXCEPT !.at = at].at = at
         /\ [x EXCEPT !.at = at].window = x.window
BY DEF IncidentType

(* The event is recorded as consumed: nothing is owed for it that its      *)
(* handler has not attempted.                                              *)
LEMMA Consuming ==
  ASSUME AlertsInv, NEW h \in Worker, A!RecordConsumed(h)
  PROVE  AlertsInv'
<1>1. handler' = [handler EXCEPT ![h] = A!Vacant] /\ handler[h].pc = "count" /\ handler[h].todo = {}
  BY DEF A!RecordConsumed, A!Do
<1>2. UNCHANGED <<rules, counter, alerts, recorder, pages, repairs, failures, owed, doubled, touched, missed>>
  BY DEF A!RecordConsumed, A!history
<1>3. /\ failures \in 0 .. MaxFailures /\ pages \in [A!Alert -> 0 .. 1] /\ incident \in [Incident -> IncidentType]
      /\ doubled \in SUBSET Incident
  BY AlertTypes
<1>. DEFINE now(e) == IF e \in handler[h].event THEN [incident[e] EXCEPT !.at = "consumed"] ELSE incident[e]
<1>4. \A e \in Incident : now(e) \in IncidentType /\ now(e).window = incident[e].window
                          /\ (e \notin handler[h].event => now(e) = incident[e])
  BY <1>3, IncidentExcept
<1>5. incident' = [e \in Incident |-> now(e)]
  BY DEF A!RecordConsumed
<1>. HIDE DEF now
<1>6. \A e \in Incident : incident'[e].window = incident[e].window
                          /\ (e \notin handler[h].event => incident'[e] = incident[e])
  BY <1>4, <1>5
<1>7. incident' \in [Incident -> IncidentType]
  BY <1>4, <1>5
<1>8. \A x \in Incident, r \in Rule : <<x, r>> \in owed /\ r \notin touched /\ x \notin doubled =>
        incident'[x].at # "consumed"
  BY <1>1, <1>6 DEF AlertsInv, Owing, Pending
<1>. QED
  BY <1>1, <1>2, <1>3, <1>6, <1>7, <1>8, VacantIs, HandlerGoes
-----------------------------------------------------------------------------
(* A counter that nobody holds goes up by one.                             *)
LEMMA Counting ==
  ASSUME AlertsInv, NEW r \in Rule, NEW w \in Period, A!Counted(r, w)
  PROVE  /\ counter' \in [Rule -> [Period -> 0 .. MaxCount]]
         /\ counter'[r][w] = counter[r][w] + 1 /\ ~A!Locked(r, w)
         /\ \A x \in Rule : \A v \in Period : x # r \/ v # w => counter'[x][v] = counter[x][v]
         /\ \A x \in Rule : \A v \in Period : counter'[x][v] >= counter[x][v]
<1>1. counter \in [Rule -> [Period -> 0 .. MaxCount]] /\ counter[r] \in [Period -> 0 .. MaxCount]
      /\ counter[r][w] \in 0 .. MaxCount
  BY AlertTypes
<1>. DEFINE row == [counter[r] EXCEPT ![w] = counter[r][w] + 1]
<1>2. counter' = [counter EXCEPT ![r] = row] /\ counter[r][w] < MaxCount /\ ~A!Locked(r, w)
  BY <1>1 DEF A!Counted
<1>3. row \in [Period -> 0 .. MaxCount] /\ row[w] = counter[r][w] + 1
      /\ \A v \in Period \ {w} : row[v] = counter[r][v]
  <2>1. counter[r][w] + 1 \in 0 .. MaxCount
    BY <1>1, <1>2, AlertBounds
  <2>. QED
    BY <1>1, <2>1
<1>. HIDE DEF row
<1>4. /\ counter' \in [Rule -> [Period -> 0 .. MaxCount]] /\ counter'[r][w] = counter[r][w] + 1
      /\ \A x \in Rule : \A v \in Period : x # r \/ v # w => counter'[x][v] = counter[x][v]
  BY <1>1, <1>2, <1>3
<1>5. \A x \in Rule : \A v \in Period : counter[x][v] \in Nat
  BY AlertTypes
<1>6. ASSUME NEW x \in Rule, NEW v \in Period
      PROVE  counter'[x][v] >= counter[x][v]
  <2>1. CASE x = r /\ v = w
    BY <1>4, <1>5, <2>1
  <2>2. CASE x # r \/ v # w
    BY <1>4, <1>5, <2>2
  <2>. QED
    BY <2>1, <2>2
<1>. QED
  BY <1>2, <1>4, <1>6

(* A handler counts its event for a rule, and goes on to q.                *)
LEMMA HandlerCounts ==
  ASSUME AlertsInv, NEW h \in Worker, NEW e \in Incident, NEW r \in Rule, NEW w \in Period,
         NEW q \in A!DoingType, handler[h].pc = "count", handler[h].event = {e}, r \in handler[h].todo,
         w = incident[e].window, A!Counted(r, w), handler' = [handler EXCEPT ![h] = q],
         q.event = {e}, q.todo = handler[h].todo \ {r},
         UNCHANGED <<rules, alerts, incident, recorder, pages, repairs, failures, doubled, touched, missed>>,
         \/ /\ q.pc = "count" /\ q.rule = handler[h].rule /\ owed' = owed
            /\ ~A!ReachesThreshold(r, w) \/ (A!Open(r) # {} /\ ~rules[r].blocks)
         \/ /\ q.pc = "revoke" /\ q.rule = {r} /\ owed' = owed \cup {<<e, r>>} /\ rules[r].blocks
            /\ A!ReachesThreshold(r, w) /\ A!Open(r) # {}
         \/ /\ q.pc = "raise" /\ q.rule = {r} /\ owed' = owed
            /\ A!ReachesThreshold(r, w) /\ A!Open(r) = {}
  PROVE  AlertsInv'
<1>1. /\ handler'[h] = q /\ \A k \in Worker \ {h} : handler'[k] = handler[k]
      /\ handler' \in [Worker -> A!DoingType]
  BY AlertTypes
<1>2. /\ counter' \in [Rule -> [Period -> 0 .. MaxCount]]
      /\ counter'[r][w] = counter[r][w] + 1 /\ ~A!Locked(r, w)
      /\ \A x \in Rule : \A v \in Period : x # r \/ v # w => counter'[x][v] = counter[x][v]
      /\ \A x \in Rule : \A v \in Period : counter'[x][v] >= counter[x][v]
  BY Counting
<1>3. /\ \A x \in Rule : \A v \in Period : counter[x][v] \in Nat /\ counter'[x][v] \in Nat
      /\ \A x \in Rule : rules[x].threshold \in Nat /\ rules[x].threshold >= 1
      /\ owed \in SUBSET (Incident \X Rule)
  BY <1>2, AlertTypes, AlertBounds
<1>4. A!TypeOK'
  <2>1. owed' \in SUBSET (Incident \X Rule)
    BY <1>3
  <2>. QED
    BY <1>1, <1>2, <2>1 DEF AlertsInv, A!TypeOK
<1>5. A!ReachesThreshold(r, w) <=> counter'[r][w] >= rules[r].threshold
  BY <1>2 DEF A!ReachesThreshold
<1>6. A!Open(r) # {} => Alerted(r)
  BY DEF A!Open, Alerted
<1>7. A!Open(r) = {} => \A a \in A!Alert : \A v \in Period : ~OpenBy(a, r, v)
  BY DEF A!Open, OpenBy
<1>8. /\ \A k \in Worker \ {h} : \A x, v : Raising(k, x, v)' <=> Raising(k, x, v)
      /\ \A x, v : ~Raising(h, x, v)
      /\ \A x, v : Raising(h, x, v)' <=> q.pc = "raise" /\ x = r /\ v = w
  BY <1>1 DEF Raising
<1>9. \A x, v : A!Locked(x, v)' <=> A!Locked(x, v) \/ (q.pc = "raise" /\ x = r /\ v = w)
  BY <1>8, LockedIs
<1>10. \A x : Alerted(x)' <=> Alerted(x)
  BY DEF Alerted
<1>11. \A k \in Worker : ~Raising(k, r, w)
  BY <1>2, LockedIs
<1>12. rules[r].is # "none"
  BY AtWork
<1>13. RulesKnown'
  BY <1>2, <1>12 DEF AlertsInv, RulesKnown
<1>14. ByHand' /\ OneOpen' /\ Unpaged'
  BY DEF AlertsInv, ByHand, OneOpen, OpenBy, Unpaged
<1>15. ASSUME NEW k \in Worker
       PROVE  Employed(k)'
  <2>1. CASE k = h
    <3>1. \A x \in q.todo \cup q.rule : rules[x].is # "none"
      BY <1>12, AtWork
    <3>2. e \notin doubled => incident[e].at = "queued"
      BY AtWork
    <3>. QED
      BY <1>1, <2>1, <3>1, <3>2 DEF Employed
  <2>2. CASE k # h
    BY <1>1, <2>2 DEF AlertsInv, Employed
  <2>. QED
    BY <2>1, <2>2
<1>16. Apart'
  <2>. SUFFICES ASSUME NEW k \in Worker, NEW l \in Worker, k # l
                PROVE  /\ handler'[k].event \cap handler'[l].event \subseteq doubled
                       /\ handler'[k].pc = "publish" /\ handler'[l].pc = "publish" =>
                            handler'[k].alert # handler'[l].alert
                       /\ \A x \in Rule, v \in Period : ~(Raising(k, x, v)' /\ Raising(l, x, v)')
    BY DEF Apart
  <2>1. handler'[k].event = handler[k].event /\ handler'[l].event = handler[l].event
    BY <1>1
  <2>2. handler'[k].pc = "publish" /\ handler'[l].pc = "publish" => k # h /\ l # h
    BY <1>1
  <2>3. \A x \in Rule, v \in Period : ~(Raising(k, x, v)' /\ Raising(l, x, v)')
    BY <1>8, <1>11 DEF AlertsInv, Apart
  <2>. QED
    BY <1>1, <2>1, <2>2, <2>3 DEF AlertsInv, Apart
<1>17. Locks'
  <2>. SUFFICES ASSUME NEW k \in Worker, NEW x \in Rule, NEW v \in Period, Raising(k, x, v)'
                PROVE  /\ counter'[x][v] >= rules[x].threshold
                       /\ counter'[x][v] > rules[x].threshold => Alerted(x)
                       /\ \A a \in A!Alert : ~OpenBy(a, x, v)
    BY <1>10 DEF Locks, OpenBy
  <2>1. CASE k = h
    <3>1. q.pc = "raise" /\ x = r /\ v = w
      BY <1>8, <2>1
    <3>2. counter'[r][w] > rules[r].threshold => counter[r][w] >= rules[r].threshold
      BY <1>2, <1>3
    <3>3. counter[r][w] >= rules[r].threshold => Alerted(r)
      BY <1>2 DEF AlertsInv, Reached
    <3>. QED
      BY <1>5, <1>7, <3>1, <3>2, <3>3
  <2>2. CASE k # h
    <3>1. Raising(k, x, v) /\ counter'[x][v] = counter[x][v]
      BY <1>2, <1>8, <1>11, <2>2
    <3>. QED
      BY <3>1 DEF AlertsInv, Locks
  <2>. QED
    BY <2>1, <2>2
<1>18. Reached'
  <2>. SUFFICES ASSUME NEW x \in Rule, NEW v \in Period, counter'[x][v] >= rules[x].threshold,
                       ~A!Locked(x, v)'
                PROVE  Alerted(x)
    BY <1>10 DEF Reached
  <2>1. CASE x = r /\ v = w
    BY <1>5, <1>6, <1>9, <2>1
  <2>2. CASE x # r \/ v # w
    BY <1>2, <1>9, <2>2 DEF AlertsInv, Reached
  <2>. QED
    BY <2>1, <2>2
<1>19. ASSUME NEW x \in Rule, NEW v \in Period, Exceeds(x, v)
       PROVE  Exceeds(x, v)'
  <2>1. counter'[x][v] >= rules[x].threshold
    BY <1>2, <1>3, <1>19 DEF Exceeds
  <2>2. A!Locked(x, v) => counter'[x][v] > rules[x].threshold
    BY <1>2, <1>3, <1>19 DEF Exceeds
  <2>3. x = r /\ v = w => counter'[x][v] > rules[x].threshold
    BY <1>2, <1>3, <1>19 DEF Exceeds
  <2>. QED
    BY <1>9, <2>1, <2>2, <2>3 DEF Exceeds
<1>20. Owing'
  <2>. SUFFICES ASSUME NEW y \in Incident, NEW x \in Rule, <<y, x>> \in owed', x \notin touched, y \notin doubled
                PROVE  /\ incident[y].at # "consumed" /\ rules[x].is # "none" /\ rules[x].blocks
                       /\ Exceeds(x, incident[y].window)' /\ \A k \in Worker : Pending(k, y, x)'
    BY DEF Owing
  <2>0. incident[y].window \in Period
    BY AlertTypes DEF IncidentType
  <2>1. CASE <<y, x>> \in owed
    <3>1. /\ incident[y].at # "consumed" /\ rules[x].is # "none" /\ rules[x].blocks
          /\ Exceeds(x, incident[y].window) /\ \A k \in Worker : Pending(k, y, x)
      BY <2>1 DEF AlertsInv, Owing
    <3>2. y = e /\ x = r => A!ReachesThreshold(r, w)
      BY <1>2, <1>3, <1>5, <3>1 DEF Exceeds
    <3>3. Pending(h, y, x)'
      BY <1>1, <3>1, <3>2 DEF Pending
    <3>4. \A k \in Worker : Pending(k, y, x)'
      BY <1>1, <3>1, <3>3 DEF Pending
    <3>. QED
      BY <1>19, <2>0, <3>1, <3>4
  <2>2. CASE <<y, x>> \notin owed
    <3>1. y = e /\ x = r /\ q.pc = "revoke" /\ q.rule = {r} /\ rules[r].blocks /\ A!ReachesThreshold(r, w)
      BY <2>2
    <3>2. incident[e].at = "queued" /\ \A k \in Worker \ {h} : e \notin handler[k].event
      BY <3>1, AtWork
    <3>3. Exceeds(r, w)'
      BY <1>2, <1>5, <1>9, <3>1 DEF Exceeds
    <3>4. \A k \in Worker : Pending(k, y, x)'
      BY <1>1, <3>1, <3>2 DEF Pending
    <3>. QED
      BY <1>12, <3>1, <3>2, <3>3, <3>4
  <2>. QED
    BY <2>1, <2>2
<1>. QED
  BY <1>4, <1>13, <1>14, <1>15, <1>16, <1>17, <1>18, <1>20 DEF AlertsInv

(* processRuleType, up to its query for an open alert. *)
LEMMA CountingEvent ==
  ASSUME AlertsInv, NEW h \in Worker, A!CountEvent(h)
  PROVE  AlertsInv'
<1>1. handler[h].pc = "count" /\ handler[h] \in A!DoingType
  BY AtWork DEF A!CountEvent
<1>2. PICK e \in handler[h].event, r \in handler[h].todo :
        /\ A!Counted(r, incident[e].window)
        /\ A!CountOnly(h, e, r) \/ A!AlertIsOpen(h, e, r) \/ A!NoAlertIsOpen(h, e, r)
  BY DEF A!CountEvent
<1>3. UNCHANGED <<rules, alerts, incident, recorder, pages, repairs, failures, doubled, touched, missed>>
  BY DEF A!CountEvent
<1>4. e \in Incident /\ handler[h].event = {e} /\ r \in Rule
  BY <1>1, AtWork DEF A!DoingType
<1>. DEFINE w == incident[e].window
            t == [handler[h] EXCEPT !.todo = @ \ {r}]
<1>5. w \in Period
  BY <1>4, AlertTypes DEF IncidentType
<1>6. /\ t \in A!DoingType /\ t.pc = "count" /\ t.event = {e} /\ t.rule = handler[h].rule
      /\ t.todo = handler[h].todo \ {r}
  BY <1>1, <1>4, DoingCounted
<1>7. t = A!After(h, r)
  BY DEF A!After
<1>8. /\ [t EXCEPT !.pc = "revoke", !.rule = {r}] \in A!DoingType
      /\ [t EXCEPT !.pc = "revoke", !.rule = {r}].pc = "revoke"
      /\ [t EXCEPT !.pc = "revoke", !.rule = {r}].event = {e}
      /\ [t EXCEPT !.pc = "revoke", !.rule = {r}].rule = {r}
      /\ [t EXCEPT !.pc = "revoke", !.rule = {r}].todo = handler[h].todo \ {r}
  <2>. HIDE DEF t
  <2>1. /\ [t EXCEPT !.pc = "revoke", !.rule = {r}] \in A!DoingType
        /\ [t EXCEPT !.pc = "revoke", !.rule = {r}].pc = "revoke"
        /\ [t EXCEPT !.pc = "revoke", !.rule = {r}].event = t.event
        /\ [t EXCEPT !.pc = "revoke", !.rule = {r}].rule = {r}
        /\ [t EXCEPT !.pc = "revoke", !.rule = {r}].todo = t.todo
    BY <1>4, <1>6, DoingGives
  <2>. QED
    BY <1>6, <2>1
<1>9. /\ [t EXCEPT !.pc = "raise", !.rule = {r}] \in A!DoingType
      /\ [t EXCEPT !.pc = "raise", !.rule = {r}].pc = "raise"
      /\ [t EXCEPT !.pc = "raise", !.rule = {r}].event = {e}
      /\ [t EXCEPT !.pc = "raise", !.rule = {r}].rule = {r}
      /\ [t EXCEPT !.pc = "raise", !.rule = {r}].todo = handler[h].todo \ {r}
  <2>. HIDE DEF t
  <2>1. /\ [t EXCEPT !.pc = "raise", !.rule = {r}] \in A!DoingType
        /\ [t EXCEPT !.pc = "raise", !.rule = {r}].pc = "raise"
        /\ [t EXCEPT !.pc = "raise", !.rule = {r}].event = t.event
        /\ [t EXCEPT !.pc = "raise", !.rule = {r}].rule = {r}
        /\ [t EXCEPT !.pc = "raise", !.rule = {r}].todo = t.todo
    BY <1>4, <1>6, DoingGives
  <2>. QED
    BY <1>6, <2>1
<1>. HIDE DEF t, w
<1>10. CASE A!CountOnly(h, e, r)
  <2>1. handler' = [handler EXCEPT ![h] = t] /\ owed' = owed /\ ~A!ReachesThreshold(r, w)
    BY <1>7, <1>10 DEF A!CountOnly, A!Do, w
  <2>. QED
    BY <1>1, <1>2, <1>3, <1>4, <1>5, <1>6, <2>1, HandlerCounts DEF w
<1>11. CASE A!AlertIsOpen(h, e, r)
  <2>1. A!ReachesThreshold(r, w) /\ A!Open(r) # {}
    BY <1>11 DEF A!AlertIsOpen, w
  <2>2. CASE rules[r].blocks
    <3>1. handler' = [handler EXCEPT ![h] = [t EXCEPT !.pc = "revoke", !.rule = {r}]]
          /\ owed' = owed \cup {<<e, r>>}
      BY <1>7, <1>11, <2>2 DEF A!AlertIsOpen, A!Do
    <3>. QED
      BY <1>1, <1>2, <1>3, <1>4, <1>5, <1>8, <2>1, <2>2, <3>1, HandlerCounts DEF w
  <2>3. CASE ~rules[r].blocks
    <3>1. handler' = [handler EXCEPT ![h] = t] /\ owed' = owed
      BY <1>7, <1>11, <2>3 DEF A!AlertIsOpen, A!Do
    <3>. QED
      BY <1>1, <1>2, <1>3, <1>4, <1>5, <1>6, <2>1, <2>3, <3>1, HandlerCounts DEF w
  <2>. QED
    BY <2>2, <2>3
<1>12. CASE A!NoAlertIsOpen(h, e, r)
  <2>1. A!ReachesThreshold(r, w) /\ A!Open(r) = {} /\ owed' = owed
        /\ handler' = [handler EXCEPT ![h] = [t EXCEPT !.pc = "raise", !.rule = {r}]]
    BY <1>7, <1>12 DEF A!NoAlertIsOpen, A!Do, w
  <2>. QED
    BY <1>1, <1>2, <1>3, <1>4, <1>5, <1>9, <2>1, HandlerCounts DEF w
<1>. QED
  BY <1>2, <1>10, <1>11, <1>12
-----------------------------------------------------------------------------
(* What a new alert is. *)
LEMMA NewAlertType ==
  ASSUME NEW r \in Rule, NEW by \in SUBSET Period
  PROVE  /\ A!NewAlert(r, by) \in AlertType /\ A!NewAlert(r, by).rule = {r}
         /\ A!NewAlert(r, by).status = "OPEN" /\ A!NewAlert(r, by).by = by
BY DEF A!NewAlert, AlertType

(* The alert is inserted, and the row of the counter released. *)
LEMMA Raised ==
  ASSUME AlertsInv, NEW h \in Worker, A!RaiseAlert(h)
  PROVE  AlertsInv'
<1>1. handler[h].pc = "raise" /\ handler[h] \in A!DoingType
  BY AtWork DEF A!RaiseAlert
<1>2. PICK e \in handler[h].event, r \in handler[h].rule, a \in A!Alert :
        /\ A!Free(a) /\ alerts' = [alerts EXCEPT ![a] = A!NewAlert(r, {incident[e].window})]
        /\ A!Do(h, [handler[h] EXCEPT !.pc = "publish", !.alert = a])
        /\ owed' = IF rules[r].blocks THEN owed \cup {<<e, r>>} ELSE owed
  BY DEF A!RaiseAlert
<1>3. UNCHANGED <<rules, counter, incident, recorder, pages, repairs, failures, doubled, touched, missed>>
  BY DEF A!RaiseAlert
<1>4. e \in Incident /\ handler[h].event = {e} /\ r \in Rule /\ handler[h].rule = {r}
  BY <1>1, AtWork DEF A!DoingType
<1>5. PICK w \in Period : w = incident[e].window
  BY <1>4, AlertTypes DEF IncidentType
<1>. DEFINE q == [handler[h] EXCEPT !.pc = "publish", !.alert = a]
            n == A!NewAlert(r, {w})
<1>6. /\ q \in A!DoingType /\ q.pc = "publish" /\ q.event = {e} /\ q.rule = {r}
      /\ q.todo = handler[h].todo /\ q.alert = a
  <2>1. /\ q \in A!DoingType /\ q.pc = "publish" /\ q.event = handler[h].event
        /\ q.rule = handler[h].rule /\ q.todo = handler[h].todo /\ q.alert = a
    BY <1>1, DoingPublishes
  <2>. QED
    BY <1>4, <2>1
<1>7. n \in AlertType /\ n.rule = {r} /\ n.status = "OPEN" /\ n.by = {w}
  <2>1. {w} \in SUBSET Period
    BY <1>5
  <2>. QED
    BY <1>4, <2>1, NewAlertType
<1>8. handler' = [handler EXCEPT ![h] = q] /\ alerts' = [alerts EXCEPT ![a] = n] /\ alerts[a].status = "none"
  BY <1>2, <1>5 DEF A!Do, A!Free
<1>9. Raising(h, r, w)
  BY <1>1, <1>4, <1>5 DEF Raising
<1>. HIDE DEF q, n
<1>10. /\ handler'[h] = q /\ \A k \in Worker \ {h} : handler'[k] = handler[k]
       /\ handler' \in [Worker -> A!DoingType]
  BY <1>6, <1>8, AlertTypes
<1>11. /\ alerts'[a] = n /\ \A b \in A!Alert \ {a} : alerts'[b] = alerts[b]
       /\ alerts' \in [A!Alert -> AlertType]
  BY <1>7, <1>8, AlertTypes
<1>12. A!TypeOK'
  <2>1. owed' \in SUBSET (Incident \X Rule)
    BY <1>2, <1>4, AlertTypes
  <2>. QED
    BY <1>3, <1>10, <1>11, <2>1 DEF AlertsInv, A!TypeOK, AlertType
<1>13. /\ \A k \in Worker \ {h} : \A x, v : Raising(k, x, v)' <=> Raising(k, x, v)
       /\ \A x, v : ~Raising(h, x, v)'
  BY <1>3, <1>6, <1>10 DEF Raising
<1>14. \A k \in Worker \ {h} : ~Raising(k, r, w)
  BY <1>4, <1>5, <1>9 DEF AlertsInv, Apart
<1>15. \A x, v : Raising(h, x, v) => x = r /\ v = w
  BY <1>4, <1>5 DEF Raising
<1>16. \A x, v : A!Locked(x, v)' <=> A!Locked(x, v) /\ ~(x = r /\ v = w)
  BY <1>13, <1>14, <1>15, LockedIs
<1>17. Alerted(r)' /\ \A x : Alerted(x) => Alerted(x)'
  <2>1. Alerted(r)'
    BY <1>7, <1>11 DEF Alerted
  <2>2. ASSUME NEW x, Alerted(x)
        PROVE  Alerted(x)'
    <3>1. \A b \in A!Alert : alerts[b].rule = {x} => x = r \/ alerts'[b].rule = {x}
      <4>1. alerts[a].rule = {x} => x = r \/ alerts'[a].rule = {x}
        \* an alert that is free has no rule
        BY <1>2 DEF AlertsInv, Unpaged, A!Free
      <4>. QED
        BY <1>11, <4>1
    <3>. QED
      BY <1>3, <2>1, <2>2, <3>1 DEF Alerted
  <2>. QED
    BY <2>1, <2>2
<1>18. \A b \in A!Alert : \A x, v : OpenBy(b, x, v)' <=> OpenBy(b, x, v) \/ (b = a /\ x = r /\ v = w)
  <2>1. \A x, v : OpenBy(a, x, v)' <=> x = r /\ v = w
    BY <1>7, <1>11 DEF OpenBy
  <2>2. \A x, v : ~OpenBy(a, x, v)
    BY <1>8 DEF OpenBy
  <2>3. \A b \in A!Alert \ {a} : \A x, v : OpenBy(b, x, v)' <=> OpenBy(b, x, v)
    BY <1>11 DEF OpenBy
  <2>. QED
    BY <2>1, <2>2, <2>3
<1>19. RulesKnown' /\ ByHand'
  BY <1>3 DEF AlertsInv, RulesKnown, ByHand
<1>20. Unpaged' /\ pages[a] = 0
  BY <1>3, <1>7, <1>8, <1>11 DEF AlertsInv, Unpaged
<1>21. ASSUME NEW k \in Worker
       PROVE  Employed(k)'
  <2>1. CASE k = h
    <3>1. \A x \in q.todo \cup q.rule : rules[x].is # "none"
      BY <1>4, <1>6, AtWork
    <3>2. e \notin doubled => incident[e].at = "queued"
      BY <1>4, AtWork
    <3>. QED
      BY <1>3, <1>4, <1>6, <1>7, <1>10, <1>11, <1>20, <2>1, <3>1, <3>2 DEF Employed
  <2>2. CASE k # h
    <3>1. \A b \in A!Alert : alerts[b].status # "none" => alerts'[b].status # "none"
      BY <1>8, <1>11
    <3>. QED
      BY <1>3, <1>10, <2>2, <3>1 DEF AlertsInv, Employed
  <2>. QED
    BY <2>1, <2>2
<1>22. Apart'
  <2>. SUFFICES ASSUME NEW k \in Worker, NEW l \in Worker, k # l
                PROVE  /\ handler'[k].event \cap handler'[l].event \subseteq doubled
                       /\ handler'[k].pc = "publish" /\ handler'[l].pc = "publish" =>
                            handler'[k].alert # handler'[l].alert
                       /\ \A x \in Rule, v \in Period : ~(Raising(k, x, v)' /\ Raising(l, x, v)')
    BY <1>3 DEF Apart
  <2>1. handler'[k].event = handler[k].event /\ handler'[l].event = handler[l].event
    BY <1>4, <1>6, <1>10
  <2>2. \A m \in Worker \ {h} : handler[m].pc = "publish" => handler[m].alert # a
    BY <1>8 DEF AlertsInv, Employed
  <2>3. handler'[k].pc = "publish" /\ handler'[l].pc = "publish" => handler'[k].alert # handler'[l].alert
    BY <1>6, <1>10, <2>2 DEF AlertsInv, Apart
  <2>4. \A x \in Rule, v \in Period : ~(Raising(k, x, v)' /\ Raising(l, x, v)')
    BY <1>13 DEF AlertsInv, Apart
  <2>. QED
    BY <2>1, <2>3, <2>4 DEF AlertsInv, Apart
<1>23. Locks'
  <2>. SUFFICES ASSUME NEW k \in Worker, NEW x \in Rule, NEW v \in Period, Raising(k, x, v)'
                PROVE  /\ counter[x][v] >= rules[x].threshold
                       /\ counter[x][v] > rules[x].threshold => Alerted(x)'
                       /\ \A b \in A!Alert : ~OpenBy(b, x, v)'
    BY <1>3 DEF Locks
  <2>1. k # h /\ Raising(k, x, v) /\ ~(x = r /\ v = w)
    BY <1>13, <1>14
  <2>. QED
    BY <1>17, <1>18, <2>1 DEF AlertsInv, Locks
<1>24. Reached'
  BY <1>3, <1>16, <1>17 DEF AlertsInv, Reached
<1>25. OneOpen'
  <2>1. \A b \in A!Alert : ~OpenBy(b, r, w)
    BY <1>4, <1>5, <1>9 DEF AlertsInv, Locks
  <2>. QED
    BY <1>18, <2>1 DEF AlertsInv, OneOpen
<1>26. Owing'
  <2>. SUFFICES ASSUME NEW y \in Incident, NEW x \in Rule, <<y, x>> \in owed', x \notin touched, y \notin doubled
                PROVE  /\ incident[y].at # "consumed" /\ rules[x].is # "none" /\ rules[x].blocks
                       /\ Exceeds(x, incident[y].window)' /\ \A k \in Worker : Pending(k, y, x)'
    BY <1>3 DEF Owing
  <2>1. CASE <<y, x>> \in owed
    <3>1. /\ incident[y].at # "consumed" /\ rules[x].is # "none" /\ rules[x].blocks
          /\ Exceeds(x, incident[y].window) /\ \A k \in Worker : Pending(k, y, x)
      BY <2>1 DEF AlertsInv, Owing
    <3>2. \A k \in Worker : Pending(k, y, x)'
      BY <1>1, <1>4, <1>6, <1>10, <3>1 DEF Pending
    <3>3. Exceeds(x, incident[y].window)'
      BY <1>3, <1>16, <3>1 DEF Exceeds
    <3>. QED
      BY <3>1, <3>2, <3>3
  <2>2. CASE <<y, x>> \notin owed
    <3>1. y = e /\ x = r /\ rules[r].blocks
      BY <1>2, <2>2
    <3>2. incident[e].at = "queued" /\ \A k \in Worker \ {h} : e \notin handler[k].event
      BY <1>4, <3>1, AtWork
    <3>3. Exceeds(r, w)'
      BY <1>3, <1>4, <1>5, <1>9, <1>16 DEF AlertsInv, Locks, Exceeds
    <3>4. \A k \in Worker : Pending(k, y, x)'
      BY <1>6, <1>10, <3>1, <3>2 DEF Pending
    <3>5. rules[r].is # "none"
      BY <1>4, AtWork
    <3>. QED
      BY <1>3, <1>5, <3>1, <3>2, <3>3, <3>4, <3>5
  <2>. QED
    BY <2>1, <2>2
<1>. QED
  BY <1>12, <1>19, <1>20, <1>21, <1>22, <1>23, <1>24, <1>25, <1>26 DEF AlertsInv
-----------------------------------------------------------------------------
(* A handler throws, or its process stops.                                 *)
LEMMA IncidentGoes ==
  ASSUME AlertsInv, NEW e \in Incident, NEW at \in {"queued", "dead"},
         incident' = IF incident[e].at = "queued" THEN [incident EXCEPT ![e].at = at] ELSE incident
  PROVE  /\ incident' \in [Incident -> IncidentType]
         /\ \A x \in Incident : incident'[x].window = incident[x].window
         /\ \A x \in Incident : incident'[x].at # incident[x].at => x = e
         /\ \A x \in Incident : incident[x].at # "consumed" => incident'[x].at # "consumed"
<1>1. incident \in [Incident -> IncidentType] /\ incident[e] \in IncidentType
  BY AlertTypes
<1>. DEFINE n == [incident[e] EXCEPT !.at = at]
<1>2. n \in IncidentType /\ n.at = at /\ n.window = incident[e].window
  BY <1>1, IncidentExcept
<1>3. incident' = incident \/ incident' = [incident EXCEPT ![e] = n]
  BY <1>1
<1>. HIDE DEF n
<1>4. CASE incident' = incident
  BY <1>1, <1>4
<1>5. CASE incident' = [incident EXCEPT ![e] = n]
  BY <1>1, <1>2, <1>5
<1>. QED
  BY <1>3, <1>4, <1>5

(* The handler stops when it holds no row. *)
LEMMA Stopping ==
  ASSUME AlertsInv, NEW h \in Worker, A!Redeliver(h), handler[h].pc # "raise"
  PROVE  AlertsInv'
<1>1. handler' = [handler EXCEPT ![h] = A!Vacant] /\ failures' = failures + 1 /\ failures < MaxFailures
  BY DEF A!Redeliver, A!Do
<1>2. UNCHANGED <<rules, alerts, recorder, pages, repairs, owed, doubled, touched, missed>>
  BY DEF A!Redeliver, A!history
<1>3. PICK e \in handler[h].event :
        /\ counter' = counter
        /\ \E at \in {"queued", "dead"} :
             incident' = IF incident[e].at = "queued" THEN [incident EXCEPT ![e].at = at] ELSE incident
  BY DEF A!Redeliver
<1>4. e \in Incident
  BY AtWork DEF A!DoingType
<1>5. /\ incident' \in [Incident -> IncidentType]
      /\ \A x \in Incident : incident'[x].window = incident[x].window
      /\ \A x \in Incident : incident'[x].at # incident[x].at => x = e
      /\ \A x \in Incident : incident[x].at # "consumed" => incident'[x].at # "consumed"
  BY <1>3, <1>4, IncidentGoes
<1>6. failures' \in 0 .. MaxFailures
  BY <1>1, AlertTypes, AlertBounds
<1>7. \A x \in Incident, r \in Rule : <<x, r>> \in owed /\ r \notin touched /\ x \notin doubled =>
        incident'[x].at # "consumed"
  BY <1>5 DEF AlertsInv, Owing
<1>8. pages \in [A!Alert -> 0 .. 1] /\ doubled \in SUBSET Incident
  BY AlertTypes
<1>. QED
  BY <1>1, <1>2, <1>3, <1>5, <1>6, <1>7, <1>8, VacantIs, HandlerGoes

(* The handler stops between counting and raising: its count is taken      *)
(* back.                                                                   *)
LEMMA RollingBack ==
  ASSUME AlertsInv, NEW h \in Worker, A!Redeliver(h), handler[h].pc = "raise"
  PROVE  AlertsInv'
<1>1. handler' = [handler EXCEPT ![h] = A!Vacant] /\ failures' = failures + 1 /\ failures < MaxFailures
  BY DEF A!Redeliver, A!Do
<1>2. UNCHANGED <<rules, alerts, recorder, pages, repairs, owed, doubled, touched, missed>>
  BY DEF A!Redeliver, A!history
<1>3. PICK e \in handler[h].event :
        /\ counter' = [r \in Rule |-> IF r \in handler[h].rule
                                      THEN [counter[r] EXCEPT ![incident[e].window] = @ - 1]
                                      ELSE counter[r]]
        /\ \E at \in {"queued", "dead"} :
             incident' = IF incident[e].at = "queued" THEN [incident EXCEPT ![e].at = at] ELSE incident
  BY DEF A!Redeliver
<1>4. e \in Incident /\ handler[h].event = {e}
  BY AtWork DEF A!DoingType
<1>5. /\ incident' \in [Incident -> IncidentType]
      /\ \A x \in Incident : incident'[x].window = incident[x].window
      /\ \A x \in Incident : incident'[x].at # incident[x].at => x = e
      /\ \A x \in Incident : incident[x].at # "consumed" => incident'[x].at # "consumed"
  BY <1>3, <1>4, IncidentGoes
<1>6. PICK r \in Rule : handler[h].rule = {r}
  BY AtWork
<1>7. PICK w \in Period : w = incident[e].window
  BY <1>4, AlertTypes DEF IncidentType
<1>8. Raising(h, r, w)
  BY <1>4, <1>6, <1>7 DEF Raising
<1>9. /\ counter[r][w] >= rules[r].threshold
      /\ counter[r][w] > rules[r].threshold => Alerted(r)
      /\ \A k \in Worker \ {h} : ~Raising(k, r, w)
  BY <1>8 DEF AlertsInv, Locks, Apart
<1>10. /\ \A x \in Rule : \A v \in Period : counter[x][v] \in Nat
       /\ \A x \in Rule : rules[x].threshold \in Nat /\ rules[x].threshold >= 1
       /\ counter \in [Rule -> [Period -> 0 .. MaxCount]] /\ counter[r] \in [Period -> 0 .. MaxCount]
       /\ counter[r][w] \in 0 .. MaxCount
  BY AlertTypes
<1>. DEFINE row == [counter[r] EXCEPT ![w] = counter[r][w] - 1]
<1>11. /\ row \in [Period -> 0 .. MaxCount] /\ row[w] = counter[r][w] - 1
       /\ \A v \in Period \ {w} : row[v] = counter[r][v]
  <2>1. counter[r][w] - 1 \in 0 .. MaxCount
    BY <1>9, <1>10, AlertBounds
  <2>. QED
    BY <1>10, <2>1
<1>12. counter' = [x \in Rule |-> IF x = r THEN row ELSE counter[x]]
  BY <1>3, <1>6, <1>7, <1>10
<1>. HIDE DEF row
<1>13. /\ counter' \in [Rule -> [Period -> 0 .. MaxCount]]
       /\ counter'[r][w] = counter[r][w] - 1
       /\ \A x \in Rule : \A v \in Period : x # r \/ v # w => counter'[x][v] = counter[x][v]
  BY <1>10, <1>11, <1>12
<1>14. failures' \in 0 .. MaxFailures
  BY <1>1, AlertTypes, AlertBounds
<1>15. /\ handler'[h] = A!Vacant /\ \A k \in Worker \ {h} : handler'[k] = handler[k]
       /\ handler \in [Worker -> A!DoingType] /\ handler' \in [Worker -> A!DoingType]
  BY <1>1, AlertTypes, VacantIs
<1>16. A!TypeOK'
  BY <1>2, <1>5, <1>13, <1>14, <1>15 DEF AlertsInv, A!TypeOK, IncidentType
<1>17. /\ \A k \in Worker \ {h} : \A x, v : Raising(k, x, v)' <=> Raising(k, x, v)
       /\ \A x, v : ~Raising(h, x, v)'
  <2>1. \A k \in Worker : \A y \in handler[k].event : y \in Incident
    BY <1>15 DEF A!DoingType
  <2>. QED
    BY <1>5, <1>15, <2>1, VacantIs DEF Raising
<1>18. \A x, v : Raising(h, x, v) => x = r /\ v = w
  BY <1>4, <1>6, <1>7 DEF Raising
<1>19. \A x, v : A!Locked(x, v)' <=> A!Locked(x, v) /\ ~(x = r /\ v = w)
  BY <1>9, <1>17, <1>18, LockedIs
<1>20. (\A x : Alerted(x)' <=> Alerted(x)) /\ rules[r].is # "none"
  BY <1>2, <1>6, AtWork DEF Alerted
<1>21. RulesKnown'
  <2>. SUFFICES ASSUME NEW x \in Rule
                PROVE  /\ rules[x].is = "none" => ~rules[x].enabled /\ \A v \in Period : counter'[x][v] = 0
                       /\ rules[x].is # "none" /\ x \notin touched => rules[x].enabled
    BY <1>2 DEF RulesKnown
  <2>. QED
    BY <1>13, <1>20 DEF AlertsInv, RulesKnown
<1>22. ByHand' /\ OneOpen' /\ Unpaged'
  BY <1>2 DEF AlertsInv, ByHand, OneOpen, OpenBy, Unpaged
<1>23. ASSUME NEW k \in Worker
       PROVE  Employed(k)'
  <2>1. CASE k = h
    BY <1>15, <2>1, VacantIs DEF Employed
  <2>2. CASE k # h
    <3>1. handler'[k] = handler[k] /\ Employed(k) /\ handler[k].event \subseteq Incident
      BY <1>15, <2>2 DEF AlertsInv, A!DoingType
    <3>2. \A y \in handler[k].event : y \notin doubled => incident'[y].at = incident[y].at
      BY <1>4, <1>5, <2>2, <3>1 DEF AlertsInv, Apart
    <3>. QED
      BY <1>2, <3>1, <3>2 DEF Employed
  <2>. QED
    BY <2>1, <2>2
<1>24. Apart'
  <2>. SUFFICES ASSUME NEW k \in Worker, NEW l \in Worker, k # l
                PROVE  /\ handler'[k].event \cap handler'[l].event \subseteq doubled
                       /\ handler'[k].pc = "publish" /\ handler'[l].pc = "publish" =>
                            handler'[k].alert # handler'[l].alert
                       /\ \A x \in Rule, v \in Period : ~(Raising(k, x, v)' /\ Raising(l, x, v)')
    BY <1>2 DEF Apart
  <2>1. CASE k # h /\ l # h
    BY <1>15, <1>17, <2>1 DEF AlertsInv, Apart
  <2>2. CASE k = h \/ l = h
    BY <1>15, <1>17, <2>2, VacantIs
  <2>. QED
    BY <2>1, <2>2
<1>25. Locks'
  <2>. SUFFICES ASSUME NEW k \in Worker, NEW x \in Rule, NEW v \in Period, Raising(k, x, v)'
                PROVE  /\ counter'[x][v] >= rules[x].threshold
                       /\ counter'[x][v] > rules[x].threshold => Alerted(x)
                       /\ \A b \in A!Alert : ~OpenBy(b, x, v)
    BY <1>2, <1>20 DEF Locks, OpenBy
  <2>1. Raising(k, x, v) /\ ~(x = r /\ v = w)
    BY <1>9, <1>17
  <2>2. counter'[x][v] = counter[x][v]
    BY <1>13, <2>1
  <2>. QED
    BY <2>1, <2>2 DEF AlertsInv, Locks
<1>26. Reached'
  <2>. SUFFICES ASSUME NEW x \in Rule, NEW v \in Period, counter'[x][v] >= rules[x].threshold, ~A!Locked(x, v)'
                PROVE  Alerted(x)
    BY <1>2, <1>20 DEF Reached
  <2>1. CASE x = r /\ v = w
    <3>1. counter[r][w] > rules[r].threshold
      BY <1>10, <1>13, <2>1
    <3>. QED
      BY <1>9, <2>1, <3>1
  <2>2. CASE x # r \/ v # w
    BY <1>13, <1>19, <2>2 DEF AlertsInv, Reached
  <2>. QED
    BY <2>1, <2>2
<1>27. ASSUME NEW x \in Rule, NEW v \in Period, Exceeds(x, v)
       PROVE  Exceeds(x, v)'
  <2>1. CASE x = r /\ v = w
    <3>1. counter[r][w] > rules[r].threshold
      BY <1>8, <1>27, <2>1, LockedIs DEF Exceeds
    <3>2. counter'[r][w] >= rules[r].threshold
      BY <1>10, <1>13, <3>1
    <3>. QED
      BY <1>2, <1>19, <2>1, <3>2 DEF Exceeds
  <2>2. CASE x # r \/ v # w
    BY <1>2, <1>13, <1>19, <1>27, <2>2 DEF Exceeds
  <2>. QED
    BY <2>1, <2>2
<1>28. Owing'
  <2>. SUFFICES ASSUME NEW y \in Incident, NEW x \in Rule, <<y, x>> \in owed, x \notin touched, y \notin doubled
                PROVE  /\ incident'[y].at # "consumed" /\ rules[x].is # "none" /\ rules[x].blocks
                       /\ Exceeds(x, incident[y].window)' /\ \A k \in Worker : Pending(k, y, x)'
    BY <1>2 DEF Owing
  <2>1. /\ incident[y].at # "consumed" /\ rules[x].is # "none" /\ rules[x].blocks
        /\ Exceeds(x, incident[y].window) /\ \A k \in Worker : Pending(k, y, x)
    BY DEF AlertsInv, Owing
  <2>2. PICK v \in Period : v = incident[y].window
    BY AlertTypes DEF IncidentType
  <2>3. Exceeds(x, v)' /\ v = incident'[y].window
    BY <1>5, <1>27, <2>1, <2>2
  <2>4. \A k \in Worker : Pending(k, y, x)'
    BY <1>15, <2>1, VacantIs DEF Pending
  <2>. QED
    BY <1>5, <2>1, <2>3, <2>4
<1>. QED
  BY <1>16, <1>21, <1>22, <1>23, <1>24, <1>25, <1>26, <1>28 DEF AlertsInv
-----------------------------------------------------------------------------
(* A request that counts by hand begins, counts, or stops.  The rules that *)
(* are to have an alert have it at least as much as before.                *)
LEMMA RecorderGoes ==
  ASSUME AlertsInv, recorder' \in A!DoingType, recorder'.pc \in {"vacant", "count", "raise"},
         recorder'.pc # "vacant" => \E r \in Rule : recorder'.rule = {r} /\ rules[r].is # "none",
         UNCHANGED <<rules, alerts, incident, handler, pages, failures, owed, doubled, touched>>,
         repairs' \in 0 .. MaxRepairs, missed' \in SUBSET Rule,
         \A x : Alerted(x) => Alerted(x)',
         \/ counter' = counter
         \/ \E r \in Rule, w \in Period :
              /\ rules[r].is # "none" /\ A!Counted(r, w)
              /\ A!ReachesThreshold(r, w) => Alerted(r)'
  PROVE  AlertsInv'
<1>1. counter \in [Rule -> [Period -> 0 .. MaxCount]]
      /\ \A x \in Rule : rules[x].threshold \in Nat /\ rules[x].threshold >= 1
  BY AlertTypes
<1>2. \A k \in Worker : \A x, v : Raising(k, x, v)' <=> Raising(k, x, v)
  BY DEF Raising
<1>3. \A x, v : A!Locked(x, v)' <=> A!Locked(x, v)
  BY <1>2, LockedIs
<1>4. \A x \in Rule : \A v \in Period : counter[x][v] \in Nat
  BY AlertTypes
<1>5. /\ counter' \in [Rule -> [Period -> 0 .. MaxCount]]
      /\ \A x \in Rule : \A v \in Period :
           /\ counter'[x][v] \in Nat /\ counter'[x][v] >= counter[x][v]
           /\ counter'[x][v] # counter[x][v] => rules[x].is # "none" /\ ~A!Locked(x, v)
           /\ counter'[x][v] # counter[x][v] /\ counter'[x][v] >= rules[x].threshold => Alerted(x)'
  <2>1. CASE counter' = counter
    BY <1>1, <1>4, <2>1
  <2>2. CASE counter' # counter
    <3>1. PICK r \in Rule, w \in Period :
            /\ rules[r].is # "none" /\ A!Counted(r, w)
            /\ A!ReachesThreshold(r, w) => Alerted(r)'
      BY <2>2
    <3>2. /\ counter' \in [Rule -> [Period -> 0 .. MaxCount]]
          /\ counter'[r][w] = counter[r][w] + 1 /\ ~A!Locked(r, w)
          /\ \A x \in Rule : \A v \in Period : x # r \/ v # w => counter'[x][v] = counter[x][v]
          /\ \A x \in Rule : \A v \in Period : counter'[x][v] >= counter[x][v]
      BY <3>1, Counting
    <3>3. \A x \in Rule : \A v \in Period : counter'[x][v] \in Nat
      BY <3>2, AlertBounds
    <3>4. counter'[r][w] >= rules[r].threshold => Alerted(r)'
      BY <3>1, <3>2 DEF A!ReachesThreshold
    <3>5. ASSUME NEW x \in Rule, NEW v \in Period
          PROVE  /\ counter'[x][v] \in Nat /\ counter'[x][v] >= counter[x][v]
                 /\ counter'[x][v] # counter[x][v] => rules[x].is # "none" /\ ~A!Locked(x, v)
                 /\ counter'[x][v] # counter[x][v] /\ counter'[x][v] >= rules[x].threshold => Alerted(x)'
      <4>1. CASE x = r /\ v = w
        BY <3>1, <3>2, <3>3, <3>4, <4>1
      <4>2. CASE x # r \/ v # w
        BY <3>2, <3>3, <4>2
      <4>. QED
        BY <4>1, <4>2
    <3>. QED
      BY <3>2, <3>5
  <2>. QED
    BY <2>1, <2>2
<1>6. A!TypeOK'
  BY <1>5 DEF AlertsInv, A!TypeOK
<1>7. RulesKnown'
  BY <1>5 DEF AlertsInv, RulesKnown
<1>8. ByHand' /\ Apart' /\ OneOpen' /\ Unpaged'
  BY <1>2 DEF AlertsInv, ByHand, Apart, OneOpen, OpenBy, Unpaged
<1>9. \A h \in Worker : Employed(h)'
  BY DEF AlertsInv, Employed
<1>10. Locks'
  <2>. SUFFICES ASSUME NEW k \in Worker, NEW x \in Rule, NEW v \in Period, Raising(k, x, v)
                PROVE  /\ counter'[x][v] >= rules[x].threshold
                       /\ counter'[x][v] > rules[x].threshold => Alerted(x)'
                       /\ \A b \in A!Alert : ~OpenBy(b, x, v)
    BY <1>2 DEF Locks, OpenBy
  <2>1. counter'[x][v] = counter[x][v]
    BY <1>5, LockedIs
  <2>. QED
    BY <2>1 DEF AlertsInv, Locks
<1>11. Reached'
  <2>. SUFFICES ASSUME NEW x \in Rule, NEW v \in Period, counter'[x][v] >= rules[x].threshold, ~A!Locked(x, v)
                PROVE  Alerted(x)'
    BY <1>3 DEF Reached
  <2>1. CASE counter'[x][v] = counter[x][v]
    BY <2>1 DEF AlertsInv, Reached
  <2>2. CASE counter'[x][v] # counter[x][v]
    BY <1>5, <2>2
  <2>. QED
    BY <2>1, <2>2
<1>12. ASSUME NEW x \in Rule, NEW v \in Period, Exceeds(x, v)
       PROVE  Exceeds(x, v)'
  BY <1>1, <1>3, <1>4, <1>5, <1>12 DEF Exceeds
<1>13. Owing'
  <2>. SUFFICES ASSUME NEW y \in Incident, NEW x \in Rule, <<y, x>> \in owed, x \notin touched, y \notin doubled
                PROVE  /\ incident[y].at # "consumed" /\ rules[x].is # "none" /\ rules[x].blocks
                       /\ Exceeds(x, incident[y].window)' /\ \A k \in Worker : Pending(k, y, x)'
    BY DEF Owing
  <2>1. /\ incident[y].at # "consumed" /\ rules[x].is # "none" /\ rules[x].blocks
        /\ Exceeds(x, incident[y].window) /\ \A k \in Worker : Pending(k, y, x)
    BY DEF AlertsInv, Owing
  <2>2. PICK v \in Period : v = incident[y].window
    BY AlertTypes DEF IncidentType
  <2>3. Exceeds(x, v)' /\ v = incident'[y].window
    BY <1>12, <2>1, <2>2
  <2>. QED
    BY <2>1, <2>3 DEF Pending
<1>. QED
  BY <1>6, <1>7, <1>8, <1>9, <1>10, <1>11, <1>13 DEF AlertsInv

(* What a request is that has read its rule. *)
LEMMA TakenByHand ==
  ASSUME NEW r \in Rule
  PROVE  /\ [A!Vacant EXCEPT !.pc = "count", !.rule = {r}] \in A!DoingType
         /\ [A!Vacant EXCEPT !.pc = "count", !.rule = {r}].pc = "count"
         /\ [A!Vacant EXCEPT !.pc = "count", !.rule = {r}].rule = {r}
BY VacantIs DEF A!DoingType

(* recordEvent reads the rule. *)
LEMMA RecorderReads ==
  ASSUME AlertsInv, NEW r \in Rule, A!ReadRule(r)
  PROVE  AlertsInv'
<1>1. /\ recorder.pc = "vacant" /\ rules[r].enabled
      /\ recorder' = [A!Vacant EXCEPT !.pc = "count", !.rule = {r}]
      /\ UNCHANGED <<rules, counter, alerts, incident, handler, pages, failures, owed, doubled, touched, missed>>
  BY VacantIs DEF A!ReadRule, A!history
<1>2. recorder' \in A!DoingType /\ recorder'.pc = "count" /\ recorder'.rule = {r}
  BY <1>1, TakenByHand
<1>3. repairs' \in 0 .. MaxRepairs
  BY AlertTypes, AlertBounds DEF A!ReadRule, A!Repair
<1>4. rules[r].is # "none"
  BY <1>1 DEF AlertsInv, RulesKnown
<1>5. \A x : Alerted(x) => Alerted(x)'
  BY <1>1 DEF Alerted
<1>6. missed' \in SUBSET Rule
  BY <1>1, AlertTypes
<1>. QED
  BY <1>1, <1>2, <1>3, <1>4, <1>5, <1>6, RecorderGoes

(* recordEvent counts. *)
LEMMA RecorderCounts ==
  ASSUME AlertsInv, A!CountByHand
  PROVE  AlertsInv'
<1>1. /\ recorder.pc = "count" /\ recorder \in A!DoingType
      /\ UNCHANGED <<rules, alerts, incident, handler, pages, repairs, failures, owed, doubled, touched, missed>>
  BY AlertTypes DEF A!CountByHand, A!history
<1>2. PICK r \in recorder.rule, w \in Period :
        /\ A!Counted(r, w)
        /\ recorder' = IF A!ReachesThreshold(r, w) THEN [recorder EXCEPT !.pc = "raise"] ELSE A!Vacant
  BY DEF A!CountByHand
<1>3. r \in Rule /\ recorder.rule = {r} /\ rules[r].is # "none"
  BY <1>1 DEF AlertsInv, ByHand, A!DoingType
<1>4. CASE A!ReachesThreshold(r, w)
  <2>1. recorder' \in A!DoingType /\ recorder'.pc = "raise" /\ recorder'.rule = {r}
    BY <1>1, <1>2, <1>3, <1>4, HandCounted
  <2>2. Alerted(r)' /\ \A x : Alerted(x) => Alerted(x)'
    BY <1>1, <2>1 DEF Alerted
  <2>3. repairs' \in 0 .. MaxRepairs /\ missed' \in SUBSET Rule
    BY <1>1, AlertTypes
  <2>. QED
    BY <1>1, <1>2, <1>3, <2>1, <2>2, <2>3, RecorderGoes
<1>5. CASE ~A!ReachesThreshold(r, w)
  <2>1. recorder' \in A!DoingType /\ recorder'.pc = "vacant"
    BY <1>2, <1>5, VacantIs
  <2>2. \A x : Alerted(x) => Alerted(x)'
    BY <1>1, <2>1 DEF Alerted
  <2>3. repairs' \in 0 .. MaxRepairs /\ missed' \in SUBSET Rule
    BY <1>1, AlertTypes
  <2>. QED
    BY <1>1, <1>2, <1>3, <1>5, <2>1, <2>2, <2>3, RecorderGoes
<1>. QED
  BY <1>4, <1>5

(* recordEvent fails or stops: the alert it was about to raise is given    *)
(* up.                                                                     *)
LEMMA RecorderStops ==
  ASSUME AlertsInv, A!StopByHand
  PROVE  AlertsInv'
<1>1. /\ recorder' = A!Vacant /\ missed' = IF recorder.pc = "raise" THEN missed \cup recorder.rule ELSE missed
      /\ UNCHANGED <<rules, counter, alerts, incident, handler, pages, repairs, failures, owed, doubled, touched>>
  BY DEF A!StopByHand
<1>2. \A x : Alerted(x) => Alerted(x)'
  BY <1>1 DEF Alerted
<1>3. missed' \in SUBSET Rule /\ repairs' \in 0 .. MaxRepairs
  BY <1>1, AlertTypes DEF A!DoingType
<1>. QED
  BY <1>1, <1>2, <1>3, VacantIs, RecorderGoes

(* An alert raised by hand is of no window, and raised whatever is open.   *)
LEMMA RecorderRaises ==
  ASSUME AlertsInv, A!RaiseByHand
  PROVE  AlertsInv'
<1>1. recorder.pc = "raise" /\ recorder' = A!Vacant
  BY DEF A!RaiseByHand
<1>2. UNCHANGED <<rules, counter, incident, handler, pages, repairs, failures, owed, doubled, touched, missed>>
  BY DEF A!RaiseByHand, A!history
<1>3. PICK r \in recorder.rule, a \in A!Alert :
        A!Free(a) /\ alerts' = [alerts EXCEPT ![a] = A!NewAlert(r, {})]
  BY DEF A!RaiseByHand
<1>4. r \in Rule /\ recorder.rule = {r}
  BY <1>1 DEF AlertsInv, ByHand
<1>5. alerts[a].status = "none" /\ alerts[a].rule = {}
  BY <1>3 DEF A!Free, AlertsInv, Unpaged
<1>. DEFINE n == A!NewAlert(r, {})
<1>6. n \in AlertType /\ n.rule = {r} /\ n.status = "OPEN" /\ n.by = {}
  BY <1>4, NewAlertType
<1>7. alerts' = [alerts EXCEPT ![a] = n]
  BY <1>3
<1>. HIDE DEF n
<1>8. /\ alerts'[a] = n /\ \A b \in A!Alert \ {a} : alerts'[b] = alerts[b]
      /\ alerts' \in [A!Alert -> AlertType]
  BY <1>6, <1>7, AlertTypes
<1>9. A!TypeOK'
  BY <1>1, <1>2, <1>8, VacantIs DEF AlertsInv, A!TypeOK, AlertType
<1>10. \A k \in Worker : \A x, v : Raising(k, x, v)' <=> Raising(k, x, v)
  BY <1>2 DEF Raising
<1>11. \A x, v : A!Locked(x, v)' <=> A!Locked(x, v)
  BY <1>10, LockedIs
<1>12. \A x : Alerted(x) => Alerted(x)'
  <2>. SUFFICES ASSUME NEW x, Alerted(x)
                PROVE  Alerted(x)'
    OBVIOUS
  <2>1. CASE x = r
    BY <1>6, <1>8, <2>1 DEF Alerted
  <2>2. CASE x # r
    <3>1. x \in missed \/ \E b \in A!Alert \ {a} : alerts[b].rule = {x}
      BY <1>4, <1>5, <2>2 DEF Alerted
    <3>. QED
      BY <1>2, <1>8, <3>1 DEF Alerted
  <2>. QED
    BY <2>1, <2>2
<1>13. \A b \in A!Alert : \A x : \A v \in Period : OpenBy(b, x, v)' => OpenBy(b, x, v)
  BY <1>6, <1>8 DEF OpenBy
<1>14. RulesKnown' /\ ByHand' /\ Apart' /\ OneOpen'
  BY <1>1, <1>2, <1>10, <1>13, VacantIs DEF AlertsInv, RulesKnown, ByHand, Apart, OneOpen
<1>15. Unpaged'
  BY <1>2, <1>6, <1>8 DEF AlertsInv, Unpaged
<1>16. \A h \in Worker : Employed(h)'
  <2>1. \A b \in A!Alert : alerts[b].status # "none" => alerts'[b].status # "none"
    BY <1>5, <1>8
  <2>. QED
    BY <1>2, <2>1 DEF AlertsInv, Employed
<1>17. Locks' /\ Reached'
  BY <1>2, <1>10, <1>11, <1>12, <1>13 DEF AlertsInv, Locks, Reached
<1>18. Owing'
  BY <1>2, <1>11 DEF AlertsInv, Owing, Exceeds, Pending
<1>. QED
  BY <1>9, <1>14, <1>15, <1>16, <1>17, <1>18 DEF AlertsInv
-----------------------------------------------------------------------------
(* A stutter keeps the invariant. *)
LEMMA AlertsStay ==
  ASSUME AlertsInv, UNCHANGED A!alerting
  PROVE  AlertsInv'
<1>1. UNCHANGED <<rules, counter, alerts, incident, handler, recorder, pages, repairs, failures, owed, doubled,
                  touched, missed>>
  BY DEF A!alerting
<1>2. A!TypeOK'
  BY <1>1 DEF AlertsInv, A!TypeOK
<1>3. \A k \in Worker : \A x, v : Raising(k, x, v)' <=> Raising(k, x, v)
  BY <1>1 DEF Raising
<1>4. \A x, v : A!Locked(x, v)' <=> A!Locked(x, v)
  BY <1>3, LockedIs
<1>5. RulesKnown' /\ ByHand' /\ Apart' /\ OneOpen' /\ Unpaged'
  BY <1>1, <1>3 DEF AlertsInv, RulesKnown, ByHand, Apart, OneOpen, OpenBy, Unpaged
<1>6. \A h \in Worker : Employed(h)'
  BY <1>1 DEF AlertsInv, Employed
<1>7. Locks' /\ Reached'
  BY <1>1, <1>3, <1>4 DEF AlertsInv, Locks, Reached, Alerted, OpenBy
<1>8. Owing'
  BY <1>1, <1>4 DEF AlertsInv, Owing, Exceeds, Pending
<1>. QED
  BY <1>2, <1>5, <1>6, <1>7, <1>8 DEF AlertsInv

(* Every step keeps the invariant. *)
LEMMA AlertsStep == AlertsInv /\ [A!Next]_(A!alerting) => AlertsInv'
<1>. SUFFICES ASSUME AlertsInv, [A!Next]_(A!alerting)
              PROVE  AlertsInv'
  OBVIOUS
<1>1. CASE UNCHANGED A!alerting
  BY <1>1, AlertsStay
<1>2. CASE \E r \in Rule : A!CreateRule(r) \/ A!ToggleRule(r) \/ A!SetRuleEmail(r) \/ A!DeleteRule(r)
  BY <1>2, EditRules
<1>3. CASE \E r \in Rule : A!ReadRule(r)
  BY <1>3, RecorderReads
<1>4. CASE \E a \in A!Alert : A!ResolveAlert(a)
  BY <1>4, Resolving
<1>5. CASE \E h \in Worker :
             \/ \E e \in Incident : A!Deliver(h, e)
             \/ A!FindRules(h) \/ A!CountEvent(h) \/ A!RaiseAlert(h) \/ A!PublishAlert(h)
             \/ A!RevokeAllSessions(h) \/ A!RecordConsumed(h)
  BY <1>5, Delivering, FindingRules, CountingEvent, Raised, Publishing, Revoking, Consuming
<1>6. CASE \E h \in Worker : A!Redeliver(h)
  BY <1>6, Stopping, RollingBack
<1>7. CASE A!CountByHand \/ A!RaiseByHand \/ A!StopByHand
  BY <1>7, RecorderCounts, RecorderRaises, RecorderStops
<1>8. A!Next \/ UNCHANGED A!alerting
  OBVIOUS
<1>. QED
  BY <1>1, <1>2, <1>3, <1>4, <1>5, <1>6, <1>7, <1>8 DEF A!Next

(* SecurityAlerts: the invariant holds in every reachable state. *)
LEMMA AlertsAlways == A!Spec => []AlertsInv
BY AlertsInit, AlertsStep, PTL DEF A!Spec

(* SecurityAlerts calls Cardinality what FiniteSets does. *)
LEMMA AlertCardinality == \A S : A!Cardinality(S) = Cardinality(S)
BY DEF A!Cardinality, Cardinality, A!IsFiniteSet, IsFiniteSet

(* The invariant implies both properties. *)
LEMMA AlertsFollowThen == AlertsInv => A!AlertsRaised /\ A!BlockCarriedOut
<1>. SUFFICES ASSUME AlertsInv
              PROVE  A!AlertsRaised /\ A!BlockCarriedOut
  OBVIOUS
<1>1. ASSUME NEW r \in Rule, \E w \in Period : counter[r][w] >= rules[r].threshold /\ ~A!Locked(r, w)
      PROVE  \/ \E a \in A!Alert : alerts[a].rule = {r}
             \/ r \in missed
             \/ recorder.pc = "raise" /\ r \in recorder.rule
  BY <1>1 DEF AlertsInv, Reached, Alerted
<1>2. ASSUME NEW r \in Rule, NEW w \in Period
      PROVE  A!Cardinality({a \in A!Open(r) : alerts[a].by = {w}}) <= 1
  <2>. DEFINE here == {a \in A!Open(r) : alerts[a].by = {w}}
  <2>1. \A a \in here : a \in A!Alert /\ OpenBy(a, r, w)
    BY DEF A!Open, OpenBy
  <2>2. \A a, b \in A!Alert : OpenBy(a, r, w) /\ OpenBy(b, r, w) => a = b
    BY DEF AlertsInv, OneOpen
  <2>. HIDE DEF here
  <2>3. \A a, b \in here : a = b
    BY <2>1, <2>2
  <2>4. A!Cardinality(here) <= 1
    BY <2>3, AtMostOne, AlertCardinality
  <2>. QED
    BY <2>4 DEF here
<1>3. \A a \in A!Alert : pages[a] <= 1
  BY AlertTypes
<1>4. A!AlertsRaised
  BY <1>1, <1>2, <1>3 DEF A!AlertsRaised
<1>5. A!BlockCarriedOut
  BY DEF AlertsInv, Owing, A!BlockCarriedOut
<1>. QED
  BY <1>4, <1>5

(* Counting and raising are one transaction that holds the row of its      *)
(* counter, and the event is recorded as consumed last of all: what        *)
(* reaches a threshold has its alert, one window has one open alert at     *)
(* most, no alert is paged twice, and once an event is consumed the        *)
(* revocations it asked for were attempted.                                *)
THEOREM AlertsAlwaysFollow == A!Spec => []AlertsFollow
<1>1. AlertsInv => AlertsFollow
  BY AlertsFollowThen DEF AlertsFollow
<1>. QED
  BY <1>1, AlertsAlways, PTL
-----------------------------------------------------------------------------
(* The run explores one part at a time: each of its behaviours is one of   *)
(* every part, so that what is proved of a part holds in the run.          *)
THEOREM ServicesBehave == SpecOfOne => A!Spec /\ N!Spec /\ C!Spec /\ G!Spec /\ W!Spec /\ Spec
<1>1. Initially => A!Init /\ N!Init /\ C!Init /\ G!Init /\ W!Init /\ Init
  BY DEF Initially
<1>2. [NextOfOne]_<<part, alerting, notifying, accounts, gateway, web, authority>> =>
        /\ [A!Next]_A!alerting /\ [N!Next]_N!notifying /\ [C!Next]_C!accounts
        /\ [G!Next]_G!gateway /\ [W!Next]_W!web /\ [Next]_authority
  <2>1. UNCHANGED alerting => UNCHANGED A!alerting
    BY DEF alerting, A!alerting
  <2>2. UNCHANGED notifying => UNCHANGED N!notifying
    BY DEF notifying, N!notifying
  <2>3. UNCHANGED accounts => UNCHANGED C!accounts
    BY DEF accounts, C!accounts
  <2>4. UNCHANGED gateway => UNCHANGED G!gateway
    BY DEF gateway, G!gateway
  <2>5. UNCHANGED web => UNCHANGED W!web
    BY DEF web, W!web
  <2>. QED
    BY <2>1, <2>2, <2>3, <2>4, <2>5 DEF NextOfOne
<1>. QED
  BY <1>1, <1>2, PTL DEF SpecOfOne, A!Spec, N!Spec, C!Spec, G!Spec, W!Spec, Spec

(* Rows, requests and what handlers are doing keep their types, in each    *)
(* part.                                                                   *)
THEOREM ServicesTyped ==
  /\ A!Spec => []A!TypeOK
  /\ N!Spec => []N!TypeOK
  /\ C!Spec => []C!TypeOK
  /\ G!Spec => []G!TypeOK
  /\ W!Spec => []W!TypeOK
<1>1. /\ AlertsInv => A!TypeOK
      /\ InboxInv => N!TypeOK
      /\ AccountsInv => C!TypeOK
      /\ ReadsInv => W!TypeOK
  BY DEF AlertsInv, InboxInv, AccountsInv, ReadsInv
<1>2. GateInv => G!TypeOK
  BY DEF GateInv, RateInv, RateType, HandInv, HandType, RequestType, BuildType, OverviewType, G!TypeOK, G!Failure
<1>. QED
  BY <1>1, <1>2, AlertsAlways, InboxAlways, AccountsAlways, GateAlways, ReadsAlways, PTL
=============================================================================
