------------------------------- MODULE Authority -------------------------------
(***************************************************************************)
(* How a request gets the authority for what it does, from the access      *)
(* token to the handler, for one user at a time.                           *)
(*                                                                         *)
(* The capabilities of a user are in the directory (users.service.ts).     *)
(* They are copied into each access token when it is signed (auth.service  *)
(* .ts) and never looked up again; the gateway forwards what the token     *)
(* says in headers.  The grants are asked for at every request, from a     *)
(* Permission Service that may be away.  In between, capabilities and      *)
(* grants come and go, and tokens are refreshed.                           *)
(*                                                                         *)
(* Time is kept as ages, which makes the model finite without a last tick: *)
(* `since` and `lapsed` are one more than the ticks since something was    *)
(* lost, and stop at Long, when no property can tell the difference.       *)
(*                                                                         *)
(* Unexpired is a mutated form of Accepted; no action uses it.             *)
(***************************************************************************)
EXTENDS Operations

CONSTANTS
  User,
  Admin,        \* the users who are administrators
  Capability,   \* the capabilities the directory knows
  Ttl,          \* ACCESS_TOKEN_TTL_SECONDS
  LookupTime,   \* USER_ROLE_LOOKUP_TIMEOUT_MS
  HandlingTime, \* bound: how long the gateway waits for a request
  MaxTokens     \* bound: access tokens valid at the same time

ASSUME AuthorityAssumption ==
  /\ Admin \subseteq User
  /\ Ttl \in Nat \ {0} /\ LookupTime \in Nat /\ HandlingTime \in Nat

VARIABLES
  caller,       \* the user followed
  since,        \* capability: 0 while the directory has it, or one more than the ticks since then
  lookup,       \* issueTokenPair: the capabilities read and not yet signed
  tokens,       \* the access tokens the caller has, by age
  lapsed,       \* the grant the caller's requests need: 0 while in force
  participants, \* who takes part in the task
  asked         \* the request under way

authority == <<caller, since, lookup, tokens, lapsed, participants, asked>>
-----------------------------------------------------------------------------
Long == Ttl + LookupTime + HandlingTime + 1

Ages == 0 .. Long

Later(age) == IF age = 0 \/ age = Long THEN age ELSE age + 1

RoleOf(u) == IF u \in Admin THEN "ADMIN" ELSE "EMPLOYEE"

Held == {c \in Capability : since[c] = 0}

NoLookup == [reading |-> FALSE, capabilities |-> {}, age |-> 0]

NothingAsked ==
  [stage |-> "none", of |-> "own", way |-> ByAnyone, mine |-> FALSE, named |-> caller,
   capabilities |-> {}, age |-> 0]

Init ==
  /\ caller \in User
  /\ since \in [Capability -> IF caller \in Admin THEN {Long} ELSE {0, Long}]
  /\ lookup = NoLookup /\ tokens = {}
  /\ lapsed = Long
  /\ participants = {}
  /\ asked = NothingAsked
-----------------------------------------------------------------------------
(* V3 5.2.1 and ADR-0004 by operation, independently of the conditions:    *)
(* what is about content, and what only administrators control.            *)
Content ==
  {"getDocument", "getDocumentPreview", "getVersions", "getVersion", "createDocument", "uploadDocument",
   "createPreviewSession", "createDownloadTicket", "getDocumentDownload", "listRecords", "createRecord",
   "getRecord", "addEntry", "sealRecord", "createPackage", "submitPackage", "receivePackage",
   "acceptPackage", "rejectPackage", "archivePackage", "getPackage", "listPackages", "checkEligibility",
   "approveDisposal", "executeDisposal", "placeHold", "releaseHold", "listHolds", "listApprovals",
   "listTasks", "getTask", "createTask", "updateTask", "assignReviewer", "assignTask", "updateStatus",
   "blockTask", "unblockTask", "addParticipant", "getParticipants", "getComments", "addComment",
   "submitResult", "reviewSubmission", "getSubmissions", "getSubmission", "getActivity", "attach",
   "addGrant", "listTaskGrants", "updateGrant", "revokeTaskGrant", "detach", "listTaskDocuments"}

Control ==
  {"createGrant", "registerAdmin", "listUsers", "getUser", "createUser", "lockUser", "unlockUser",
   "grantCapability", "revokeCapability", "listAlerts", "getAlert", "resolveAlert", "createRule",
   "listRules", "toggleRule", "setRuleEmail", "deleteRule", "getEvent", "getChainHead", "verifyChain",
   "createNotification"}

(* What services ask of each other.  The gateway keeps it inside, except   *)
(* three reads, which it forwards by their path like any other: what the   *)
(* directory says of its users to administrators, and the titles of        *)
(* documents to anybody.                                                   *)
BetweenServices ==
  {"createVersion", "getDocumentStatistics", "getTaskContext", "getTaskStatistics", "checkPermission",
   "createTaskDocumentGrant", "listTaskDocumentGrants", "updateTaskDocumentGrant",
   "revokeTaskDocumentGrant", "revokeTaskDocumentGrants", "revokeAllSessions", "getUserStatistics",
   "getMonitoringStatistics", "recordEvent", "appendEvent", "processUpload", "processDocument",
   "updateScan", "signDocument", "getEncryptionRecord", "getPlaintext", "preparePreview",
   "extendPreview", "getPreviewPage", "revokePreview", "listEncryptionRecords", "getActiveKek", "rotateKek",
   "getInternalAdmins", "getInternalUser", "getInternalTitles"}

AboutUsers == {"getInternalAdmins", "getInternalUser"}

Kind(op) ==
  CASE op \in Content -> "content"
    [] op \in Control \cup AboutUsers -> "control"
    [] op \in BetweenServices \ AboutUsers -> "internal"
    [] OTHER -> "own"

(* Operations are told apart by their kind and their conditions only.      *)
Requests == {[of |-> Kind(o.op), way |-> o.way] : o \in Operations}
-----------------------------------------------------------------------------
(* The directory.                                                          *)
GrantCapability(c) ==
  /\ caller \notin Admin
  /\ since[c] # 0
  /\ since' = [since EXCEPT ![c] = 0]
  /\ UNCHANGED <<caller, lookup, tokens, lapsed, participants, asked>>

RevokeCapability(c) ==
  /\ since[c] = 0
  /\ since' = [since EXCEPT ![c] = 1]
  /\ UNCHANGED <<caller, lookup, tokens, lapsed, participants, asked>>

(* A sign-in or a refresh: the capabilities are read, or the directory     *)
(* does not answer and there are none.                                     *)
GetCapabilities ==
  /\ ~lookup.reading
  /\ \E read \in {Held, {}} : lookup' = [reading |-> TRUE, capabilities |-> read, age |-> 0]
  /\ UNCHANGED <<caller, since, tokens, lapsed, participants, asked>>

SignToken ==
  /\ lookup.reading
  /\ Cardinality(tokens) < MaxTokens
  /\ tokens' = tokens \cup {[capabilities |-> lookup.capabilities, age |-> 0]}
  /\ lookup' = NoLookup
  /\ UNCHANGED <<caller, since, lapsed, participants, asked>>

(* The Permission Service gives a grant, or one is revoked or expires.     *)
GrantGiven ==
  /\ lapsed # 0
  /\ lapsed' = 0
  /\ UNCHANGED <<caller, since, lookup, tokens, participants, asked>>

GrantEnds ==
  /\ lapsed = 0
  /\ lapsed' = 1
  /\ UNCHANGED <<caller, since, lookup, tokens, participants, asked>>

(* JwtService.verify accepts a token for less than Ttl. *)
Unexpired(age) == age <= Ttl + LookupTime
Accepted(age) == age < Ttl

(* A lookup and a request each end before their timeout.                   *)
Tick ==
  /\ lookup.reading => lookup.age < LookupTime
  /\ asked.stage # "none" => asked.age < HandlingTime
  /\ since' = [c \in Capability |-> Later(since[c])]
  /\ lapsed' = Later(lapsed)
  /\ lookup' = IF lookup.reading THEN [lookup EXCEPT !.age = @ + 1] ELSE lookup
  /\ tokens' = {[t EXCEPT !.age = @ + 1] : t \in {t \in tokens : Accepted(t.age + 1)}}
  /\ asked' = IF asked.stage = "none" THEN asked ELSE [asked EXCEPT !.age = @ + 1]
  /\ UNCHANGED <<caller, participants>>
-----------------------------------------------------------------------------
Go(stage) == asked' = [asked EXCEPT !.stage = stage]

(* The gateway checks the token and applies its policy; the headers it     *)
(* forwards say what the token says.  A request keeps of its operation     *)
(* what is still to be decided about it.                                   *)
Arrive ==
  /\ asked.stage = "none"
  /\ \E r \in Requests, t \in tokens, mine \in BOOLEAN, named \in User :
       /\ RoleOf(caller) \in r.way.gateway
       /\ mine => "mine" \in r.way.relation \/ r.way.on = "DOCUMENT"
       /\ r.way.names \/ named = caller
       /\ asked' = [stage |-> "admitted", of |-> r.of, way |-> [r.way EXCEPT !.gateway = {}],
                    mine |-> mine, named |-> named, capabilities |-> t.capabilities, age |-> 0]
  /\ UNCHANGED <<caller, since, lookup, tokens, lapsed, participants>>

(* What the handler finds in the headers.                                  *)
HandlerAdmits ==
  /\ RoleOf(caller) \in asked.way.handler
  /\ asked.way.capability \in asked.capabilities \cup {Anything}
  /\ "mine" \in asked.way.relation => asked.mine

Handle ==
  /\ asked.stage = "admitted"
  /\ HandlerAdmits
  /\ Go(IF asked.way.on = Anything THEN "allowed" ELSE "asking")
  /\ UNCHANGED <<caller, since, lookup, tokens, lapsed, participants>>

(* PermissionService.check: administrators first, owners second, tasks are *)
(* left to their service, and all else needs a grant in force.             *)
Allowed ==
  /\ ~(caller \in Admin /\ asked.way.action \in AdminForbidden)
  /\ \/ asked.way.on = "DOCUMENT" /\ asked.mine
     \/ asked.way.on = "TASK" /\ asked.way.action \in TaskActions
     \/ lapsed = 0

Check ==
  /\ asked.stage = "asking"
  /\ Allowed
  /\ Go("allowed")
  /\ UNCHANGED <<caller, since, lookup, tokens, lapsed, participants>>

(* assertEmployee: whoever is named must be an employee. *)
AssertEmployee ==
  /\ asked.stage = "allowed" /\ asked.way.names
  /\ asked.named \notin Admin
  /\ Go("ready")
  /\ UNCHANGED <<caller, since, lookup, tokens, lapsed, participants>>

(* The service carries it out, if the caller takes part in the task; its   *)
(* creator and whoever it names take part from then on.                    *)
CarryOut ==
  /\ asked.stage = IF asked.way.names THEN "ready" ELSE "allowed"
  /\ "participant" \in asked.way.relation => caller \in participants
  /\ participants' =
       participants \cup (IF asked.way.names THEN {asked.named} ELSE {})
                    \cup (IF asked.way.action = "TASK_CREATE" THEN {caller} ELSE {})
  /\ Go("done")
  /\ UNCHANGED <<caller, since, lookup, tokens, lapsed>>

(* Denied by a layer, or a service asked on the way does not answer - or   *)
(* the answer is given.                                                    *)
Answer ==
  /\ asked.stage # "none"
  /\ asked' = NothingAsked
  /\ UNCHANGED <<caller, since, lookup, tokens, lapsed, participants>>

Next ==
  \/ \E c \in Capability : GrantCapability(c) \/ RevokeCapability(c)
  \/ GetCapabilities \/ SignToken
  \/ GrantGiven \/ GrantEnds
  \/ Tick
  \/ Arrive \/ Handle \/ Check \/ AssertEmployee \/ CarryOut \/ Answer

Spec == Init /\ [][Next]_authority
-----------------------------------------------------------------------------
TypeOK ==
  /\ caller \in User
  /\ since \in [Capability -> Ages] /\ lapsed \in Ages
  /\ lookup \in [reading : BOOLEAN, capabilities : SUBSET Capability, age : 0 .. LookupTime]
  /\ tokens \subseteq [capabilities : SUBSET Capability, age : 0 .. Ttl - 1]
  /\ participants \subseteq User
  /\ asked.stage \in {"none", "admitted", "asking", "allowed", "ready", "done"}
  /\ asked.age \in 0 .. HandlingTime

(* What needs a capability is carried out for somebody who had it in the   *)
(* directory within the life of a token, the lookup before it and the      *)
(* request: refreshing never makes a revoked capability last longer.       *)
CapabilityFresh ==
  asked.stage = "done" /\ asked.way.capability # Anything
    => since[asked.way.capability] <= Ttl + LookupTime + asked.age

(* What needs a grant is carried out for somebody who had it at some time  *)
(* since the request arrived, though the Permission Service may be away.   *)
GrantFresh ==
  (asked.stage = "done" /\ asked.way.on # Anything /\ asked.way.on # "TASK"
     /\ ~(asked.way.on = "DOCUMENT" /\ asked.mine))
    => lapsed <= asked.age + 1

(* Administrators never carry out what is about content, nor take part in  *)
(* a task; employees never what is control, nor what services ask of the   *)
(* directory about users - although no layer alone sees to it.  Of the     *)
(* rest between services nothing is said: the titles of documents are      *)
(* told to whoever asks.                                                   *)
RolesApart ==
  /\ participants \cap Admin = {}
  /\ asked.stage = "done" =>
       /\ asked.of = "content" => caller \notin Admin
       /\ asked.of = "control" => caller \in Admin

(* Every request carried out had its authority, by role and by right.      *)
ActsWithAuthority == CapabilityFresh /\ GrantFresh /\ RolesApart
=============================================================================
