# Verification of the task-document services

TLA+ models of the back end under `src/backend`: NestJS services that manage tasks, the
documents attached to them, and the grants that let a participant read a document
through a task.  Every definition is translated from the TypeScript sources, the Prisma
schemas or, where marked external in `PROJECT.json`, from what PostgreSQL, RabbitMQ or a
failing process does to that code.  `CONTEXT.md`, the ADRs and the plan are used only to
say what the code is meant to do.  Of the front end, the API client of the web
application is modelled as well.

Contents: [1 the system](#1-the-system) · [2 the modules](#2-the-modules) ·
[3 the runs](#3-the-runs) · [4 fairness](#4-fairness) · [5 the proofs](#5-the-proofs) ·
[6 what the code does and the documents do not say](#6-what-the-code-does-and-the-documents-do-not-say) ·
[7 not modelled, and the plan](#7-not-modelled-and-the-plan)

## 1 The system

Each service has a database of its own; they call each other over HTTP, with no
distributed transaction, and send each other events through RabbitMQ.  No service locks a
row it read, except the audit log.  So the hard behaviour is always the same: a handler
reads, asks another service, and writes what it concluded, while others do the same and
any of them may stop.

| component | state | operations that change it | what makes it hard | what makes it correct |
|---|---|---|---|---|
| **Permission Service** `permission-service` | grants (permissions, requested and effective expiry, status, parent) | create, share within a task, patch, delegate, revoke with its descendants, follow a task's deadline | stale writes, cascades row by row, deadline events out of order | access only by a live grant with live ancestors; no expiry past what was asked; revocation is final |
| **Task Service** `task-management-service` | tasks, participants, submissions, status history | create, assign, add participant, change reviewer, start, submit, review, block, unblock, cancel | checks outside the transaction that writes | status follows the transitions; nothing approved without review; nobody reviews their own work |
| **Audit Log Service** `audit-log-service` | hash chain, chain head | append (events and HTTP), verify | concurrent appends, redelivery | no fork, no gap, no event twice |
| **Event delivery** outbox relays, `libs/messaging`, consumers | outbox, queues, `ConsumedEvent` | relay, publish, deliver, retry, dead-letter, record | crashes, redelivery, shared retry exchange | no event lost; effects exactly or at least once |
| **Authentication Service** `authentication-identity-service` | refresh tokens, Redis sessions, credentials | login, refresh, logout, revoke all; register, verify e-mail | three stores and a directory, no transaction | locks and revocations are honoured; rotated tokens are spent |
| **User-Role Service** `user-role-management-service` | users, lock, capabilities | lock, unlock, grant and revoke a capability, create | read by others at any time | an account has its entry here or does not exist; a capability that was revoked is soon useless |
| **Document Service** `document-management-service` | documents, versions, associations with tasks, tickets, preview sessions, records, packages, holds | upload, version, attach, detach, preview, download, transfer, dispose | compensation of half-done work, single use under concurrency | no grant outlives its association; a ticket is used once; versions have no gap; a hold found by nobody was not there |
| **Document Security Service** `document-security-service` | encryption records, previews in memory, key versions | scan, encrypt, store, decrypt, render | object store and database out of step | what was uploaded can be had again; nothing unscanned is served |
| **Security Monitoring** `security-monitoring-service` | rules, counters, alerts | count an event, raise and resolve alerts | redelivery, concurrent handlers, several rules per event | an alert when the threshold is reached, one page for an alert, sessions revoked |
| **Notification Service** `notification-service` | notifications, preferences | create from events, mark as read | redelivery, preferences that change | whoever an event names is told once |
| **API Gateway** `api-gateway` | rate-limit windows and overviews in memory | verify the token, limit, apply the policy, forward, build and keep overviews | sliding windows, shared builds; authority decided in four layers | the limit holds in every window; an overview goes to whom it was built for; every operation has its authority |
| **Web client** `frontend/web` | pair of tokens, cached reads | read, change, refresh, sign out | shared reads and refreshes, late answers | a tab sees its own changes |

How they interact.  The gateway forwards with the claims of the access token.  The
Document Service asks the Permission Service before it serves anything, and creates and
revokes grants when documents are attached and detached.  The Permission Service asks the
Task Service for the task (`getContext`) and the Document Service whether the association
exists.  The Task Service announces a changed deadline, and everything else that others
react to, through its outbox; the Document Service has an outbox of its own.  Audit,
notification, monitoring and permission consume these events.  Monitoring asks the
Authentication Service to revoke the sessions of an account, and the Authentication
Service asks the User-Role Service whether an account is locked.

`PROJECT.json` lists the components with their sources and the hazards, each at the line
where it bites with the properties that watch it.  Every hazard but one has such a property; that one (events published without an outbox) has
its reason.

## 2 The modules

Every model has the same shape.  The tables are functions or sequences of records; `op`
maps each concurrent handler to what it is doing: its program counter and **what it has
read so far**.  A handler is cut at its awaits, never elsewhere: one action per read that
others can invalidate, one per write.  One action per module (`Abort`, `Fail`, `Stop`,
`Crash`) ends a handler anywhere, and stands for early returns, exceptions, timeouts and
crashes alike, because each leaves what was already written.  An operator whose comment
calls it a mutated form is a plausible mistake in the definition it precedes; no
specification uses it, and it serves to show that the properties can fail.

### Grants (`Grants`, `PermissionCheck`, `MCGrants`, `GrantsProofs`)

`permission.service.ts` for one task and one document: a parent link never joins two
such pairs, so each pair evolves on its own.

| model | code |
|---|---|
| `grant`, `op`, `now` | `PermissionGrant`, handlers in progress, the clock |
| `deadline`, `attached` | the Task Service and the Document Service as the service sees them: both may change at any time |
| `events` | `task.deadline.changed` not yet acknowledged; consumed in any order, as often as redelivery likes |
| `PostGrant`, `ReadContext`, `CheckCreate`, `Insert` | `createGrant` |
| `PostTaskGrant`, `FindNone`, `FindExisting`, `UpdateExisting` | `createTaskScopedGrant` |
| `PatchGrant`, `CheckPatch`, `WritePatch` and the shortening loop | `updateTaskDocumentGrant`, `shortenDescendantExpiries` |
| delegation, revocation, cascade | `delegateGrant`, `revokeGrant`, `cascadeRevoke` |
| narrowing | `handleTaskDeadlineChanged` |
| `FindGrants`, `AskAttached`, `Climb`, `Judge`, `AnswerCheck` of `PermissionCheck` | `check`, `isParentChainAlive` |
| `lived`, `linked` of a check | auxiliary: the grants that were live, and whether the document was attached, at some time since it began |
| `asked` | auxiliary: the widest expiry any request named for a grant |

`PermissionCheck` extends `Grants` with checks that read the rows while the handlers of
`Grants` write them: the grants of the actor at once, then for each the association and
its ancestors, an await each.  A handler in `Grants` that reads several rows before it
writes (`CheckCreate`, `CheckPatch`) takes them at the instant of the last read.

Status `EXPIRED` is left out, because `expireDueGrants` has no caller, and so are reasons,
names and the audit trail.

### Tasks (`TaskWorkflow`, `Tasks`, `MCTasks`, `TasksProofs`)

`tasks.service.ts`.  `TaskWorkflow` is the abstract specification: status and a blocked
flag moving along `STATUS_TRANSITIONS`.  `Tasks` has every handler that touches status,
people, submissions or parentage; `recorded` is the last row of the status history, of which a
new task has none.
Titles, comments, deadlines (their effect is in `Grants`) and statistics are left out.

### Audit log (`AppendOnlyLog`, `AuditChain`, `AuditChainProofs`)

`appendEvent` statement by statement as a PostgreSQL transaction at READ COMMITTED:
`FindExisting`, `LockHead` (upsert and `FOR UPDATE`), `ReadLatest`, `Insert`, `Commit`;
`Fail` and `Conflict` undo it.  Writes become visible at `Commit`.  `AppendOnlyLog` is the
abstract specification.  SHA-256 is taken to be injective: a hash is the list of what was
hashed.  `BrokenAt` is `verifyChainIntegrity`; the two ways in which `occurred_at` is
written, as sent and as `toISOString` prints it, are kept apart, because the chain is
computed over the one and verified over the other.

### Event delivery (`EventDelivery`, `MCEventDelivery`, `EventDeliveryProofs`)

The relays of the two outboxes, the topology the library declares, `handleMessage` and
the consumers.  Queues are bags: RabbitMQ redelivers in any order.  Every retry queue is
bound to the retry exchange with the same keys as its work queue and expires into the
domain exchange, so one failed message is copied to **all** consumers of the event; the
model keeps this (`Routed`).  `Split` consumers (monitoring) check, act and record in
three statements, the others in one transaction.  A handler whose channel has closed runs
on without holding its message (`held`).

### Sessions (`Sessions`, `MCSessions`, `SessionsProofs`)

`login`, `refresh`, `logout` and `revokeAllUserTokens` against the directory, the token
table and Redis.  A token stands for the pair it was issued in.  `Login` or `Refresh`,
`AskDirectory`, `Rotate`, `AskCapabilities`, `Issue`, `SetSession`, `Answer` are the
awaits of one request.  `AskDirectory` answers with the lock as it is, and a request for
which it does not answer ends; `AskCapabilities` goes on without capabilities when it gets
no answer.  `swept`, `cleared` and the fields `unlocked` and `held` of a request are
history variables: they record what was true while it ran, and no guard reads them.

### Document Service (`TaskDocuments`, `DocumentAccess`, `RecordTransfer`, `Disposal`, `DocumentStore`, `MCDocuments`, `DocumentAccessProofs`, `DocumentsProofs`)

Five parts that keep no state in common, over the parameters of `DocumentConstants`
(`DocumentStore`, which reaches into another service, over those of `ServiceConstants`).

`TaskDocuments` is attaching, detaching, sharing and their compensation
(`task-documents.service.ts`), over the association (`attached`) and the grants that the
Permission Service keeps for it (`granted`).  A call is data: what it asks for, and how
far the other service has got with it.  `Serve` is the other service at work, `Refuse` a
call that had no effect, `Timeout` a caller that goes on while its call is still on its
way; such calls, and those of a crashed request, are in `late` and may be carried out
(`ServeLate`) or lost at any time.  `named` and `doubt` are history variables: who was
asked to have a grant, and for whom a call was lost or late or a request stopped half-way.

`DocumentAccess` is the preview and the download.

| model | code |
|---|---|
| `may` | the answer of the permission check; changes at any time |
| `ticket`, `session` | `DownloadTicket`, `PreviewSession` |
| `preview` | the previews in the memory of the Document Security Service, which expire and are lost on their own |
| `Ask` | `checkDocumentPermission`, the first await of every request but a revocation |
| `CreateTicket`, `IssueTicket`, `Redeem`, `ReadTicket`, `Burn`, `Serve` | `createDownloadTicket`, `redeemDownloadTicket`, `markDownloadTicketUsed` |
| `OpenPreview`, `PreparePreview`, `CreateSession` | `createPreviewSession` |
| `UseSession`, `ReadSession`, `ReadForPage`, `CountPage`, `ShowPage` | `getPreviewPage`, `markPreviewPageRequested` |
| `ExtendPreview`, `Render`, `ReadForCount`, `WriteCount` | `extendPreviewSession`, `updatePreviewSessionPageCount` |
| `RevokeSession`, `RevokePreview` | `revokePreviewSession` |
| `served`, `held` | auxiliary: how often each ticket or session was answered; what its user was allowed since the request began |

`RecordTransfer` is one record from its first entry to the archive, and its transfer
packages: every operation reads in one action and writes, unconditionally, in another.
A manifest is the set of files it names.

`Disposal` is retention, holds and disposal of one document
(`documents.service.ts:1300–1607`).

| model | code |
|---|---|
| `document`, `versions`, `objects`, `holds` | `archive_status` and approval, `DocumentVersion`, what the object store has, `RetentionHold` |
| `CheckEligibility`, `AfterLook`, `WriteEligible` | `checkRetentionEligibility` |
| `ApproveDisposal`, `FindNoHold`, `InsertApproval` | `approveDisposal` |
| `ExecuteDisposal`, `FindApproval`, `StatObject`, `RemoveObject`, `DeletionFails`, `AnswerDeletionFailed`, `WriteDisposed` | `executeDisposal`, `deleteObject`, object by object in any order |
| `PlaceHold`, `InsertHold`, `ReleaseHold`, `WriteReleased` | `placeRetentionHold`, `releaseRetentionHold` |
| `FallDue` | external: nothing in the repository archives a document |
| `AddVersion` | `createDocumentVersion`, which does not look at the disposal, stores nothing, and names the object that its caller says: one that another version names, or none that is there |

`DocumentStore` is the upload, versions, and the Document Security Service behind them:
`job` is what `processUploadStream` does for an upload (receive, scan, encrypt, put,
record, or undo), which goes on when the Document Service has given up waiting; `calls`
are the calls to `processDocument`, which nobody waits for; `key` is the configured and
active key encryption keys, which a restart changes.  `Decryptable` is the decision of
`preparePlaintextDownload`: a record, found clean, with a signature that verifies and a
key that is configured.  A signature is one the service computed or one that somebody
sent: bytes and checksums are left out.

`MCDocuments` checks the five in one run.  Its state is the union of theirs, and `part`
says which one moves: because they share nothing, exploring them one at a time visits
every state that each of them has.  `DocumentAccess` is extended, so that the run checks
its properties as they are stated; the others are instances.

### The smaller services (`SecurityAlerts`, `Notifications`, `Accounts`, `Gateway`, `WebClient`, `MCServices`, `ServicesProofs`)

* `SecurityAlerts`: rules, counters of time windows, alerts.  `CountEvent`, `RaiseAlert`,
  `PublishAlert`, `RevokeAllSessions`, `RecordConsumed` are what a handler does with an
  event, the first two one transaction that holds the row of the counter
  (`monitoring.service.ts:266–367`); several handlers may have the same event.
  `ReadRule`, `CountByHand`, `RaiseByHand` are `recordEvent`, whose statements are not one
  transaction.  Rules are created, changed and deleted, and alerts resolved, meanwhile.
* `Notifications`: `People` and `Channels` are who is told of which event, `Rows` the rows
  `createNotificationsForEvent` writes; look, insert, mail and acknowledge are the steps of
  a handler, which may be repeated or doubled.  Preferences and read marks change at any
  time.
* `Accounts`: a registration writes the credential store and then, over HTTP, the
  directory (`CreateAccount`, `CreateUser`, `ProvisionUser`), and undoes the first when the
  second fails (`Compensate`); then the code (`IssueVerifyOtp`, `SendMail`, `PutOff`,
  `ResendOtp`) and its use (`SeeCode`, `VerifyEmail`, `ForgetCode`, `ForgetResend`).  The answer of the directory may be lost after it was written.
* `Gateway`: `Arrive` is guards and policy, which run without a pause; the bucket of each
  origin, as the set of the requests in it with their `arrival`, and the cache of overviews
  with the builds that concurrent loads share.
* `WebClient`: the cache of reads as promises (`cachedGet`), the stored pair of tokens, the
  one refresh that refused requests share, and signing out, for one tab.

### Authority (`Operations`, `Authority`, `ServicesProofs`)

`Operations` is the table of the 119 operations of all controllers, with the conditions
under which each lets a request through: the policy of the gateway, the role and
capability the handler asks of the headers, what the Permission Service is asked, and the
caller's relation to the row.  It has several rows for a handler that tells cases apart.
`Authority` takes a request through these layers, while capabilities are granted, revoked,
copied into tokens and forgotten with them, and while grants are given and end.  What an
operation then does is in the module of its service.  The operations on a ticket or session
that exists already (redeeming, paging, extending, revoking) ask only whether it is the
caller's own: they are in `DocumentAccess`.

Time is kept as ages that stop growing once no property can tell the difference, so that
there is no last tick.

`MCServices` checks these six in one run, as `MCDocuments` does.

## 3 The runs

| run | question | answer |
|---|---|---|
| `Grants` | how far can two handlers' stale writes postpone an expiry, and can a check that runs meanwhile be told to use a grant with a dead ancestor? one handler at a time, three grants: are deadlines followed and revocations final? | never past what was asked; no; yes |
| `GrantsRevived` | does a revoked grant stay revoked with two handlers? | **no** |
| `GrantsWiderChild` | does a delegated grant never carry more than its parent, as `CONTEXT.md` says? | **no**: sharing again with its recipient rewrites it without a look at its parent |
| `Tasks` | two handlers: what can stale writes not break? one handler at a time, parent and child: does the service implement `TaskWorkflow`, and do its tables agree? | participation, and approval only after review; yes |
| `TasksSelfReview` | two handlers: can somebody decide on their own submission? | **yes** |
| `TasksLeavesTerminal` | two handlers: is a terminal status final? | **no** |
| `AuditChain` | three transactions that append, repeat and fail: does the chain fork, skip or repeat? does every append end? | no; yes |
| `EventDelivery` | one event, two kinds of consumer, two faults anywhere: is anything lost or had twice? is every event settled? | nothing lost, transactional effects once; yes |
| `Sessions` | two requests, a lock at any time, any request stopped: are locks, sweeps and rotations honoured? | yes |
| `Documents` | two requests in each of five parts: do association and grants agree, is a ticket used once, is a limit kept, do record, package and receipt agree, does a hold protect, is what was uploaded there, scanned, and numbered? | yes: the fourth for requests one at a time, the first but for those whom a lost call or a stopped request concerned |
| `HoldsBlock` | is nothing removed while a hold is active, as the documentation says? | **no** |
| `Services` | in each of six parts: does every alert follow, is everybody told once, does every account have its entry in the directory, do limits and overviews hold, does a tab see what it changed through `request()`, has every operation its authority? | yes |

`Grants` and `Tasks` explore two instances each, of which `part` says which: handlers one
at a time with more rows, and two interleaved handlers with fewer.

The five bold answers are findings; `PROJECT.json` has the line of the code and the
sentence it contradicts.

**What the properties say.**  Each was chosen because it relates several tables or
several steps:

* `UseNeedsLiveAncestry`: a check that runs read by read, while grants are delegated,
  patched, narrowed and revoked, allows only by a grant that was live at some time while it
  ran, like each of its ancestors at any depth, and for a document that was attached at some
  time while it ran.  So a revocation or an expiry that was complete before the check began
  is honoured even by a grant that a cascade missed; one that comes while it runs may not be.  `WithinAsked`: no interleaving of cascades, patches and deadline
  events postpones an expiry beyond what a request named.  `DeadlineHonoured`: a grant
  reaches past the deadline only while the event that announces it is unacknowledged
  (`DeadlineKept`, like `RevocationKept`, is for one handler at a time).
* `ApprovedWasReviewed`: whatever overwrites what, an approved task has an approved
  submission of its own that is its result.  `OutcomeKept`, `HandsApart`, `HistoryKept`,
  `FollowsWorkflowSerially`: one handler at a time, the submission, the history and the
  status tell the same story, nobody reviews their own work, and every step is one of
  `TaskWorkflow`, so along an edge of its table, never out of a terminal status, and not
  while the task is blocked.
* `ChainIntact`: no gap and no fork.  `VerifyIsExact` characterises what verification
  reports.  `AppendsOnly` is refinement of `AppendOnlyLog`, and so includes that no event
  is logged twice.
* `NothingLost`: every published event is consumed, dead-lettered or has a copy that will
  arrive.  `ExactlyOnce`, `AtLeastOnce`: effects and mails against the record.
  `DeadLetterEarned`, `Settles`.
* `LockHonoured`: a pair is issued only if the account was unlocked at some time while
  the request ran (a request already under way when the account is locked may still issue
  one).  `SweptStaySwept`: after the tokens of a locked account were revoked with no older
  request left, it has none until it is unlocked.  `SpentStaysSpent`: a token that was
  exchanged is spent although the exchange may have stopped half-way, and a session that a
  logout deleted does not come back.
* `TablesAgree`: between requests, those who have a grant are those who were named since the
  document was attached, but for those whom a call that was lost, late or carried out
  without an answer, or a request that stopped, concerned.  So an attach that fails half-way
  leaves nothing, what a lost answer leaves is exactly what it was about, and a later detach
  that runs alone and is answered settles it.  Requests that overlap promise nothing until then.
* `ServedOnce`, `WithinLimit`: one download for a ticket and `PageLimit` pages for a
  session, however many requests meet.  `AllowedWhenServed`: whoever is served was allowed
  to at some time during the request.  `PagesRendered`: a session never promises a page
  that the other service has not rendered, although counts may overwrite each other.
* `CustodyAgrees`: with requests one at a time, there is one package at a time, and record,
  package and receipt tell the same story.  (That submitter and archivist are different
  people, whatever overwrites what, is proved: `HandsStaySeparate`.)
* `HoldProtects`: while a disposal removes objects, no hold is active that was active
  when the disposal was asked for.  `DisposedMeansGone`: disposals remove
  objects only after retention and an approval, and of a document that is `DISPOSED` no
  version has its object left, whatever failed before, however many disposals ran and
  whichever objects the versions name, except versions added during or after the disposal.
* `UploadsDecryptable`: the file of a document that was created by an upload can be had
  again, whichever step failed, was undone or timed out.  `ServedWereScanned`: nobody gets
  a file ClamAV has not found clean, whatever scan results and signatures are sent.
  `NumbersUnbroken`: versions are numbered up to the current one; one more only between two
  statements, or after a crash there.
* `AlertsFollow`: a rule whose counter reached its threshold has an alert, no alert is paged
  twice, the events of a window have at most one alert open, and the sessions of whoever is
  to be blocked were revoked although the first handler stopped in between.
  `InboxExact`: one row for each person and channel an event concerns, however often it is
  handled.  `NoAccountAlone`: whoever was answered with an account has it in both databases,
  whoever was refused or answered with a failure has none unless a process stopped or the
  compensation failed, the directory keeps an entry without an account only of a
  registration answered with a failure, and no address is verified without its code.
  `GatewaySound`: no interval of the length of the window has more requests than the limit,
  wherever the buckets were pruned; nobody is handed an overview built for another.
  `ReadsRequestChanges`: a read shows every change that the tab made through `request()`
  and that was answered before it was asked for.  It says nothing of what uploads with
  progress and POSTs answered with a file changed (section 6).
* `ActsWithAuthority`: whatever is carried out needs a capability that its caller had
  within the life of a token, the lookup and the request, needs a grant that was in force
  since the request arrived, is never about content for an administrator nor control for
  an employee (what services ask the directory about users counts as control), and no administrator comes to take part in a task, although no layer alone
  sees to it.

**Bounds, and why they are enough.**

* Two handlers, since every race found or excluded is between what one read and what
  another wrote; three transactions for the audit log, one that holds the lock, one that
  waits for it and one that is past the check before the lock.
* `MaxGrants` 3 gives parent, child and grandchild, or two children; `MaxTime` 2 gives a
  time before, at and after an expiry; the clock, like the numbers of rows and requests,
  is capped by the guards.
* One check at a time, since checks write nothing; it begins when a grant it finds has an
  ancestor (with handlers one at a time, two), because without one it reads no chain.
* `MaxTasks` 2 is a parent and a child; `MaxSubmissions` 2 one that was sent back and its
  successor; two users, so that assignee and reviewer can differ or meet, and the creator
  is one of them.  The interleaved handlers have one task; that the creator of a child takes part in
  the parent under races is left to the theorem.  The bound on requests (`MaxRequests`) is
  what the longest scenario named by the properties needs (create with an assignee, start,
  submit, review, start, submit, review), and one less for the interleaved handlers.
* `EventDelivery`: one event suffices, since nothing depends on two (queues are bags and
  handlers ignore other events), with two handlers of the transactional consumer, so that
  copies of the event are handled at the same time, and `MaxAttempts` 2, so that retry and
  dead-lettering both happen.  The code defaults to three attempts and a prefetch of
  five, which the theorems cover.
* `Sessions`: two tokens, the one exchanged and the one it is exchanged for; one user,
  since no operation relates two.
* `Documents`: each part has its own bound on requests, for the longest scenario its
  properties need (`MCDocuments` names them): attach, detach, attach again and one that
  interferes; issue or open, and two that compete; a record whose first package is rejected
  and whose second is archived.  One ticket, one session and a `PageLimit` of 1, so that
  two requests always compete for the last page (the code's 200 is covered by the theorem);
  three pages, of which one is rendered at first and up to two per extension, so that two
  extensions overlap; one late call at a time.  Two files, so that one deletion can fail
  and the other not, or two versions share one, and two holds; two versions, two keys and
  two documents.
* `Services`: two windows and two events that may share one, a threshold of one or two,
  one repair by hand and one failure; one event for two readers and one crash; two
  registrations for one address, since those of different addresses share nothing but
  bounds, with two codes; two requests
  in a window of one tick, whose limit a third exceeds, and a cache of one entry; three
  requests of a tab, the last of which reads, so that another changes the data while one
  waits or is refused, and of the gateway, the last of which is for an overview; one
  capability, which comes and goes, and one token, since nothing relates two (the theorem is for any number).
* Symmetry is used for interchangeable handlers, users and tokens, and only in runs
  without liveness properties (the refinement of `TaskWorkflow` and the action properties are safety).  No run checks for deadlock: bounded requests run out.

## 4 Fairness

Safety needs none.  Two runs check liveness.

* `AuditChain`: weak fairness of each transaction's next statement, strong fairness of
  `LockHead`, because PostgreSQL queues those who wait for a row.  `Fail` is never forced.
  This gives `AppendEnds`.
* `EventDelivery`: weak fairness of the relay (it polls on a timer), of `RetryDue` (the
  delay ends), of each handler's next step (the event loop runs what is ready; the broker
  delivers when there is prefetch) and of `Expire` (a message TTL).  Faults are not fair
  and are at most `MaxFaults`: with faults for ever, an event may be retried for ever by
  its producer.  This gives `Settles`.

## 5 The proofs

TLAPS checks the theorems for all values of the constants that satisfy the named
assumptions: `BoundsAssumption`, `TaskConstants`, `AuditConstants`, `DeliveryConstants`,
`SessionConstants`, `DocumentAssumption`, `DocumentsAssumption`, `ServicesAssumption` and
`AuthorityAssumption`, which say no more than that bounds are natural numbers (page numbers,
thresholds and lifetimes positive), subsets are subsets, the null value is not a value, the
identifiers of tickets and sessions differ and, where requests are counted, that there are
finitely many.  The bounds are parameters, so the theorems hold for any number of handlers,
rows, retries and faults.  Of the properties of the passing runs all are stated by a
theorem but the two of liveness.

| module | theorems | inductive invariant and why it is needed |
|---|---|---|
| `GrantsProofs` | `TypeCorrect`, `NeverBeyondAsked`, `UseIsOfTheLiving`, `DeadlineIsKept`, `RevocationIsKept` | `IInv`: `TypeOK`, `WithinAsked` and `InFlightBounded`.  An expiry that a handler computed from an old read is written over any row, so what handlers hold must be bounded by `asked` too, and parents must exist for a delegated grant to inherit a bound.  `ChecksOk`: what a check holds was so at some time while it ran, and the ancestors it has read lead from its grant to the one it reads next; when none is left to read, they are closed under parents (`Climbed`), and as parents are older rows (`Older`), they hold every ancestor.  `SerialInv`, for one handler at a time: the expiry it holds is that of a deadline that still stands or whose change is announced, and a narrowing handler has listed every row that reaches too far. |
| `TasksProofs` | `TypeCorrect`, `StakeholdersAlwaysTakePart`, `NothingApprovedUnreviewed`, `OutcomeIsKept`, `HandsStayApart`, `HistoryIsKept`, `WorkflowIsFollowed` | `HeldIsSound`: a row that a handler read earlier and will write back carries no terminal status, and a decision is about a submission of the task it decides.  `SerialInv`, for one handler at a time: what it read is still so and passed its checks (`Current`), the last submission of a task carries its outcome a blocked task remembers its status (`Tidy`), and a task without history is as it was created.  `Lifecycle` is what a step does to one task, on which the refinement of `TaskWorkflow` rests. |
| `AuditChainProofs` | `TypeCorrect`, `ChainNeverForks`, `NeverTwice`, `HeadAlwaysInStep`, `ImplementsAppendOnlyLog`, `VerificationIsExact` | `HolderIsCurrent`: only the holder of the lock works on a row, and the row it built still continues the log.  Refinement follows with `NeverTwice`; what verification reports, from `ChainNeverForks` and `MismatchIs`. |
| `EventDeliveryProofs` | `TypeCorrect`, `DeadLettersAreEarned`, `EffectsExactlyOnce`, `EffectsAtLeastOnce`, `NothingIsLost` | `CopiesSound` (every copy was routed to a consumer bound to it and counts no more attempts than handlers threw), `Stages` (what a handler has done by the step it is at, and that no two send the mails of an event), `PublishedSafe` (a row that is published, *or about to be marked*, has a copy). |
| `SessionsProofs` | `TypeCorrect`, `LocksAreHonoured`, `CapabilitiesAreHeld`, `SweepsLast`, `RotatedStaysSpent` | `AllTold` (what a request was told was true while it ran), `Sweeping` (no request that could issue to a swept account has seen it unlocked); `StatusStep`: a token that ended never comes back, although late updates overwrite its status; `SpentInv`: whoever goes on to issue has ended the token it exchanges and has a pair of its own, which no other request can give or bring back. |
| `DocumentAccessProofs` | `TypeCorrect`, `TicketsServeOnce`, `ServedWereAllowed`, `PageLimitHolds`, `PagesWereRendered` | `Sound`: a request past the check was allowed, one that fetches holds a ticket that is burnt and not yet answered, one that carries a page count carries no more than was rendered.  `PairWith`: no two requests make the same row or fetch on the same ticket.  `Counted`: the pages shown, plus the requests about to show one, are at most the count. |
| `DocumentsProofs` | `PartsBehave`, `TypeCorrect`, `TablesStayInAgreement`, `HandsStaySeparate`, `CustodyIsKept`, `HoldsProtect`, `DisposedIsGone`, `UploadsStayDecryptable`, `ServedAreScanned`, `NumbersStayUnbroken` | `TablesInv`: at every await, by how much a request under way has the two tables apart (`Doing`) for each user out of `doubt`, whom no late call concerns (`Spared`).  `TransferInv`: a request that will receive or decide is not its submitter's, and holds a package that exists and, to decide, was received; `CustodyInv`: with requests one at a time, what a request checked is still so.  `DisposalInv`: a disposal that goes on found no active hold, and what is left of the objects is what it has yet to remove or what came late.  `StoreInv`: what is kept of a document by the step its upload is at (`Kept`), that no two requests make or count the same document (`Apart`), and `Numbered`. |
| `ServicesProofs` | `ServicesBehave`, `ServicesTyped`, `AlertsAlwaysFollow`, `InboxStaysExact`, `AccountsAreListed`, `GatewayIsSound`, `TabReadsRequestChanges`, `RequestsHaveAuthority` | `AlertsInv`: an event whose rule was reached and not yet raised or revoked is still with every handler that has it (`Owing`).  `InboxInv`: rows, mails and the mark that an event was consumed are one transaction.  `AccountsInv`: which databases know an account by the step its registration is at (`Settles`).  `GateInv`: a request that counts against a window is in its bucket wherever that was pruned, and whoever waits for a build was entitled to its key.  `ReadsInv`: a read that may be handed out again shows every change answered so far.  For the authority, first the table: `Sound`, proved group by group for every row of `Operations`, says that a caller of the wrong role who passes the gateway and the handler must still be refused by the Permission Service or for taking no part in the task; then `LayersPassed`: what each layer has seen to by the stage a request is at, and that no administrator takes part, on which the last layer relies; and `CopiesFresh`: how long ago what a lookup, a token or a request says of a capability was true, which bounds the next copy. |

Each proof has one step per action; frame lemmas (`Continue`, `RowsStay`, `StatusesStay`,
`SweepingStays`) carry what actions have in common.

**One part at a time.**  `PartsBehave` and `ServicesBehave` say that a behaviour of the
composed run is one of every part, so each part is proved by itself and its theorem is
stated of the run's specification.  In the specifications with a variable `part`, the
properties that hold for one handler at a time, and that the findings show to fail for
two, are theorems of `SpecOfPart`: their invariants add that no two handlers are in
progress (`Alone`), hence that what a handler holds is still so.  `TablesAgree` and
`CustodyAgrees` carry the condition in the property (`doubt`, `overlapped`).

**Without induction.**  Ancestors, chains and the first broken row are defined by recursive
functions over numbered rows.  What is proved of them needs their defining equations and
one fact, that a set of natural numbers has a smallest member (`SmallestIs`, from the
library's well-foundedness of `<`): the smallest counterexample has a predecessor that is
none.

**Model-checked only.**  The liveness properties `AppendEnds` and `Settles`, which are
beyond the prover.  The runs that end in a violation are findings and have no theorem.

## 6 What the code does and the documents do not say

Beside the five findings, the models are built on these behaviours.  They are listed
because a change to them would change the models.

* **Grants.**  Delegation accepts `SHARE` alone, which creation refuses
  (`permission.service.ts:560`).  A patch of the permissions recomputes the effective
  expiry from the current deadline, so that it may also grow (`:427`).  Revoked grants
  answer `NO_GRANT` (`:141`).  A grant may be inserted with a deadline read before the
  event that shortens it (`:235`), and the consumer narrows from rows it read earlier
  (`:768`).  Sharing again with somebody who holds a delegated grant rewrites that grant and
  looks at no parent (`:323`).  `check` judges a grant as it found it (`:135`), so that one
  revoked while its ancestors are read is still used.
* **Tasks.**  Neither creation (`tasks.service.ts:202`) nor blocking writes a status
  history row.  A child may be created after the children of its parent were checked
  (`:1181`).  A child that was
  rejected or cancelled keeps its parent from ever being approved.
* **Audit.**  The check for an event already logged precedes the lock (`audit.service.ts:72`);
  the unique key makes up for it.
* **Events.**  Monitoring may count one event more than once.  Mails follow the commit and
  are lost by a crash between the two.  Events published directly, without an outbox, are
  lost when the process stops.
* **Sessions.**  `lockUser` revokes nothing: the tokens of a locked account are revoked at
  its next attempt, and those never tried work again after an unlock.  Two refreshes of
  one token at the same time both succeed.  A logout that stops half-way leaves its
  session key for good; nothing reads session keys.
* **Sharing through tasks.**  `attach` compensates the grants whose answers it got
  (`task-documents.service.ts:118`), so a grant whose answer was lost, or a crash, leaves a
  grant that is usable once the document is attached again; a `detach` whose revocation
  fails logs the failure and leaves the grants likewise (`:387`).  Until then such a grant
  opens nothing, because the check asks for the association.
* **Reading.**  The permission is checked before the ticket is burnt
  (`documents.controller.ts:1020`): a right that is taken away in between still yields one
  download, and a failure after the burning yields none.  The page count of a session may
  fall when an older extension writes last (`documents.service.ts:521`).
* **Records.**  Every operation of `RecordsController` and `TransferPackagesController`
  checks first and writes unconditionally later, so that an acceptance and a rejection at
  the same time leave a transferred record with a rejected package, two creations leave two
  active packages, and an entry may be added while the record is sealed, although its
  operation is described as "no more edits allowed" (`documents.controller.ts:1309`).
* **Disposal.**  Nothing archives a document or sets `retention_expires_at`, by which
  disposal finds its candidates (`documents.service.ts:1304`).  An object that is gone
  counts as a failed deletion (`:1602`), so that once one of several deletions has failed
  after another succeeded, no retry makes the document `DISPOSED`, although
  `docs/reports/implementation-report-records-retention.md:51` speaks of "per-object deletion
  with retry logic".  `createVersion` stores nothing and takes the name of the object from
  its caller (`documents.controller.ts:532`): two versions that name one object, or one whose
  object is not there, likewise keep a document from ever being disposed of.  A version may
  be added during a disposal, whose object then stays.
* **Uploads and versions.**  After a crash between a version and `current_version`
  (`documents.service.ts:423`) the document gets no version any more.  A failed upload
  may leave an object nothing refers to.  `rotateKek` writes a table that encryption never
  reads: the active key is the one configured.  An audit record that fails is logged and
  dropped, so that an operation may have none.
* **Alerts.**  The events of two windows may raise two alerts that are both `OPEN`, and page
  twice, although `monitoring.service.ts:343` says that "repeated events while an alert is
  already OPEN must not page admins again".  The page of an alert may be lost with the
  process.  When two handlers have the same event, the one that finds the alert open may
  record it consumed before the other has revoked the sessions.
* **Registration.**  When the answer of the directory is lost, its entry stays although the
  account is deleted (`auth.service.ts:92`), without any process having stopped, and the
  address can never be registered again.
  An account exists, and may be verified, before the directory knows it.
* **Gateway.**  The build of an overview that fails removes whatever its key holds by then
  (`statistics.service.ts:46`), a newer one included.
* **Authority.**  `getInternalTitles` is described as "for internal services"
  (`documents.controller.ts:275`), `getInternalAdmins` and `getInternalUser` as "for internal
  notification delivery" (`users.controller.ts:65`, `:71`), and
  `docs/superpowers/specs/2026-08-04-project-overview-architecture-design.md:12` counts
  "internal-route isolation" among the duties of the gateway; yet it forwards all three, the
  first for anybody, the others for administrators, because its policy lists the internal
  routes one by one (`gateway.controller.ts:386–420`).  `ActsWithAuthority` therefore does
  not say that what is between services stays there.  The policy compares prefixes of
  `originalUrl` as it came (`:383`), whereas the call is made by `fetch`, which resolves `..`
  (`:245`, `:295`): the models take a request to have one path.
* **Web client.**  A change made by an upload with progress, or by a POST that is answered
  with a file, does not invalidate the cache of reads (`client.ts:113`, `:135`), so that for
  three seconds a tab may read what was there before.  A read that fails forgets whatever the cache holds for its path by then
  (`client.ts:27`); a refresh that ends after the user signed out stores its tokens again
  (`:52`); a request refused after the shared refresh has ended refreshes with a pair that
  is spent, which signs the user out (`:43`); `requestBlob` repeats itself as often as it
  is refused (`:147`).

## 7 Not modelled, and the plan

Left out for good: the pages of the front end and the mobile application, figures of
statistics, health checks and logging (no state anybody relies on), cryptography, malware
scanning and rendering (transformations of data), e-mail templates, deployment and seed
data.  Listings and single reads change nothing; who may ask for them is in `Operations`.
The deadline reminders are a sweep that writes outbox rows; the Notification Service's side
of them is in `Notifications`, the way in between in `EventDelivery`.

Done: `Grants`; `Tasks`, refining `TaskWorkflow`; `AuditChain`, refining `AppendOnlyLog`;
`EventDelivery`; `Sessions`; `TaskDocuments`, `DocumentAccess`, `RecordTransfer`,
`Disposal` and `DocumentStore`; `SecurityAlerts`, `Notifications`, `Accounts`, `Gateway`
and `WebClient`; `Operations` and `Authority`, with its theorem.

The safety properties of all passing runs have their theorems.  Left, in order:

1. `SecurityAlerts` and `Notifications` composed with `EventDelivery`, which now hands its
   consumers one event of no kind.
2. The sweep of deadline reminders, with two replicas.
3. Abstract specifications of `Notifications` (a set of rows that only grows) and
   `DocumentAccess` (tokens that are spent), refined by the detailed ones.
