----------------------------- MODULE AuditChain -----------------------------
(***************************************************************************)
(* The Audit Log Service: appendEvent, called by the consumer of the       *)
(* domain events and by POST /audit/events, and verifyChainIntegrity       *)
(* (apps/audit-log-service/src/audit/audit.service.ts).                    *)
(*                                                                         *)
(* An append is one PostgreSQL transaction at READ COMMITTED: each of its  *)
(* statements sees what is committed, its own writes are seen by others    *)
(* when it commits, and the row of ChainHead is locked from the upsert to  *)
(* the end.  Workers are the transactions that run at the same time.  The  *)
(* chain head is created by the first append; until then it reads as its   *)
(* default.  Which events arrive, and how often, is up to the senders.     *)
(*                                                                         *)
(* SHA-256 is taken to be injective: the hash of a row is the list of what *)
(* was hashed into it, from the first row on.                              *)
(*                                                                         *)
(* ReadUnordered, UncheckedInsert, UndoKeepingLock and StopAtFirst are     *)
(* mutated forms of the definitions they precede; no action uses them.     *)
(***************************************************************************)
EXTENDS Naturals, Sequences

CONSTANTS
  Worker,     \* transactions that may run at the same time
  Nobody,     \* the chain head is not locked
  Event,      \* events by event_id
  Noise,      \* those of a type in SUPPRESSED_EVENT_TYPES
  Inexact,    \* those whose occurred_at is not in the form of toISOString
  MaxAppends  \* bound: calls of appendEvent

ASSUME AuditConstants ==
  /\ Nobody \notin Worker
  /\ Noise \subseteq Event
  /\ Inexact \subseteq Event
  /\ MaxAppends \in Nat

VARIABLES
  log,    \* the table AuditEvent by sequence_number
  head,   \* the row ChainHead
  lock,   \* who holds its lock
  op,     \* what each worker is doing
  calls   \* calls of appendEvent so far

vars == <<log, head, lock, op, calls>>
-----------------------------------------------------------------------------
Kept == Event \ Noise    \* appendEvent returns at once for the others

(* What canonicalJSON is given: as received by appendEvent, and as read    *)
(* back by verifyChainIntegrity, which formats occurred_at anew.           *)
Received(e) == [event |-> e, at |-> IF e \in Inexact THEN "as sent" ELSE "iso"]
Stored(e)   == [event |-> e, at |-> "iso"]

Content == [event: Kept, at: {"as sent", "iso"}]

Hash(content, previous) == Append(previous, content)

LastHash == IF log = <<>> THEN <<>> ELSE log[Len(log)].hash

InLog(e) == \E i \in 1 .. Len(log) : log[i].event = e

Idle == [pc |-> "idle"]
-----------------------------------------------------------------------------
Init ==
  /\ log = <<>>
  /\ head = [hash |-> <<>>, seq |-> 0]
  /\ lock = Nobody
  /\ op = [w \in Worker |-> Idle]
  /\ calls = 0

Goto(w, o) == op' = [op EXCEPT ![w] = o] /\ UNCHANGED calls

AppendEvent(w) ==
  \E e \in Kept :
    /\ op[w] = Idle
    /\ calls < MaxAppends
    /\ calls' = calls + 1
    /\ op' = [op EXCEPT ![w] = [pc |-> "find", e |-> e]]
    /\ UNCHANGED <<log, head, lock>>

FindExisting(w) ==
  /\ op[w].pc = "find"
  /\ Goto(w, IF InLog(op[w].e) THEN Idle ELSE [pc |-> "lock", e |-> op[w].e])
  /\ UNCHANGED <<log, head, lock>>

LockHead(w) ==
  /\ op[w].pc = "lock"
  /\ lock = Nobody
  /\ lock' = w
  /\ Goto(w, [pc |-> "latest", e |-> op[w].e])
  /\ UNCHANGED <<log, head>>

NextRow(e, previous) ==
  [event |-> e, prev |-> previous, hash |-> Hash(Received(e), previous), seq |-> Len(log) + 1]

ReadUnordered(w) ==
  /\ op[w].pc = "latest"
  /\ \E h \in {log[i].hash : i \in 1 .. Len(log)} \cup {<<>>} :
       Goto(w, [pc |-> "insert", e |-> op[w].e, row |-> NextRow(op[w].e, h)])
  /\ UNCHANGED <<log, head, lock>>

ReadLatest(w) ==
  /\ op[w].pc = "latest"
  /\ Goto(w, [pc |-> "insert", e |-> op[w].e, row |-> NextRow(op[w].e, LastHash)])
  /\ UNCHANGED <<log, head, lock>>

(* auditEvent.create: event_id is the primary key and sequence_number is   *)
(* unique, so that a conflict rolls the transaction back.                  *)
UncheckedInsert(w) ==
  /\ op[w].pc = "insert"
  /\ Goto(w, [pc |-> "commit", e |-> op[w].e, row |-> op[w].row])
  /\ UNCHANGED <<log, head, lock>>

Insert(w) ==
  /\ op[w].pc = "insert"
  /\ ~InLog(op[w].e) /\ op[w].row.seq > Len(log)
  /\ Goto(w, [pc |-> "commit", e |-> op[w].e, row |-> op[w].row])
  /\ UNCHANGED <<log, head, lock>>

(* chainHead.update and the commit, which publishes both writes. *)
Commit(w) ==
  /\ op[w].pc = "commit"
  /\ log' = Append(log, op[w].row)
  /\ head' = [hash |-> op[w].row.hash, seq |-> op[w].row.seq]
  /\ lock' = Nobody
  /\ Goto(w, Idle)

(* PostgreSQL undoes a transaction and releases its lock: the insertion is *)
(* refused, or the transaction fails, times out or loses its client.       *)
UndoKeepingLock(w) == UNCHANGED <<log, head, lock>> /\ Goto(w, Idle)

Undo(w) ==
  /\ lock' = IF lock = w THEN Nobody ELSE lock
  /\ Goto(w, Idle)
  /\ UNCHANGED <<log, head>>

Conflict(w) ==
  /\ op[w].pc = "insert"
  /\ InLog(op[w].e) \/ op[w].row.seq <= Len(log)
  /\ Undo(w)

Fail(w) == op[w] # Idle /\ Undo(w)

Statement(w) ==
  \/ FindExisting(w) \/ LockHead(w) \/ ReadLatest(w)
  \/ Insert(w) \/ Conflict(w) \/ Commit(w)

Next == \E w \in Worker : AppendEvent(w) \/ Statement(w) \/ Fail(w)

(* The server executes what it was sent, and grants a lock in the order of *)
(* the requests for it.                                                    *)
Fairness == \A w \in Worker : SF_vars(LockHead(w)) /\ WF_vars(Statement(w))

Spec     == Init /\ [][Next]_vars
FairSpec == Spec /\ Fairness
-----------------------------------------------------------------------------
(* verifyChainIntegrity: the sequence number of the first row whose hash   *)
(* is not that of its content and of the hash before it; 0 if none.        *)
Mismatch(i) ==
  log[i].hash # Hash(Stored(log[i].event), IF i = 1 THEN <<>> ELSE log[i - 1].hash)

StopAtFirst == IF log # <<>> /\ Mismatch(1) THEN 1 ELSE 0

BrokenAt ==
  LET bad == {i \in 1 .. Len(log) : Mismatch(i)} IN
  IF bad = {} THEN 0 ELSE CHOOSE i \in bad : \A j \in bad : i <= j
-----------------------------------------------------------------------------
Row == [event: Kept, prev: Seq(Content), hash: Seq(Content), seq: Nat \ {0}]

OpState == {Idle} \cup [pc: {"find", "lock", "latest"}, e: Kept]
                  \cup [pc: {"insert", "commit"}, e: Kept, row: Row]

(* Every variable has its type: noise is neither appended nor chained.     *)
TypeOK ==
  /\ log \in Seq(Row)
  /\ head \in [hash: Seq(Content), seq: Nat]
  /\ lock \in Worker \cup {Nobody}
  /\ op \in [Worker -> OpState]
  /\ calls \in 0 .. MaxAppends

(* The chain never forks and has no gap: row n has sequence number n, the  *)
(* hash of row n - 1 as its previous hash, and a hash over its own content *)
(* and that, whoever appended them and whoever gave up in between.         *)
ChainIntact ==
  \A i \in 1 .. Len(log) :
    /\ log[i].seq = i
    /\ log[i].prev = IF i = 1 THEN <<>> ELSE log[i - 1].hash
    /\ log[i].hash = Hash(Received(log[i].event), log[i].prev)

(* An event that is redelivered, or sent over HTTP as well, is in the      *)
(* chain once, although the check for it runs before the lock.             *)
OnceInChain ==
  \A i, j \in 1 .. Len(log) : log[i].event = log[j].event => i = j

(* The chain head describes the last row whenever it can be read.          *)
HeadInStep == head = [hash |-> LastHash, seq |-> Len(log)]

(* Whoever has locked the head works on the log as it is, so what it is    *)
(* about to commit continues the chain.  With the three above, inductive.  *)
HolderIsCurrent ==
  \A w \in Worker :
    /\ op[w].pc \in {"latest", "insert", "commit"} <=> lock = w
    /\ op[w].pc \in {"insert", "commit"} =>
         op[w].row = NextRow(op[w].e, LastHash)
    /\ op[w].pc = "commit" => ~InLog(op[w].e)

(* Verification of an untouched log reports the first event whose          *)
(* occurred_at came in another form than toISOString gives, and nothing    *)
(* when there is none.                                                     *)
VerifyIsExact ==
  LET odd == {i \in 1 .. Len(log) : log[i].event \in Inexact} IN
  /\ BrokenAt = 0 <=> odd = {}
  /\ odd # {} => BrokenAt \in odd /\ \A i \in odd : BrokenAt <= i

(* The log implements its abstract form. *)
Abstract == INSTANCE AppendOnlyLog WITH
  Event <- Kept,
  entries <- [i \in 1 .. Len(log) |-> log[i].event]

AppendsOnly == Abstract!Spec

(* Every append ends: nobody waits for the lock for ever. *)
AppendEnds == \A w \in Worker : op[w] # Idle ~> op[w] = Idle
=============================================================================
