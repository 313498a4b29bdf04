--------------------------- MODULE EventDelivery ---------------------------
(***************************************************************************)
(* How a domain event travels: committed with the row of an outbox, read   *)
(* by the relay (task-outbox-relay.service.ts; the relay of the document   *)
(* service is the same), published to the topic exchange, delivered to the *)
(* queue of every consumer bound to it, handled, retried through the retry *)
(* exchange, dead-lettered (libs/messaging/src/amqp-event-consumer.ts).    *)
(*                                                                         *)
(* A retry queue is bound like the work queue it belongs to, and expires   *)
(* into the domain exchange.  So a message that one consumer fails on is   *)
(* copied to the retry queue of every consumer, and each copy is then      *)
(* delivered to every consumer, its attempts counted in its header.        *)
(*                                                                         *)
(* Audit and notification look for the event, have their effect and record *)
(* it in one transaction.  Those in Split (security monitoring) do it in   *)
(* three.  What permission-service does with an event is in Grants.        *)
(*                                                                         *)
(* ReadRowMarking, CommitTwice, EffectSwallowed, AttemptTwice and          *)
(* AckWhenHeld are mutated forms of the definitions they precede; no       *)
(* action uses them.                                                       *)
(***************************************************************************)
EXTENDS Naturals, Sequences, FiniteSets, Bags

CONSTANTS
  Event,
  Relay,       \* replicas of the producer, each with a relay
  Consumer,    \* one per queue
  Bound,       \* the <<consumer, event>> whose routing keys match
  Split,
  Prefetch,    \* how many messages each consumer handles at the same time
  MaxAttempts,
  MaxFaults    \* bound: crashes, lost connections, failures

ASSUME DeliveryConstants ==
  /\ Bound \subseteq Consumer \X Event
  /\ Split \subseteq Consumer
  /\ Prefetch \in [Consumer -> Nat \ {0}]
  /\ MaxAttempts \in Nat \ {0}
  /\ MaxFaults \in Nat

VARIABLES
  outbox,   \* the state of each event's row of OutboxEvent
  relay,    \* the row each relay has come to, and whether it is published
  queue,    \* messages ready in each work queue
  retry,    \* messages in each retry queue
  op,       \* what each handler is doing
  done,     \* ConsumedEvent, or the chain of the audit log
  effects,  \* how often each consumer has had the effect of each event
  mails,    \* how often it has tried to send the mails for it
  dlq,      \* events in each dead-letter queue
  fails,    \* how often a handler has thrown, per event
  faults

producer == <<outbox, relay>>
broker == <<queue, retry, dlq>>
tables == <<done, effects, mails>>
vars == <<outbox, relay, queue, retry, op, done, effects, mails, dlq, fails, faults>>
-----------------------------------------------------------------------------
Message == [event: Event, attempts: 0 .. MaxAttempts - 1]

Handler == UNION {{c} \X (1 .. Prefetch[c]) : c \in Consumer}

Idle == [pc |-> "idle"]

Consumers(e) == {c \in Consumer : <<c, e>> \in Bound}

(* A message published to an exchange: one copy to every queue bound.      *)
Routed(q, m) ==
  [c \in Consumer |-> IF c \in Consumers(m.event) THEN q[c] (+) SetToBag({m}) ELSE q[c]]

Without(q, c, m) == [q EXCEPT ![c] = @ (-) SetToBag({m})]

Init ==
  /\ outbox = [e \in Event |-> "none"]
  /\ relay = [r \in Relay |-> Idle]
  /\ queue = [c \in Consumer |-> EmptyBag]
  /\ retry = [c \in Consumer |-> EmptyBag]
  /\ op = [h \in Handler |-> Idle]
  /\ done = [c \in Consumer |-> {}]
  /\ effects = [c \in Consumer |-> [e \in Event |-> 0]]
  /\ mails = [c \in Consumer |-> [e \in Event |-> 0]]
  /\ dlq = [c \in Consumer |-> {}]
  /\ fails = [e \in Event |-> 0]
  /\ faults = 0

Fault == faults < MaxFaults /\ faults' = faults + 1
-----------------------------------------------------------------------------
(* The producer commits a change and its event together. *)
Emit(e) ==
  /\ outbox[e] = "none"
  /\ outbox' = [outbox EXCEPT ![e] = "due"]
  /\ UNCHANGED <<relay, broker, op, tables, fails, faults>>

(* The rows of a batch are dealt with one after the other.  A row is not   *)
(* locked and not read again, so that two relays may hold the same.        *)
ReadRowMarking(r, e) ==
  /\ relay[r] = Idle
  /\ outbox[e] = "due"
  /\ outbox' = [outbox EXCEPT ![e] = "published"]
  /\ relay' = [relay EXCEPT ![r] = [pc |-> "publish", e |-> e]]
  /\ UNCHANGED <<broker, op, tables, fails, faults>>

ReadRow(r, e) ==
  /\ relay[r] = Idle
  /\ outbox[e] = "due"
  /\ relay' = [relay EXCEPT ![r] = [pc |-> "publish", e |-> e]]
  /\ UNCHANGED <<outbox, broker, op, tables, fails, faults>>

Publish(r) ==
  /\ relay[r].pc = "publish"
  /\ queue' = Routed(queue, [event |-> relay[r].e, attempts |-> 0])
  /\ relay' = [relay EXCEPT ![r].pc = "mark"]
  /\ UNCHANGED <<outbox, retry, dlq, op, tables, fails, faults>>

MarkPublished(r) ==
  /\ relay[r].pc = "mark"
  /\ outbox' = [outbox EXCEPT ![relay[r].e] = "published"]
  /\ relay' = [relay EXCEPT ![r] = Idle]
  /\ UNCHANGED <<broker, op, tables, fails, faults>>

(* An error of the publisher or of the update: try again after a delay. *)
Postpone(r) ==
  /\ relay[r] # Idle
  /\ Fault
  /\ outbox' = [outbox EXCEPT ![relay[r].e] = IF @ = "published" THEN @ ELSE "delayed"]
  /\ relay' = [relay EXCEPT ![r] = Idle]
  /\ UNCHANGED <<broker, op, tables, fails>>

RetryDue(e) ==
  /\ outbox[e] = "delayed"
  /\ outbox' = [outbox EXCEPT ![e] = "due"]
  /\ UNCHANGED <<relay, broker, op, tables, fails, faults>>

RelayCrash(r) ==
  /\ relay[r] # Idle
  /\ Fault
  /\ relay' = [relay EXCEPT ![r] = Idle]
  /\ UNCHANGED <<outbox, broker, op, tables, fails>>
-----------------------------------------------------------------------------
Goto(h, pc) == op' = [op EXCEPT ![h].pc = pc]

Known(h) == op[h].m.event \in done[h[1]]

Recorded(h) == done' = [done EXCEPT ![h[1]] = @ \cup {op[h].m.event}]

Counted(f, h) == [f EXCEPT ![h[1]][op[h].m.event] = @ + 1]

(* Handlers of one consumer are alike: the first idle one takes a message. *)
Free(h) == op[h] = Idle /\ \A i \in 1 .. h[2] - 1 : op[<<h[1], i>>] # Idle

(* A message that is no envelope is dead-lettered at once; it is left out. *)
Take(h) ==
  \E m \in BagToSet(queue[h[1]]) :
    /\ Free(h)
    /\ queue' = Without(queue, h[1], m)
    /\ op' = [op EXCEPT ![h] = [pc |-> "check", m |-> m, held |-> TRUE]]
    /\ UNCHANGED <<producer, retry, dlq, tables, fails, faults>>

Check(h) ==
  /\ op[h].pc = "check"
  /\ Goto(h, IF Known(h) THEN "ack" ELSE IF h[1] \in Split THEN "effect" ELSE "commit")
  /\ UNCHANGED <<producer, broker, tables, fails, faults>>

CommitTwice(h) ==
  /\ op[h].pc = "commit"
  /\ Recorded(h)
  /\ effects' = Counted(effects, h)
  /\ Goto(h, "mail")
  /\ UNCHANGED <<producer, broker, mails, fails, faults>>

(* The transaction commits; the mails are sent after it. *)
Commit(h) ==
  /\ op[h].pc = "commit"
  /\ ~Known(h)
  /\ Recorded(h)
  /\ effects' = Counted(effects, h)
  /\ Goto(h, "mail")
  /\ UNCHANGED <<producer, broker, mails, fails, faults>>

Mail(h) ==
  /\ op[h].pc = "mail"
  /\ mails' = Counted(mails, h)   \* whether or not sendMail succeeds
  /\ Goto(h, "ack")
  /\ UNCHANGED <<producer, broker, done, effects, fails, faults>>

EffectSwallowed(h) ==
  /\ op[h].pc = "effect"
  /\ effects' \in {effects, Counted(effects, h)}
  /\ Goto(h, "record")
  /\ UNCHANGED <<producer, broker, done, mails, fails, faults>>

Effect(h) ==
  /\ op[h].pc = "effect"
  /\ effects' = Counted(effects, h)
  /\ Goto(h, "record")
  /\ UNCHANGED <<producer, broker, done, mails, fails, faults>>

Record(h) ==
  /\ op[h].pc = "record"
  /\ ~Known(h)
  /\ Recorded(h)
  /\ Goto(h, "ack")
  /\ UNCHANGED <<producer, broker, effects, mails, fails, faults>>

AttemptTwice(m) == m.attempts + 2

Attempt(m) == m.attempts + 1   \* readAttemptCount(message) + 1

(* handler(envelope, message) throws.  In the same turn of the event loop  *)
(* the message is copied to the retry exchange or to the dead-letter       *)
(* queue; on a closed channel neither can be done.                         *)
Throw(h) ==
  LET m == op[h].m IN
  /\ fails' = [fails EXCEPT ![m.event] = @ + 1]
  /\ Goto(h, "ack")
  /\ IF ~op[h].held THEN UNCHANGED <<retry, dlq>>
     ELSE IF Attempt(m) >= MaxAttempts
       THEN dlq' = [dlq EXCEPT ![h[1]] = @ \cup {m.event}] /\ UNCHANGED retry
       ELSE retry' = Routed(retry, [m EXCEPT !.attempts = Attempt(m)]) /\ UNCHANGED dlq
  /\ UNCHANGED <<producer, queue, tables>>

(* The record exists already. *)
Conflict(h) ==
  /\ op[h].pc \in {"commit", "record"}
  /\ Known(h)
  /\ Throw(h)
  /\ UNCHANGED faults

Fail(h) ==
  /\ op[h].pc \in {"check", "commit", "effect", "record"}
  /\ Fault
  /\ Throw(h)
-----------------------------------------------------------------------------
AckWhenHeld(h) ==
  /\ op[h].pc = "ack" /\ op[h].held
  /\ op' = [op EXCEPT ![h] = Idle]
  /\ UNCHANGED <<producer, broker, tables, fails, faults>>

(* The broker drops the message, if it still holds it for this handler. *)
Ack(h) ==
  /\ op[h].pc = "ack"
  /\ op' = [op EXCEPT ![h] = Idle]
  /\ UNCHANGED <<producer, broker, tables, fails, faults>>

Expire(c) ==
  \E m \in BagToSet(retry[c]) :
    /\ retry' = Without(retry, c, m)
    /\ queue' = Routed(queue, m)
    /\ UNCHANGED <<producer, dlq, op, tables, fails, faults>>

Requeued(h) == queue' = [queue EXCEPT ![h[1]] = @ (+) SetToBag({op[h].m})]

(* The channel closes while the handler runs: its message is delivered     *)
(* again, and the handler goes on.                                         *)
Disconnect(h) ==
  /\ op[h] # Idle /\ op[h].held
  /\ Fault
  /\ Requeued(h)
  /\ op' = [op EXCEPT ![h].held = FALSE]
  /\ UNCHANGED <<producer, retry, dlq, tables, fails>>

Crash(h) ==
  /\ op[h] # Idle
  /\ Fault
  /\ IF op[h].held THEN Requeued(h) ELSE UNCHANGED queue
  /\ op' = [op EXCEPT ![h] = Idle]
  /\ UNCHANGED <<producer, retry, dlq, tables, fails>>
-----------------------------------------------------------------------------
Forward(r) == (\E e \in Event : ReadRow(r, e)) \/ Publish(r) \/ MarkPublished(r)

Work(h) ==
  \/ Take(h) \/ Check(h) \/ Commit(h) \/ Mail(h) \/ Effect(h) \/ Record(h)
  \/ Conflict(h) \/ Ack(h)

Next ==
  \/ \E e \in Event : Emit(e) \/ RetryDue(e)
  \/ \E r \in Relay : Forward(r) \/ Postpone(r) \/ RelayCrash(r)
  \/ \E h \in Handler : Work(h) \/ Fail(h) \/ Disconnect(h) \/ Crash(h)
  \/ \E c \in Consumer : Expire(c)

(* The relay polls, the broker delivers what is ready and expires what is  *)
(* due, a handler that is neither failed nor cut off goes on.              *)
Fairness ==
  /\ \A r \in Relay : WF_vars(Forward(r))
  /\ \A e \in Event : WF_vars(RetryDue(e))
  /\ \A h \in Handler : WF_vars(Work(h))
  /\ \A c \in Consumer : WF_vars(Expire(c))

Spec     == Init /\ [][Next]_vars
FairSpec == Spec /\ Fairness
-----------------------------------------------------------------------------
(* Every work queue, or every retry queue, is a bag of such messages. *)
Queues(q, S) ==
  /\ q = [c \in Consumer |-> q[c]]
  /\ \A c \in Consumer : IsABag(q[c]) /\ BagToSet(q[c]) \subseteq S

Busy ==
  [pc: {"check", "commit", "mail", "effect", "record", "ack"}, m: Message, held: BOOLEAN]

(* Every variable has its type; no message is retried MaxAttempts times.   *)
TypeOK ==
  /\ outbox \in [Event -> {"none", "due", "delayed", "published"}]
  /\ relay \in [Relay -> {Idle} \cup [pc: {"publish", "mark"}, e: Event]]
  /\ Queues(queue, Message)
  /\ Queues(retry, {m \in Message : m.attempts > 0})
  /\ op \in [Handler -> {Idle} \cup Busy]
  /\ done \in [Consumer -> SUBSET Event]
  /\ effects \in [Consumer -> [Event -> Nat]]
  /\ mails \in [Consumer -> [Event -> Nat]]
  /\ dlq \in [Consumer -> SUBSET Event]
  /\ fails \in [Event -> Nat]
  /\ faults \in 0 .. MaxFaults

Copies(q, e) == {m \in BagToSet(q) : m.event = e}

(* No published event is lost on its way to a consumer, wherever relay,    *)
(* connection and handlers fail: it is consumed, dead-lettered, or there   *)
(* is a copy that will still reach the consumer, one not about to be       *)
(* acknowledged.                                                           *)
Underway(c, e) ==
  \/ Copies(queue[c], e) # {}
  \/ \E d \in Consumers(e) : Copies(retry[d], e) # {}
  \/ \E h \in Handler :
       h[1] = c /\ op[h].pc \notin {"idle", "ack"} /\ op[h].held /\ op[h].m.event = e

NothingLost ==
  \A p \in Bound :
    outbox[p[2]] = "published" => p[2] \in done[p[1]] \cup dlq[p[1]] \/ Underway(p[1], p[2])

(* A consumer that records in the transaction of its effect has the effect *)
(* exactly once, however many copies of the event it is handed at a time,  *)
(* and the mails after the commit go out at most once.                     *)
ExactlyOnce ==
  \A c \in Consumer \ Split, e \in Event :
    /\ effects[c][e] = IF e \in done[c] THEN 1 ELSE 0
    /\ mails[c][e] <= effects[c][e]

(* The others may have it more than once, but never record an event whose  *)
(* effect they have not had.                                               *)
AtLeastOnce ==
  \A c \in Split : \A e \in done[c] : effects[c][e] >= 1

(* An event is dead-lettered only when handlers have thrown MaxAttempts    *)
(* times on it, though not necessarily those of the consumer whose         *)
(* dead-letter queue it ends in.                                           *)
DeadLetterEarned ==
  \A c \in Consumer : \A e \in dlq[c] : fails[e] >= MaxAttempts

(* Every committed event is in the end consumed or dead-lettered by every  *)
(* consumer bound to it.                                                   *)
Settles ==
  \A e \in Event :
    outbox[e] # "none" ~> \A c \in Consumers(e) : e \in done[c] \cup dlq[c]
=============================================================================
