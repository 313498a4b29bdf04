------------------------ MODULE EventDeliveryProofs ------------------------
(***************************************************************************)
(* Theorems about EventDelivery, for any number of events, relays,         *)
(* consumers, handlers and failures.                                       *)
(***************************************************************************)
EXTENDS EventDelivery, TLAPS

(* A message published to every queue bound to its event. *)
LEMMA RoutedQueues ==
  ASSUME NEW S, NEW q, Queues(q, S), NEW m \in S
  PROVE  /\ Queues(Routed(q, m), S)
         /\ \A c \in Consumer :
              /\ c \in Consumers(m.event) => BagToSet(Routed(q, m)[c]) = BagToSet(q[c]) \cup {m}
              /\ c \notin Consumers(m.event) => BagToSet(Routed(q, m)[c]) = BagToSet(q[c])
<1>1. ASSUME NEW c \in Consumer
      PROVE  /\ IsABag(q[c] (+) SetToBag({m}))
             /\ BagToSet(q[c] (+) SetToBag({m})) = BagToSet(q[c]) \cup {m}
  <2>1. IsABag(q[c])
    BY DEF Queues
  <2>2. \A x \in DOMAIN q[c] : q[c][x] \in Nat /\ q[c][x] > 0
    BY <2>1 DEF IsABag
  <2>. QED
    BY <2>2 DEF IsABag, BagToSet, SetToBag, (+)
<1>2. \A c \in Consumer :
        Routed(q, m)[c] = IF c \in Consumers(m.event) THEN q[c] (+) SetToBag({m}) ELSE q[c]
  BY DEF Routed
<1>3. \A c \in Consumer :
        /\ IsABag(Routed(q, m)[c])
        /\ c \in Consumers(m.event) => BagToSet(Routed(q, m)[c]) = BagToSet(q[c]) \cup {m}
        /\ c \notin Consumers(m.event) => BagToSet(Routed(q, m)[c]) = BagToSet(q[c])
  BY <1>1, <1>2 DEF Queues
<1>4. Routed(q, m) = [c \in Consumer |-> Routed(q, m)[c]]
  BY DEF Routed
<1>. QED
  BY <1>3, <1>4 DEF Queues

(* One copy of a message taken out of a queue. *)
LEMMA WithoutQueues ==
  ASSUME NEW S, NEW q, Queues(q, S), NEW c \in Consumer, NEW m \in BagToSet(q[c])
  PROVE  /\ Queues(Without(q, c, m), S)
         /\ \A d \in Consumer : BagToSet(Without(q, c, m)[d]) \subseteq BagToSet(q[d])
         /\ \A d \in Consumer : \A n \in BagToSet(q[d]) :
              n \in BagToSet(Without(q, c, m)[d]) \/ (d = c /\ n = m)
<1>1. /\ IsABag(q[c] (-) SetToBag({m}))
      /\ BagToSet(q[c] (-) SetToBag({m})) \subseteq BagToSet(q[c])
      /\ \A n \in BagToSet(q[c]) : n \in BagToSet(q[c] (-) SetToBag({m})) \/ n = m
  <2>1. \A x \in DOMAIN q[c] : q[c][x] \in Nat /\ q[c][x] > 0
    BY DEF Queues, IsABag
  <2>. QED
    BY <2>1 DEF IsABag, BagToSet, SetToBag, (-)
<1>2. \A d \in Consumer :
        Without(q, c, m)[d] = IF d = c THEN q[c] (-) SetToBag({m}) ELSE q[d]
  BY DEF Without, Queues
<1>3. Without(q, c, m) = [d \in Consumer |-> Without(q, c, m)[d]]
  BY DEF Without, Queues
<1>. QED
  BY <1>1, <1>2, <1>3 DEF Queues

(* A message put back at the head of a queue. *)
LEMMA RequeuedQueues ==
  ASSUME NEW S, NEW q, Queues(q, S), NEW c \in Consumer, NEW m \in S
  PROVE  LET r == [q EXCEPT ![c] = @ (+) SetToBag({m})] IN
         /\ Queues(r, S)
         /\ \A d \in Consumer :
              /\ d = c => BagToSet(r[d]) = BagToSet(q[d]) \cup {m}
              /\ d # c => BagToSet(r[d]) = BagToSet(q[d])
<1>. DEFINE r == [q EXCEPT ![c] = @ (+) SetToBag({m})]
<1>1. /\ IsABag(q[c] (+) SetToBag({m}))
      /\ BagToSet(q[c] (+) SetToBag({m})) = BagToSet(q[c]) \cup {m}
  <2>1. \A x \in DOMAIN q[c] : q[c][x] \in Nat /\ q[c][x] > 0
    BY DEF Queues, IsABag
  <2>. QED
    BY <2>1 DEF IsABag, BagToSet, SetToBag, (+)
<1>2. \A d \in Consumer : r[d] = IF d = c THEN q[c] (+) SetToBag({m}) ELSE q[d]
  BY DEF Queues
<1>3. r = [d \in Consumer |-> r[d]]
  BY DEF Queues
<1>. QED
  BY <1>1, <1>2, <1>3 DEF Queues
-----------------------------------------------------------------------------
(* A handler belongs to a consumer.                                        *)
LEMMA HandlerType == \A h \in Handler : h[1] \in Consumer
BY DEF Handler

(* What a handler that is not idle holds.                                  *)
LEMMA BusyOp ==
  ASSUME TypeOK, NEW h \in Handler, op[h].pc # "idle"
  PROVE  /\ op[h] \in Busy
         /\ op[h].m \in Message
         /\ op[h].held \in BOOLEAN
         /\ op[h] # Idle
<1>1. op[h] \in {Idle} \cup Busy
  BY DEF TypeOK
<1>2. op[h] # Idle
  BY DEF Idle
<1>3. op[h] \in Busy
  BY <1>1, <1>2
<1>4. PICK o \in Busy : o = op[h]
  BY <1>3
<1>5. o.m \in Message /\ o.held \in BOOLEAN
  BY DEF Busy
<1>. QED
  BY <1>2, <1>3, <1>4, <1>5

(* Only Idle is idle.                                                      *)
LEMMA NotIdle ==
  ASSUME TypeOK, NEW h \in Handler, op[h] # Idle
  PROVE  op[h].pc # "idle"
<1>1. op[h] \in Busy
  BY DEF TypeOK
<1>. QED
  BY <1>1 DEF Busy

(* Goto changes where its handler is and nothing else. *)
LEMMA GotoOp ==
  ASSUME TypeOK, NEW h \in Handler, op[h].pc # "idle",
         NEW pc \in {"check", "commit", "mail", "effect", "record", "ack"}, Goto(h, pc)
  PROVE  /\ op' \in [Handler -> {Idle} \cup Busy]
         /\ op'[h].pc = pc /\ op'[h].m = op[h].m /\ op'[h].held = op[h].held
         /\ op'[h] # Idle
         /\ \A g \in Handler : g # h => op'[g] = op[g]
<1>1. PICK o \in Busy : o = op[h]
  BY BusyOp
<1>2. op \in [Handler -> {Idle} \cup Busy]
  BY DEF TypeOK
<1>3. op' = [op EXCEPT ![h] = [o EXCEPT !.pc = pc]]
  BY <1>1, <1>2 DEF Goto
<1>4. /\ [o EXCEPT !.pc = pc] \in Busy
      /\ [o EXCEPT !.pc = pc].pc = pc
      /\ [o EXCEPT !.pc = pc].m = o.m
      /\ [o EXCEPT !.pc = pc].held = o.held
  BY DEF Busy
<1>5. [o EXCEPT !.pc = pc] # Idle
  BY <1>4 DEF Idle
<1>. QED
  BY <1>1, <1>2, <1>3, <1>4, <1>5

-----------------------------------------------------------------------------
(* The tables and queues are well typed at the start.                      *)
LEMMA TypeInit == Init => TypeOK
<1> SUFFICES ASSUME Init PROVE TypeOK
  OBVIOUS
<1>1. \A S : Queues([c \in Consumer |-> EmptyBag], S)
  BY DEF Queues, IsABag, BagToSet, EmptyBag, SetToBag
<1>2. /\ Queues(queue, Message)
      /\ Queues(retry, {m \in Message : m.attempts > 0})
  BY <1>1 DEF Init
<1>. QED
  BY <1>2, DeliveryConstants DEF Init, TypeOK

(* Emitting, and the relay of the outbox, keep the types.                  *)
LEMMA TypeProducer ==
  ASSUME TypeOK
  PROVE  /\ \A e \in Event : Emit(e) \/ RetryDue(e) => TypeOK'
         /\ \A r \in Relay : Forward(r) \/ Postpone(r) \/ RelayCrash(r) => TypeOK'
<1>. USE DEF producer, broker, tables
<1>1. ASSUME NEW e \in Event, Emit(e) \/ RetryDue(e)
      PROVE  TypeOK'
  BY <1>1 DEF Emit, RetryDue, TypeOK, Queues
<1>2. ASSUME NEW r \in Relay, NEW e \in Event, ReadRow(r, e)
      PROVE  TypeOK'
  BY <1>2 DEF ReadRow, TypeOK, Queues
<1>3. ASSUME NEW r \in Relay, Publish(r)
      PROVE  TypeOK'
  <2>1. PICK o \in [pc: {"publish", "mark"}, e: Event] : o = relay[r]
    BY <1>3 DEF Publish, TypeOK, Idle
  <2>2. o.e \in Event /\ [o EXCEPT !.pc = "mark"] \in [pc: {"publish", "mark"}, e: Event]
    OBVIOUS
  <2>3. relay' = [relay EXCEPT ![r] = [o EXCEPT !.pc = "mark"]]
    BY <1>3, <2>1 DEF Publish, TypeOK
  <2>4. [event |-> o.e, attempts |-> 0] \in Message
    BY <2>2, DeliveryConstants DEF Message
  <2>5. Queues(queue', Message)
    BY <1>3, <2>1, <2>4, RoutedQueues DEF Publish, TypeOK
  <2>6. relay' \in [Relay -> {Idle} \cup [pc: {"publish", "mark"}, e: Event]]
    BY <2>2, <2>3 DEF TypeOK
  <2>. QED
    BY <1>3, <2>5, <2>6 DEF Publish, TypeOK
<1>4. ASSUME NEW r \in Relay, MarkPublished(r)
      PROVE  TypeOK'
  BY <1>4 DEF MarkPublished, TypeOK, Queues
<1>5. ASSUME NEW r \in Relay, Postpone(r)
      PROVE  TypeOK'
  BY <1>5, DeliveryConstants DEF Postpone, Fault, TypeOK, Queues
<1>6. ASSUME NEW r \in Relay, RelayCrash(r)
      PROVE  TypeOK'
  BY <1>6, DeliveryConstants DEF RelayCrash, Fault, TypeOK, Queues
<1>. QED
  BY <1>1, <1>2, <1>3, <1>4, <1>5, <1>6 DEF Forward

(* The handlers of consumers keep the types.                               *)
LEMMA TypeHandler ==
  ASSUME TypeOK, NEW h \in Handler
  PROVE  Work(h) \/ Fail(h) \/ Disconnect(h) \/ Crash(h) => TypeOK'
<1>. USE HandlerType DEF producer, broker, tables
<1>1. ASSUME Take(h)
      PROVE  TypeOK'
  <2>1. PICK m \in BagToSet(queue[h[1]]) :
          /\ queue' = Without(queue, h[1], m)
          /\ op' = [op EXCEPT ![h] = [pc |-> "check", m |-> m, held |-> TRUE]]
          /\ UNCHANGED <<producer, retry, dlq, tables, fails, faults>>
    BY <1>1 DEF Take
  <2>2. Queues(queue', Message)
    BY <2>1, WithoutQueues DEF TypeOK
  <2>3. m \in Message
    BY DEF TypeOK, Queues
  <2>4. [pc |-> "check", m |-> m, held |-> TRUE] \in Busy
    BY <2>3 DEF Busy
  <2>. QED
    BY <2>1, <2>2, <2>4 DEF TypeOK
<1>2. ASSUME Check(h)
      PROVE  TypeOK'
  <2>1. PICK pc \in {"ack", "effect", "commit"} : Goto(h, pc)
    BY <1>2 DEF Check
  <2>2. op' \in [Handler -> {Idle} \cup Busy]
    BY <1>2, <2>1, GotoOp DEF Check
  <2>. QED
    BY <1>2, <2>2 DEF Check, TypeOK
<1>3. ASSUME NEW f \in [Consumer -> [Event -> Nat]], op[h].pc # "idle"
      PROVE  Counted(f, h) \in [Consumer -> [Event -> Nat]]
  BY <1>3, BusyOp DEF Counted, Message
<1>4. ASSUME op[h].pc # "idle", Recorded(h)
      PROVE  done' \in [Consumer -> SUBSET Event]
  BY <1>4, BusyOp DEF Recorded, TypeOK, Message
<1>5. ASSUME Commit(h)
      PROVE  TypeOK'
  <2>1. op' \in [Handler -> {Idle} \cup Busy]
    BY <1>5, GotoOp DEF Commit
  <2>2. done' \in [Consumer -> SUBSET Event]
    BY <1>4, <1>5 DEF Commit
  <2>3. effects' \in [Consumer -> [Event -> Nat]]
    BY <1>3, <1>5 DEF Commit, TypeOK
  <2>. QED
    BY <1>5, <2>1, <2>2, <2>3 DEF Commit, TypeOK
<1>6. ASSUME Mail(h)
      PROVE  TypeOK'
  <2>1. op' \in [Handler -> {Idle} \cup Busy]
    BY <1>6, GotoOp DEF Mail
  <2>2. mails' \in [Consumer -> [Event -> Nat]]
    BY <1>3, <1>6 DEF Mail, TypeOK
  <2>. QED
    BY <1>6, <2>1, <2>2 DEF Mail, TypeOK
<1>7. ASSUME Effect(h)
      PROVE  TypeOK'
  <2>1. op' \in [Handler -> {Idle} \cup Busy]
    BY <1>7, GotoOp DEF Effect
  <2>2. effects' \in [Consumer -> [Event -> Nat]]
    BY <1>3, <1>7 DEF Effect, TypeOK
  <2>. QED
    BY <1>7, <2>1, <2>2 DEF Effect, TypeOK
<1>8. ASSUME Record(h)
      PROVE  TypeOK'
  <2>1. op' \in [Handler -> {Idle} \cup Busy]
    BY <1>8, GotoOp DEF Record
  <2>2. done' \in [Consumer -> SUBSET Event]
    BY <1>4, <1>8 DEF Record
  <2>. QED
    BY <1>8, <2>1, <2>2 DEF Record, TypeOK
<1>9. ASSUME op[h].pc # "idle", Throw(h), faults' \in 0 .. MaxFaults
      PROVE  TypeOK'
  <2>1. op' \in [Handler -> {Idle} \cup Busy]
    BY <1>9, GotoOp DEF Throw
  <2>2. PICK m \in Message : m = op[h].m
    BY <1>9, BusyOp
  <2>3. m.event \in Event /\ m.attempts \in 0 .. MaxAttempts - 1
    BY DEF Message
  <2>4. fails' \in [Event -> Nat]
    BY <1>9, <2>2, <2>3 DEF Throw, TypeOK
  <2>5. dlq' \in [Consumer -> SUBSET Event]
    <3>1. dlq' = dlq \/ dlq' = [dlq EXCEPT ![h[1]] = @ \cup {m.event}]
      BY <1>9, <2>2 DEF Throw
    <3>2. dlq \in [Consumer -> SUBSET Event]
      BY DEF TypeOK
    <3>. QED
      BY <2>3, <3>1, <3>2
  <2>6. Queues(retry', {n \in Message : n.attempts > 0})
    <3>1. CASE retry' = retry
      BY <3>1 DEF TypeOK
    <3>2. CASE retry' # retry
      <4>1. /\ retry' = Routed(retry, [m EXCEPT !.attempts = Attempt(m)])
            /\ ~ (Attempt(m) >= MaxAttempts)
        BY <1>9, <2>2, <3>2 DEF Throw
      <4>2. [m EXCEPT !.attempts = Attempt(m)] \in {n \in Message : n.attempts > 0}
        <5>1. Attempt(m) \in 1 .. MaxAttempts - 1
          BY <2>3, <4>1, DeliveryConstants DEF Attempt
        <5>2. m = [event |-> m.event, attempts |-> m.attempts]
          BY DEF Message
        <5>3. [m EXCEPT !.attempts = Attempt(m)] = [event |-> m.event, attempts |-> Attempt(m)]
          BY <5>2
        <5>. QED
          BY <2>3, <5>1, <5>3, DeliveryConstants DEF Message
      <4>. QED
        BY <4>1, <4>2, RoutedQueues DEF TypeOK
    <3>. QED
      BY <3>1, <3>2
  <2>. QED
    BY <1>9, <2>1, <2>4, <2>5, <2>6 DEF Throw, TypeOK
<1>10. ASSUME Conflict(h) \/ Fail(h)
       PROVE  TypeOK'
  <2>1. op[h].pc # "idle" /\ Throw(h) /\ faults' \in 0 .. MaxFaults
    BY <1>10, DeliveryConstants DEF Conflict, Fail, Fault, TypeOK
  <2>. QED
    BY <1>9, <2>1
<1>11. ASSUME Ack(h)
       PROVE  TypeOK'
  BY <1>11 DEF Ack, TypeOK
<1>12. ASSUME op[h] # Idle, Requeued(h)
       PROVE  Queues(queue', Message)
  BY <1>12, NotIdle, BusyOp, RequeuedQueues DEF Requeued, TypeOK
<1>13. ASSUME Disconnect(h)
       PROVE  TypeOK'
  <2>1. PICK o \in Busy : o = op[h]
    BY <1>13, NotIdle, BusyOp DEF Disconnect
  <2>2. [o EXCEPT !.held = FALSE] \in Busy
    BY DEF Busy
  <2>3. op' = [op EXCEPT ![h] = [o EXCEPT !.held = FALSE]]
    BY <1>13, <2>1 DEF Disconnect, TypeOK
  <2>4. op' \in [Handler -> {Idle} \cup Busy]
    BY <2>2, <2>3 DEF TypeOK
  <2>5. Queues(queue', Message)
    BY <1>12, <1>13 DEF Disconnect
  <2>. QED
    BY <1>13, <2>4, <2>5, DeliveryConstants DEF Disconnect, Fault, TypeOK
<1>14. ASSUME Crash(h)
       PROVE  TypeOK'
  <2>1. Queues(queue', Message)
    BY <1>12, <1>14 DEF Crash, TypeOK
  <2>. QED
    BY <1>14, <2>1, DeliveryConstants DEF Crash, Fault, TypeOK
<1>. QED
  BY <1>1, <1>2, <1>5, <1>6, <1>7, <1>8, <1>10, <1>11, <1>13, <1>14 DEF Work

(* A copy that leaves the retry queue keeps the types.                     *)
LEMMA TypeExpire ==
  ASSUME TypeOK, NEW c \in Consumer, Expire(c)
  PROVE  TypeOK'
<1>1. PICK m \in BagToSet(retry[c]) :
        /\ retry' = Without(retry, c, m)
        /\ queue' = Routed(queue, m)
        /\ UNCHANGED <<producer, dlq, op, tables, fails, faults>>
  BY DEF Expire
<1>2. m \in Message
  BY DEF TypeOK, Queues
<1>3. Queues(queue', Message)
  BY <1>1, <1>2, RoutedQueues DEF TypeOK
<1>4. Queues(retry', {n \in Message : n.attempts > 0})
  BY <1>1, WithoutQueues DEF TypeOK
<1>. QED
  BY <1>1, <1>3, <1>4 DEF TypeOK, producer, tables

(* Every step keeps the types.                                             *)
LEMMA TypeStep == TypeOK /\ [Next]_vars => TypeOK'
<1> SUFFICES ASSUME TypeOK, [Next]_vars PROVE TypeOK'
  OBVIOUS
<1>1. CASE Next
  BY <1>1, TypeProducer, TypeHandler, TypeExpire DEF Next
<1>2. CASE UNCHANGED vars
  BY <1>2 DEF vars, TypeOK, Queues
<1>. QED
  BY <1>1, <1>2

(* Every variable of the delivery keeps its type; in particular no message *)
(* is ever retried MaxAttempts times, however often handlers are cut off.  *)
THEOREM TypeCorrect == Spec => []TypeOK
BY TypeInit, TypeStep, PTL DEF Spec

-----------------------------------------------------------------------------
(* Every copy of a message is with a consumer bound to its event, and was  *)
(* retried no more often than handlers have thrown on the event.           *)
Arrives(c, m) == <<c, m.event>> \in Bound /\ m.attempts <= fails[m.event]

CopiesSound ==
  /\ \A c \in Consumer : \A m \in BagToSet(queue[c]) \cup BagToSet(retry[c]) : Arrives(c, m)
  /\ \A h \in Handler : op[h] # Idle => Arrives(h[1], op[h].m)

(* No copy exists at the start.                                            *)
LEMMA CopiesInit == Init => CopiesSound
BY DEF Init, CopiesSound, BagToSet, EmptyBag, SetToBag

(* RoutedQueues for the two kinds of queues there are. *)
LEMMA PublishedCopies ==
  ASSUME TypeOK
  PROVE  \A n \in Message : \A c \in Consumer :
           /\ c \in Consumers(n.event) =>
                BagToSet(Routed(queue, n)[c]) = BagToSet(queue[c]) \cup {n}
           /\ c \notin Consumers(n.event) => BagToSet(Routed(queue, n)[c]) = BagToSet(queue[c])
<1>1. Queues(queue, Message)
  BY DEF TypeOK
<1>. QED
  BY <1>1, RoutedQueues

(* A retried copy goes to the retry queue of every bound consumer.         *)
LEMMA RetriedCopies ==
  ASSUME TypeOK
  PROVE  \A n \in Message : \A c \in Consumer :
           /\ c \in Consumers(n.event) =>
                BagToSet(Routed(retry, n)[c]) = BagToSet(retry[c]) \cup {n}
           /\ c \notin Consumers(n.event) => BagToSet(Routed(retry, n)[c]) = BagToSet(retry[c])
<1>1. Queues(retry, Message)
  BY DEF TypeOK, Queues
<1>. QED
  BY <1>1, RoutedQueues

(* The producer makes no copy with an attempt nobody made.                 *)
LEMMA CopiesProducer ==
  ASSUME TypeOK, CopiesSound
  PROVE  /\ \A e \in Event : Emit(e) \/ RetryDue(e) => CopiesSound'
         /\ \A r \in Relay : Forward(r) \/ Postpone(r) \/ RelayCrash(r) => CopiesSound'
<1>1. ASSUME UNCHANGED <<queue, retry, op, fails>>
      PROVE  CopiesSound'
  BY <1>1 DEF CopiesSound, Arrives
<1>2. ASSUME NEW r \in Relay, Publish(r)
      PROVE  CopiesSound'
  <2>1. PICK o \in [pc: {"publish", "mark"}, e: Event] : o = relay[r]
    BY <1>2 DEF Publish, TypeOK, Idle
  <2>2. PICK m \in Message : m = [event |-> o.e, attempts |-> 0]
    <3>1. o.e \in Event /\ 0 \in 0 .. MaxAttempts - 1
      BY DeliveryConstants
    <3>. QED
      BY <3>1 DEF Message
  <2>3. \A c \in Consumer :
          /\ c \in Consumers(m.event) => BagToSet(queue'[c]) = BagToSet(queue[c]) \cup {m}
          /\ c \notin Consumers(m.event) => BagToSet(queue'[c]) = BagToSet(queue[c])
    <3>1. Queues(queue, Message) /\ queue' = Routed(queue, m)
      BY <1>2, <2>1, <2>2 DEF Publish, TypeOK
    <3>. QED
      BY <3>1, PublishedCopies
  <2>4. \A c \in Consumers(m.event) : <<c, m.event>> \in Bound /\ m.attempts <= fails[m.event]
    BY <2>1, <2>2 DEF Consumers, TypeOK
  <2>. QED
    BY <1>2, <2>3, <2>4 DEF Publish, CopiesSound, Arrives
<1>. QED
  BY <1>1, <1>2
  DEF Emit, RetryDue, Forward, ReadRow, MarkPublished, Postpone, RelayCrash, broker, Fault

(* Handlers raise the attempt of a copy by the failure they had.           *)
LEMMA CopiesHandler ==
  ASSUME TypeOK, CopiesSound, NEW h \in Handler
  PROVE  Work(h) \/ Fail(h) \/ Disconnect(h) \/ Crash(h) => CopiesSound'
<1>. USE HandlerType DEF broker
<1>1. ASSUME Take(h)
      PROVE  CopiesSound'
  <2>1. PICK m \in BagToSet(queue[h[1]]) :
          /\ queue' = Without(queue, h[1], m)
          /\ op' = [op EXCEPT ![h] = [pc |-> "check", m |-> m, held |-> TRUE]]
          /\ UNCHANGED <<producer, retry, dlq, tables, fails, faults>>
    BY <1>1 DEF Take
  <2>2. \A c \in Consumer : BagToSet(queue'[c]) \subseteq BagToSet(queue[c])
    <3>1. Queues(queue, Message)
      BY DEF TypeOK
    <3>. QED
      BY <2>1, <3>1, WithoutQueues
  <2>3. Arrives(h[1], m)
    BY DEF CopiesSound
  <2>4. op'[h].m = m /\ \A g \in Handler : g # h => op'[g] = op[g]
    BY <2>1 DEF TypeOK
  <2>. QED
    BY <2>1, <2>2, <2>3, <2>4 DEF CopiesSound, Arrives
<1>2. ASSUME op[h].pc # "idle",
             NEW pc \in {"check", "commit", "mail", "effect", "record", "ack"}, Goto(h, pc),
             UNCHANGED <<queue, retry, fails>>
      PROVE  CopiesSound'
  <2>1. /\ op'[h].m = op[h].m /\ op[h] # Idle
        /\ \A g \in Handler : g # h => op'[g] = op[g]
    BY <1>2, GotoOp, BusyOp
  <2>. QED
    BY <1>2, <2>1 DEF CopiesSound, Arrives
<1>3. ASSUME Check(h)
      PROVE  CopiesSound'
  <2>1. PICK pc \in {"ack", "effect", "commit"} : Goto(h, pc)
    BY <1>3 DEF Check
  <2>. QED
    BY <1>2, <1>3, <2>1 DEF Check
<1>4. ASSUME Commit(h) \/ Mail(h) \/ Effect(h) \/ Record(h)
      PROVE  CopiesSound'
  BY <1>2, <1>4 DEF Commit, Mail, Effect, Record
<1>5. ASSUME op[h].pc # "idle", Throw(h)
      PROVE  CopiesSound'
  <2>1. PICK m \in Message : m = op[h].m
    BY <1>5, BusyOp
  <2>2. m.event \in Event /\ m.attempts \in 0 .. MaxAttempts - 1
    BY DEF Message
  <2>3. Arrives(h[1], m) /\ op[h] # Idle
    BY <1>5, <2>1, BusyOp DEF CopiesSound
  <2>4. \A e \in Event : fails[e] \in Nat /\ fails'[e] = IF e = m.event THEN fails[e] + 1 ELSE fails[e]
    BY <1>5, <2>1, <2>2 DEF Throw, TypeOK
  <2>5. ASSUME NEW c \in Consumer, NEW n \in BagToSet(queue[c]) \cup BagToSet(retry[c])
        PROVE  Arrives(c, n)'
    <3>1. n \in Message /\ n.event \in Event /\ n.attempts \in 0 .. MaxAttempts - 1
      BY DEF TypeOK, Queues, Message
    <3>2. Arrives(c, n)
      BY DEF CopiesSound
    <3>. QED
      BY <2>4, <3>1, <3>2, DeliveryConstants DEF Arrives
  <2>6. \A c \in Consumer : \A n \in BagToSet(retry'[c]) : Arrives(c, n)'
    <3>1. CASE retry' = retry
      BY <2>5, <3>1
    <3>2. CASE retry' # retry
      <4>1. /\ retry' = Routed(retry, [m EXCEPT !.attempts = Attempt(m)])
            /\ ~ (Attempt(m) >= MaxAttempts)
        BY <1>5, <2>1, <3>2 DEF Throw
      <4>2. m = [event |-> m.event, attempts |-> m.attempts]
        BY DEF Message
      <4>3. PICK n \in Message :
              n = [event |-> m.event, attempts |-> m.attempts + 1]
        BY <2>2, <4>1, DeliveryConstants DEF Attempt, Message
      <4>4. n = [m EXCEPT !.attempts = Attempt(m)]
        BY <4>2, <4>3 DEF Attempt
      <4>5. \A c \in Consumer :
              /\ c \in Consumers(n.event) => BagToSet(retry'[c]) = BagToSet(retry[c]) \cup {n}
              /\ c \notin Consumers(n.event) => BagToSet(retry'[c]) = BagToSet(retry[c])
        <5>1. retry' = Routed(retry, n)
          BY <4>1, <4>4
        <5>. QED
          BY <5>1, RetriedCopies
      <4>6. \A c \in Consumers(n.event) : Arrives(c, n)'
        BY <2>2, <2>3, <2>4, <4>3 DEF Arrives, Consumers
      <4>. QED
        BY <2>5, <4>5, <4>6
    <3>. QED
      BY <3>1, <3>2
  <2>7. ASSUME NEW g \in Handler, op'[g] # Idle, NEW n \in Message, n = op'[g].m
        PROVE  Arrives(g[1], n)'
    <3>1. op'[g].m = op[g].m /\ op[g] # Idle
      BY <1>5, <2>3, <2>7, GotoOp DEF Throw
    <3>2. n.event \in Event /\ n.attempts \in 0 .. MaxAttempts - 1
      BY DEF Message
    <3>3. Arrives(g[1], n)
      BY <2>7, <3>1 DEF CopiesSound
    <3>. QED
      BY <2>4, <3>2, <3>3, DeliveryConstants DEF Arrives
  <2>8. queue' = queue
    BY <1>5 DEF Throw
  <2>9. \A c \in Consumer : \A n \in BagToSet(queue'[c]) : Arrives(c, n)'
    BY <2>5, <2>8
  <2>10. ASSUME NEW g \in Handler, op'[g] # Idle
         PROVE  op'[g].m \in Message
    <3>1. op'[g].m = op[g].m /\ op[g] # Idle
      BY <1>5, <2>3, <2>10, GotoOp DEF Throw
    <3>. QED
      BY <3>1, NotIdle, BusyOp
  <2>11. \A g \in Handler : op'[g] # Idle =>
           <<g[1], op'[g].m.event>> \in Bound /\ op'[g].m.attempts <= fails'[op'[g].m.event]
    BY <2>7, <2>10 DEF Arrives
  <2>. QED
    BY <2>6, <2>9, <2>11 DEF CopiesSound, Arrives
<1>6. ASSUME Conflict(h) \/ Fail(h)
      PROVE  CopiesSound'
  BY <1>5, <1>6 DEF Conflict, Fail
<1>7. ASSUME Ack(h)
      PROVE  CopiesSound'
  BY <1>7 DEF Ack, CopiesSound, Arrives, TypeOK
<1>8. ASSUME op[h] # Idle, Requeued(h)
      PROVE  \A c \in Consumer : \A m \in BagToSet(queue'[c]) : Arrives(c, m)
  <2>1. PICK m \in Message : m = op[h].m
    BY <1>8, NotIdle, BusyOp
  <2>2. h[1] \in Consumer /\ queue' = [queue EXCEPT ![h[1]] = @ (+) SetToBag({m})]
    BY <1>8, <2>1 DEF Requeued
  <2>3. Queues(queue, Message)
    BY DEF TypeOK
  <2>4. \A c \in Consumer :
          /\ c = h[1] => BagToSet(queue'[c]) = BagToSet(queue[c]) \cup {m}
          /\ c # h[1] => BagToSet(queue'[c]) = BagToSet(queue[c])
    BY <2>2, <2>3, RequeuedQueues
  <2>. QED
    BY <1>8, <2>1, <2>4 DEF CopiesSound
<1>9. ASSUME Disconnect(h)
      PROVE  CopiesSound'
  <2>1. PICK o \in Busy : o = op[h]
    BY <1>9, NotIdle, BusyOp DEF Disconnect
  <2>2. op'[h] = [o EXCEPT !.held = FALSE] /\ \A g \in Handler : g # h => op'[g] = op[g]
    BY <1>9, <2>1 DEF Disconnect, TypeOK
  <2>3. op'[h].m = op[h].m
    BY <2>1, <2>2 DEF Busy
  <2>4. \A c \in Consumer : \A m \in BagToSet(queue'[c]) : Arrives(c, m)
    BY <1>8, <1>9 DEF Disconnect
  <2>. QED
    BY <1>9, <2>2, <2>3, <2>4 DEF Disconnect, CopiesSound, Arrives
<1>10. ASSUME Crash(h)
       PROVE  CopiesSound'
  <2>1. op'[h] = Idle /\ \A g \in Handler : g # h => op'[g] = op[g]
    BY <1>10 DEF Crash, TypeOK
  <2>2. \A c \in Consumer : \A m \in BagToSet(queue'[c]) : Arrives(c, m)
    BY <1>8, <1>10 DEF Crash, CopiesSound
  <2>. QED
    BY <1>10, <2>1, <2>2 DEF Crash, CopiesSound, Arrives
<1>. QED
  BY <1>1, <1>3, <1>4, <1>6, <1>7, <1>9, <1>10 DEF Work

(* A copy keeps its attempt on the way back from the retry queue.          *)
LEMMA CopiesExpire ==
  ASSUME TypeOK, CopiesSound, NEW c \in Consumer, Expire(c)
  PROVE  CopiesSound'
<1>1. PICK m \in BagToSet(retry[c]) :
        /\ retry' = Without(retry, c, m)
        /\ queue' = Routed(queue, m)
        /\ UNCHANGED <<producer, dlq, op, tables, fails, faults>>
  BY DEF Expire
<1>2. m \in Message
  BY DEF TypeOK, Queues
<1>3. \A d \in Consumer : BagToSet(retry'[d]) \subseteq BagToSet(retry[d])
  <2>1. Queues(retry, {x \in Message : x.attempts > 0})
    BY DEF TypeOK
  <2>. QED
    BY <1>1, <2>1, WithoutQueues
<1>4. \A d \in Consumer :
        /\ d \in Consumers(m.event) => BagToSet(queue'[d]) = BagToSet(queue[d]) \cup {m}
        /\ d \notin Consumers(m.event) => BagToSet(queue'[d]) = BagToSet(queue[d])
  BY <1>1, <1>2, PublishedCopies
<1>5. \A d \in Consumers(m.event) : Arrives(d, m)
  BY DEF CopiesSound, Arrives, Consumers
<1>. QED
  BY <1>1, <1>3, <1>4, <1>5 DEF CopiesSound, Arrives

(* The attempts of all copies are backed by failures, in every step.       *)
LEMMA CopiesStep == TypeOK /\ CopiesSound /\ [Next]_vars => CopiesSound'
<1> SUFFICES ASSUME TypeOK, CopiesSound, [Next]_vars PROVE CopiesSound'
  OBVIOUS
<1>1. CASE Next
  BY <1>1, CopiesProducer, CopiesHandler, CopiesExpire DEF Next
<1>2. CASE UNCHANGED vars
  BY <1>2 DEF vars, CopiesSound, Arrives
<1>. QED
  BY <1>1, <1>2

-----------------------------------------------------------------------------
(* What is dead-lettered has failed often enough.                          *)
LEMMA DeadLetterStep ==
  TypeOK /\ CopiesSound /\ DeadLetterEarned /\ [Next]_vars => DeadLetterEarned'
<1> SUFFICES ASSUME TypeOK, CopiesSound, DeadLetterEarned, [Next]_vars
             PROVE  DeadLetterEarned'
  OBVIOUS
<1>1. ASSUME UNCHANGED <<dlq, fails>>
      PROVE  DeadLetterEarned'
  BY <1>1 DEF DeadLetterEarned
<1>2. ASSUME NEW h \in Handler, op[h].pc # "idle", Throw(h)
      PROVE  DeadLetterEarned'
  <2>1. PICK m \in Message : m = op[h].m
    BY <1>2, BusyOp
  <2>2. m.event \in Event /\ m.attempts \in 0 .. MaxAttempts - 1
    BY DEF Message
  <2>3. m.attempts <= fails[m.event]
    BY <1>2, <2>1, BusyOp DEF CopiesSound, Arrives
  <2>4. \A e \in Event : fails[e] \in Nat /\ fails'[e] = IF e = m.event THEN fails[e] + 1 ELSE fails[e]
    BY <1>2, <2>1, <2>2 DEF Throw, TypeOK
  <2>5. \A c \in Consumer : \A e \in dlq[c] : e \in Event /\ fails[e] >= MaxAttempts
    BY DEF DeadLetterEarned, TypeOK
  <2>6. \A c \in Consumer : \A e \in dlq[c] : fails'[e] >= MaxAttempts
    BY <2>4, <2>5, DeliveryConstants
  <2>7. CASE dlq' = dlq
    BY <2>6, <2>7 DEF DeadLetterEarned
  <2>8. CASE dlq' # dlq
    <3>1. m.attempts + 1 >= MaxAttempts /\ dlq' = [dlq EXCEPT ![h[1]] = @ \cup {m.event}]
      BY <1>2, <2>1, <2>8 DEF Throw, Attempt
    <3>2. fails'[m.event] >= MaxAttempts
      BY <2>2, <2>3, <2>4, <3>1, DeliveryConstants
    <3>3. \A c \in Consumer : dlq'[c] \subseteq dlq[c] \cup {m.event}
      BY <3>1 DEF TypeOK
    <3>. QED
      BY <2>6, <3>2, <3>3 DEF DeadLetterEarned
  <2>. QED
    BY <2>7, <2>8
<1>3. ASSUME NEW h \in Handler, Conflict(h) \/ Fail(h)
      PROVE  DeadLetterEarned'
  BY <1>2, <1>3 DEF Conflict, Fail
<1>4. ASSUME NEW h \in Handler,
             Take(h) \/ Check(h) \/ Commit(h) \/ Mail(h) \/ Effect(h) \/ Record(h) \/ Ack(h)
             \/ Disconnect(h) \/ Crash(h)
      PROVE  DeadLetterEarned'
  BY <1>1, <1>4
  DEF Take, Check, Commit, Mail, Effect, Record, Ack, Disconnect, Crash, broker
<1>5. ASSUME NEW e \in Event, Emit(e) \/ RetryDue(e)
      PROVE  DeadLetterEarned'
  BY <1>1, <1>5 DEF Emit, RetryDue, broker
<1>6. ASSUME NEW r \in Relay, Forward(r) \/ Postpone(r) \/ RelayCrash(r)
      PROVE  DeadLetterEarned'
  BY <1>1, <1>6 DEF Forward, ReadRow, Publish, MarkPublished, Postpone, RelayCrash, broker
<1>7. ASSUME NEW c \in Consumer, Expire(c)
      PROVE  DeadLetterEarned'
  BY <1>1, <1>7 DEF Expire
<1>8. CASE UNCHANGED vars
  BY <1>1, <1>8 DEF vars
<1>. QED
  BY <1>3, <1>4, <1>5, <1>6, <1>7, <1>8 DEF Next, Work

(* However a message is copied and redelivered, an event reaches a         *)
(* dead-letter queue only after MaxAttempts failures of its handlers.      *)
THEOREM DeadLettersAreEarned == Spec => []DeadLetterEarned
<1>1. Init => DeadLetterEarned
  BY DEF Init, DeadLetterEarned
<1>. QED
  BY <1>1, TypeInit, TypeStep, CopiesInit, CopiesStep, DeadLetterStep, PTL DEF Spec

-----------------------------------------------------------------------------
(* What a handler has done by the step it is at.  No two of a consumer are *)
(* about to send the mails for the same event.                             *)
Stages ==
  \A h \in Handler :
    /\ op[h].pc \in {"commit", "mail"} => h[1] \notin Split
    /\ op[h].pc \in {"effect", "record"} => h[1] \in Split
    /\ op[h].pc = "record" => effects[h[1]][op[h].m.event] >= 1
    /\ op[h].pc = "mail" =>
         /\ op[h].m.event \in done[h[1]]
         /\ mails[h[1]][op[h].m.event] = 0
         /\ \A g \in Handler \ {h} :
              op[g].pc = "mail" /\ g[1] = h[1] => op[g].m.event # op[h].m.event

Once == Stages /\ ExactlyOnce /\ AtLeastOnce

(* Nothing is recorded as consumed at the start.                           *)
LEMMA OnceInit == Init => Once
<1> SUFFICES ASSUME Init PROVE Once
  OBVIOUS
<1>1. \A h \in Handler : op[h].pc = "idle"
  BY DEF Init, Idle
<1>2. Stages
  BY <1>1 DEF Stages
<1>3. ExactlyOnce
  BY DEF Init, ExactlyOnce
<1>4. AtLeastOnce
  BY DeliveryConstants DEF Init, AtLeastOnce
<1>. QED
  BY <1>2, <1>3, <1>4 DEF Once

(* Handlers that move without touching a table. *)
LEMMA OnceQuiet ==
  ASSUME Once, UNCHANGED tables,
         \A h \in Handler :
           \/ op'[h].pc \in {"idle", "check", "ack"}
           \/ op'[h].pc = op[h].pc /\ op'[h].m = op[h].m
           \/ op'[h].pc = "effect" /\ h[1] \in Split
           \/ op'[h].pc = "commit" /\ h[1] \notin Split
  PROVE  Once'
<1>1. ExactlyOnce' /\ AtLeastOnce'
  BY DEF Once, ExactlyOnce, AtLeastOnce, tables
<1>2. \A h \in Handler : op'[h].pc \in {"mail", "record"} => op'[h].pc = op[h].pc /\ op'[h].m = op[h].m
  OBVIOUS
<1>3. Stages'
  BY <1>2 DEF Once, Stages, tables
<1>. QED
  BY <1>1, <1>3 DEF Once

(* A handler has its effect when it records the event, and only then.      *)
LEMMA OnceHandler ==
  ASSUME TypeOK, Once, NEW h \in Handler
  PROVE  Work(h) \/ Fail(h) \/ Disconnect(h) \/ Crash(h) => Once'
<1>. USE HandlerType
<1>0. /\ effects \in [Consumer -> [Event -> Nat]]
      /\ mails \in [Consumer -> [Event -> Nat]]
      /\ done \in [Consumer -> SUBSET Event]
  BY DEF TypeOK
<1>1. ASSUME Take(h)
      PROVE  Once'
  <2>1. /\ op'[h].pc = "check"
        /\ \A g \in Handler \ {h} : op'[g] = op[g]
    BY <1>1 DEF Take, TypeOK
  <2>. QED
    BY <1>1, <2>1, OnceQuiet DEF Take
<1>2. ASSUME Check(h)
      PROVE  Once'
  <2>1. PICK pc \in {"ack", "effect", "commit"} :
          /\ Goto(h, pc)
          /\ pc = "effect" => h[1] \in Split
          /\ pc = "commit" => h[1] \notin Split
    BY <1>2 DEF Check
  <2>2. op'[h].pc = pc /\ \A g \in Handler \ {h} : op'[g] = op[g]
    BY <1>2, <2>1, GotoOp DEF Check
  <2>. QED
    BY <1>2, <2>1, <2>2, OnceQuiet DEF Check
<1>3. ASSUME op[h].pc # "idle", Throw(h)
      PROVE  Once'
  <2>1. op'[h].pc = "ack" /\ \A g \in Handler \ {h} : op'[g] = op[g]
    BY <1>3, GotoOp DEF Throw
  <2>. QED
    BY <1>3, <2>1, OnceQuiet DEF Throw
<1>4. ASSUME Conflict(h) \/ Fail(h)
      PROVE  Once'
  BY <1>3, <1>4 DEF Conflict, Fail
<1>5. ASSUME Ack(h) \/ Crash(h)
      PROVE  Once'
  <2>1. op'[h].pc = "idle" /\ \A g \in Handler \ {h} : op'[g] = op[g]
    BY <1>5 DEF Ack, Crash, TypeOK, Idle
  <2>. QED
    BY <1>5, <2>1, OnceQuiet DEF Ack, Crash
<1>6. ASSUME Disconnect(h)
      PROVE  Once'
  <2>1. PICK o \in Busy : o = op[h]
    BY <1>6, NotIdle, BusyOp DEF Disconnect
  <2>2. op'[h] = [o EXCEPT !.held = FALSE] /\ \A g \in Handler \ {h} : op'[g] = op[g]
    BY <1>6, <2>1 DEF Disconnect, TypeOK
  <2>3. op'[h].pc = op[h].pc /\ op'[h].m = op[h].m
    BY <2>1, <2>2 DEF Busy
  <2>. QED
    BY <1>6, <2>2, <2>3, OnceQuiet DEF Disconnect
<1>7. ASSUME Commit(h)
      PROVE  Once'
  <2>1. PICK e \in Event : e = op[h].m.event
    BY <1>7, BusyOp DEF Commit, Message
  <2>2. /\ op'[h].pc = "mail" /\ op'[h].m = op[h].m
        /\ \A g \in Handler \ {h} : op'[g] = op[g]
    BY <1>7, GotoOp DEF Commit
  <2>3. /\ e \notin done[h[1]]
        /\ done' = [done EXCEPT ![h[1]] = @ \cup {e}]
        /\ effects' = [effects EXCEPT ![h[1]][e] = @ + 1]
        /\ mails' = mails
    BY <1>7, <2>1 DEF Commit, Known, Recorded, Counted
  <2>4. h[1] \notin Split
    BY <1>7 DEF Commit, Once, Stages
  <2>5. effects[h[1]][e] = 0 /\ mails[h[1]][e] = 0
    BY <1>0, <2>1, <2>3, <2>4 DEF Once, ExactlyOnce
  <2>6. ExactlyOnce'
    BY <1>0, <2>3, <2>4, <2>5 DEF Once, ExactlyOnce
  <2>7. AtLeastOnce'
    BY <1>0, <2>3, <2>4 DEF Once, AtLeastOnce
  <2>9. ASSUME NEW g \in Handler \ {h}, op[g].pc = "mail", g[1] = h[1]
        PROVE  op[g].m.event # e
    BY <2>3, <2>9 DEF Once, Stages
  <2>11. \A c \in Consumer : done[c] \subseteq done'[c]
    BY <1>0, <2>3
  <2>12. e \in done'[h[1]]
    BY <1>0, <2>3
  <2>13. ASSUME NEW g \in Handler \ {h}, op[g].pc = "record"
         PROVE  effects'[g[1]][op[g].m.event] >= 1
    <3>1. g[1] # h[1]
      BY <2>4, <2>13 DEF Once, Stages
    <3>2. effects'[g[1]] = effects[g[1]]
      BY <1>0, <2>3, <3>1
    <3>. QED
      BY <2>13, <3>2 DEF Once, Stages
  <2>14. Stages'
    BY <2>1, <2>2, <2>3, <2>4, <2>5, <2>9, <2>11, <2>12, <2>13, SMTT(30) DEF Once, Stages
  <2>. QED
    BY <2>6, <2>7, <2>14 DEF Once
<1>8. ASSUME Mail(h)
      PROVE  Once'
  <2>1. PICK e \in Event : e = op[h].m.event
    BY <1>8, BusyOp DEF Mail, Message
  <2>2. /\ op'[h].pc = "ack"
        /\ \A g \in Handler \ {h} : op'[g] = op[g]
    BY <1>8, GotoOp DEF Mail
  <2>3. /\ mails' = [mails EXCEPT ![h[1]][e] = @ + 1]
        /\ done' = done /\ effects' = effects
    BY <1>8, <2>1 DEF Mail, Counted
  <2>4. /\ h[1] \notin Split
        /\ e \in done[h[1]] /\ mails[h[1]][e] = 0
        /\ \A g \in Handler \ {h} : op[g].pc = "mail" /\ g[1] = h[1] => op[g].m.event # e
    BY <1>8, <2>1 DEF Mail, Once, Stages
  <2>5. effects[h[1]][e] = 1
    BY <2>1, <2>4 DEF Once, ExactlyOnce
  <2>6. ExactlyOnce'
    BY <1>0, <2>3, <2>4, <2>5 DEF Once, ExactlyOnce
  <2>7. AtLeastOnce'
    BY <2>3 DEF Once, AtLeastOnce
  <2>8. \A g \in Handler \ {h} : op[g].pc # "idle" => op[g].m.event \in Event
    BY BusyOp DEF Message
  <2>9. \A g \in Handler \ {h} : op[g].pc = "mail" =>
          mails'[g[1]][op[g].m.event] = mails[g[1]][op[g].m.event]
    BY <1>0, <2>3, <2>4, <2>8
  <2>10. Stages'
    BY <2>2, <2>3, <2>9 DEF Once, Stages
  <2>. QED
    BY <2>6, <2>7, <2>10 DEF Once
<1>9. ASSUME Effect(h)
      PROVE  Once'
  <2>1. PICK e \in Event : e = op[h].m.event
    BY <1>9, BusyOp DEF Effect, Message
  <2>2. /\ op'[h].pc = "record" /\ op'[h].m = op[h].m
        /\ \A g \in Handler \ {h} : op'[g] = op[g]
    BY <1>9, GotoOp DEF Effect
  <2>3. /\ effects' = [effects EXCEPT ![h[1]][e] = @ + 1]
        /\ done' = done /\ mails' = mails
    BY <1>9, <2>1 DEF Effect, Counted
  <2>4. h[1] \in Split
    BY <1>9 DEF Effect, Once, Stages
  <2>5. \A c \in Consumer, f \in Event : effects'[c][f] >= effects[c][f]
    BY <1>0, <2>3
  <2>6. effects'[h[1]][e] >= 1
    BY <1>0, <2>3
  <2>7. ExactlyOnce'
    BY <1>0, <2>3, <2>4 DEF Once, ExactlyOnce
  <2>8. AtLeastOnce'
    <3>1. Split \subseteq Consumer
      BY DeliveryConstants
    <3>2. \A c \in Consumer, f \in Event : effects[c][f] \in Nat /\ effects'[c][f] \in Nat
      BY <1>0, <2>3
    <3>. QED
      BY <1>0, <2>3, <2>5, <3>1, <3>2 DEF Once, AtLeastOnce
  <2>9. \A g \in Handler \ {h} : op[g].pc # "idle" => op[g].m.event \in Event
    BY BusyOp DEF Message
  <2>10. \A g \in Handler \ {h} : op[g].pc = "record" => effects'[g[1]][op[g].m.event] >= 1
    BY <1>0, <2>3, <2>9 DEF Once, Stages
  <2>11. Stages'
    BY <2>1, <2>2, <2>3, <2>4, <2>6, <2>10 DEF Once, Stages
  <2>. QED
    BY <2>7, <2>8, <2>11 DEF Once
<1>10. ASSUME Record(h)
       PROVE  Once'
  <2>1. PICK e \in Event : e = op[h].m.event
    BY <1>10, BusyOp DEF Record, Message
  <2>2. /\ op'[h].pc = "ack"
        /\ \A g \in Handler \ {h} : op'[g] = op[g]
    BY <1>10, GotoOp DEF Record
  <2>3. /\ done' = [done EXCEPT ![h[1]] = @ \cup {e}]
        /\ effects' = effects /\ mails' = mails
    BY <1>10, <2>1 DEF Record, Recorded
  <2>4. h[1] \in Split /\ effects[h[1]][e] >= 1
    BY <1>10, <2>1 DEF Record, Once, Stages
  <2>5. ExactlyOnce'
    BY <1>0, <2>3, <2>4 DEF Once, ExactlyOnce
  <2>6. AtLeastOnce'
    BY <1>0, <2>3, <2>4, DeliveryConstants DEF Once, AtLeastOnce
  <2>7. \A c \in Consumer : done[c] \subseteq done'[c]
    BY <1>0, <2>3
  <2>8. Stages'
    BY <2>2, <2>3, <2>7 DEF Once, Stages
  <2>. QED
    BY <2>5, <2>6, <2>8 DEF Once
<1>. QED
  BY <1>1, <1>2, <1>4, <1>5, <1>6, <1>7, <1>8, <1>9, <1>10 DEF Work

(* Every step keeps effects and records in step.                           *)
LEMMA OnceStep == TypeOK /\ Once /\ [Next]_vars => Once'
<1> SUFFICES ASSUME TypeOK, Once, [Next]_vars PROVE Once'
  OBVIOUS
<1>1. ASSUME UNCHANGED <<op, tables>>
      PROVE  Once'
  BY <1>1, OnceQuiet
<1>2. ASSUME NEW e \in Event, Emit(e) \/ RetryDue(e)
      PROVE  Once'
  BY <1>1, <1>2 DEF Emit, RetryDue
<1>3. ASSUME NEW r \in Relay, Forward(r) \/ Postpone(r) \/ RelayCrash(r)
      PROVE  Once'
  BY <1>1, <1>3 DEF Forward, ReadRow, Publish, MarkPublished, Postpone, RelayCrash
<1>4. ASSUME NEW c \in Consumer, Expire(c)
      PROVE  Once'
  BY <1>1, <1>4 DEF Expire
<1>5. CASE UNCHANGED vars
  BY <1>1, <1>5 DEF vars, tables
<1>. QED
  BY <1>2, <1>3, <1>4, <1>5, OnceHandler DEF Next

(* Audit and notification have the effect of an event exactly once, and    *)
(* notification sends its mails at most once, however many copies reach    *)
(* however many of their handlers.                                         *)
THEOREM EffectsExactlyOnce == Spec => []ExactlyOnce
<1>1. Once => ExactlyOnce
  BY DEF Once
<1>. QED
  BY <1>1, TypeInit, TypeStep, OnceInit, OnceStep, PTL DEF Spec

(* Security monitoring never records an event it has not counted. *)
THEOREM EffectsAtLeastOnce == Spec => []AtLeastOnce
<1>1. Once => AtLeastOnce
  BY DEF Once
<1>. QED
  BY <1>1, TypeInit, TypeStep, OnceInit, OnceStep, PTL DEF Spec

-----------------------------------------------------------------------------
(* A row is published before it is marked; from then on there is a copy.   *)
Safe(c, e) == e \in done[c] \cup dlq[c] \/ Underway(c, e)

Published(e) ==
  outbox[e] = "published" \/ \E r \in Relay : relay[r].pc = "mark" /\ relay[r].e = e

PublishedSafe == \A c \in Consumer, e \in Event : <<c, e>> \in Bound /\ Published(e) => Safe(c, e)

Queued(c, e) == \E m \in BagToSet(queue[c]) : m.event = e

Retried(e) == \E d \in Consumers(e) : \E m \in BagToSet(retry[d]) : m.event = e

Handled(c, e) ==
  \E h \in Handler :
    h[1] = c /\ op[h].pc \notin {"idle", "ack"} /\ op[h].held /\ op[h].m.event = e

(* Where an event may be that is on its way.                               *)
LEMMA SafeMeans ==
  \A c \in Consumer, e \in Event :
    Safe(c, e) <=> e \in done[c] \cup dlq[c] \/ Queued(c, e) \/ Retried(e) \/ Handled(c, e)
BY DEF Safe, Underway, Copies, Queued, Retried, Handled

(* The same, after a step.                                                 *)
LEMMA SafeMeansNext ==
  \A c \in Consumer, e \in Event :
    Safe(c, e)' <=> e \in done'[c] \cup dlq'[c] \/ Queued(c, e)' \/ Retried(e)' \/ Handled(c, e)'
BY DEF Safe, Underway, Copies, Queued, Retried, Handled

(* A handler does not let go of an event before it is safe elsewhere.      *)
LEMMA SafeHandler ==
  ASSUME TypeOK, Stages, NEW c \in Consumer, NEW e \in Event, <<c, e>> \in Bound, Safe(c, e),
         NEW h \in Handler
  PROVE  Work(h) \/ Fail(h) \/ Disconnect(h) \/ Crash(h) => Safe(c, e)'
<1>. USE HandlerType DEF broker, tables
<1>0. /\ done \in [Consumer -> SUBSET Event]
      /\ dlq \in [Consumer -> SUBSET Event]
  BY DEF TypeOK
<1>1. ASSUME Take(h)
      PROVE  Safe(c, e)'
  <2>1. PICK m \in BagToSet(queue[h[1]]) :
          /\ op[h] = Idle
          /\ queue' = Without(queue, h[1], m)
          /\ op' = [op EXCEPT ![h] = [pc |-> "check", m |-> m, held |-> TRUE]]
          /\ UNCHANGED <<producer, retry, dlq, tables, fails, faults>>
    BY <1>1 DEF Take, Free
  <2>2. /\ op'[h] = [pc |-> "check", m |-> m, held |-> TRUE]
        /\ \A g \in Handler \ {h} : op'[g] = op[g]
    BY <2>1 DEF TypeOK
  <2>3. CASE Queued(c, e)
    <3>1. PICK n \in BagToSet(queue[c]) : n.event = e
      BY <2>3 DEF Queued
    <3>2. Queues(queue, Message)
      BY DEF TypeOK
    <3>3. n \in BagToSet(queue'[c]) \/ (c = h[1] /\ n = m)
      BY <2>1, <3>2, WithoutQueues
    <3>4. CASE n \in BagToSet(queue'[c])
      BY <3>1, <3>4, SafeMeansNext DEF Queued
    <3>5. CASE c = h[1] /\ n = m
      <4>1. Handled(c, e)'
        BY <2>2, <3>1, <3>5 DEF Handled
      <4>. QED
        BY <4>1, SafeMeansNext
    <3>. QED
      BY <3>3, <3>4, <3>5
  <2>4. CASE Handled(c, e)
    <3>1. PICK g \in Handler :
            g[1] = c /\ op[g].pc \notin {"idle", "ack"} /\ op[g].held /\ op[g].m.event = e
      BY <2>4 DEF Handled
    <3>2. op'[g] = op[g]
      BY <2>1, <2>2, <3>1 DEF Idle
    <3>3. Handled(c, e)'
      BY <3>1, <3>2 DEF Handled
    <3>. QED
      BY <3>3, SafeMeansNext
  <2>5. CASE Retried(e) \/ e \in done[c] \cup dlq[c]
    BY <2>1, <2>5, SafeMeansNext DEF Retried
  <2>. QED
    BY <2>3, <2>4, <2>5, SafeMeans
(* A handler that moves on, having consumed the event if it only has to    *)
(* acknowledge it.                                                         *)
<1>2. ASSUME op[h].pc # "idle",
             NEW pc \in {"check", "commit", "mail", "effect", "record", "ack"}, Goto(h, pc),
             pc = "ack" => op[h].m.event \in done'[h[1]],
             \A d \in Consumer : done[d] \subseteq done'[d],
             UNCHANGED broker
      PROVE  Safe(c, e)'
  <2>1. /\ op'[h].pc = pc /\ op'[h].m = op[h].m /\ op'[h].held = op[h].held
        /\ \A g \in Handler \ {h} : op'[g] = op[g]
    BY <1>2, GotoOp
  <2>2. CASE Handled(c, e)
    <3>1. PICK g \in Handler :
            g[1] = c /\ op[g].pc \notin {"idle", "ack"} /\ op[g].held /\ op[g].m.event = e
      BY <2>2 DEF Handled
    <3>2. CASE g = h /\ pc = "ack"
      BY <1>2, <3>1, <3>2, SafeMeansNext
    <3>3. CASE g # h \/ pc # "ack"
      <4>1. Handled(c, e)'
        BY <2>1, <3>1, <3>3 DEF Handled
      <4>. QED
        BY <4>1, SafeMeansNext
    <3>. QED
      BY <3>2, <3>3
  <2>3. CASE Queued(c, e) \/ Retried(e) \/ e \in done[c] \cup dlq[c]
    BY <1>2, <2>3, SafeMeansNext DEF Queued, Retried
  <2>. QED
    BY <2>2, <2>3, SafeMeans
<1>3. ASSUME Check(h)
      PROVE  Safe(c, e)'
  <2>1. PICK pc \in {"ack", "effect", "commit"} : Goto(h, pc) /\ (pc = "ack" => Known(h))
    BY <1>3 DEF Check
  <2>2. op[h].pc # "idle" /\ UNCHANGED broker /\ done' = done
    BY <1>3 DEF Check
  <2>. QED
    BY <1>2, <2>1, <2>2 DEF Known
<1>4. ASSUME Commit(h)
      PROVE  Safe(c, e)'
  <2>1. op[h].pc # "idle" /\ Goto(h, "mail") /\ UNCHANGED broker
    BY <1>4 DEF Commit
  <2>2. \A d \in Consumer : done[d] \subseteq done'[d]
    BY <1>0, <1>4 DEF Commit, Recorded
  <2>. QED
    BY <1>2, <2>1, <2>2
<1>5. ASSUME Mail(h)
      PROVE  Safe(c, e)'
  <2>1. op[h].pc # "idle" /\ Goto(h, "ack") /\ UNCHANGED broker /\ done' = done
    BY <1>5 DEF Mail
  <2>2. op[h].m.event \in done[h[1]]
    BY <1>5 DEF Mail, Stages
  <2>. QED
    BY <1>2, <2>1, <2>2
<1>6. ASSUME Effect(h)
      PROVE  Safe(c, e)'
  <2>1. op[h].pc # "idle" /\ Goto(h, "record") /\ UNCHANGED broker /\ done' = done
    BY <1>6 DEF Effect
  <2>. QED
    BY <1>2, <2>1
<1>7. ASSUME Record(h)
      PROVE  Safe(c, e)'
  <2>1. op[h].pc # "idle" /\ Goto(h, "ack") /\ UNCHANGED broker
    BY <1>7 DEF Record
  <2>2. op[h].m.event \in done'[h[1]] /\ \A d \in Consumer : done[d] \subseteq done'[d]
    BY <1>0, <1>7 DEF Record, Recorded
  <2>. QED
    BY <1>2, <2>1, <2>2
(* A handler that throws leaves a copy in the retry queues of all the      *)
(* consumers of the event, its own among them, or a dead letter.           *)
<1>8. ASSUME op[h].pc # "idle", Throw(h)
      PROVE  Safe(c, e)'
  <2>1. PICK m \in Message : m = op[h].m
    BY <1>8, BusyOp
  <2>2. m.event \in Event /\ m.attempts \in 0 .. MaxAttempts - 1
    BY DEF Message
  <2>3. \A g \in Handler \ {h} : op'[g] = op[g]
    BY <1>8, GotoOp DEF Throw
  <2>4. queue' = queue /\ done' = done
    BY <1>8 DEF Throw
  <2>5. \A d \in Consumer : dlq[d] \subseteq dlq'[d]
    BY <1>0, <1>8, <2>1, <2>2 DEF Throw
  <2>6. \/ retry' = retry
        \/ /\ op[h].held
           /\ retry' = Routed(retry, [m EXCEPT !.attempts = Attempt(m)])
           /\ ~ (Attempt(m) >= MaxAttempts)
    BY <1>8, <2>1 DEF Throw
  <2>7. \/ ~op[h].held
        \/ m.event \in dlq'[h[1]]
        \/ /\ retry' = Routed(retry, [m EXCEPT !.attempts = Attempt(m)])
           /\ ~ (Attempt(m) >= MaxAttempts)
    BY <1>0, <1>8, <2>1 DEF Throw
  <2>8. ASSUME retry' = Routed(retry, [m EXCEPT !.attempts = Attempt(m)]),
               ~ (Attempt(m) >= MaxAttempts)
        PROVE  /\ \A d \in Consumer : BagToSet(retry[d]) \subseteq BagToSet(retry'[d])
               /\ h[1] \in Consumers(m.event) => Retried(m.event)'
    <3>1. m = [event |-> m.event, attempts |-> m.attempts]
      BY DEF Message
    <3>2. PICK n \in Message : n = [event |-> m.event, attempts |-> m.attempts + 1]
      BY <2>2, <2>8, DeliveryConstants DEF Attempt, Message
    <3>3. retry' = Routed(retry, n) /\ n.event = m.event
      BY <2>8, <3>1, <3>2 DEF Attempt
    <3>4. \A d \in Consumer :
            /\ d \in Consumers(n.event) => BagToSet(retry'[d]) = BagToSet(retry[d]) \cup {n}
            /\ d \notin Consumers(n.event) => BagToSet(retry'[d]) = BagToSet(retry[d])
      BY <3>3, RetriedCopies
    <3>. QED
      BY <3>3, <3>4 DEF Retried
  <2>9. \A d \in Consumer : BagToSet(retry[d]) \subseteq BagToSet(retry'[d])
    BY <2>6, <2>8
  <2>10. CASE Queued(c, e) \/ Retried(e) \/ e \in done[c] \cup dlq[c]
    <3>1. Queued(c, e)' \/ Retried(e)' \/ e \in done'[c] \cup dlq'[c]
      BY <2>4, <2>5, <2>9, <2>10 DEF Queued, Retried, Consumers
    <3>. QED
      BY <3>1, SafeMeansNext
  <2>11. CASE Handled(c, e)
    <3>1. PICK g \in Handler :
            g[1] = c /\ op[g].pc \notin {"idle", "ack"} /\ op[g].held /\ op[g].m.event = e
      BY <2>11 DEF Handled
    <3>2. CASE g # h
      <4>1. Handled(c, e)'
        BY <2>3, <3>1, <3>2 DEF Handled
      <4>. QED
        BY <4>1, SafeMeansNext
    <3>3. CASE g = h
      <4>1. h[1] = c /\ m.event = e /\ h[1] \in Consumers(e)
        BY <2>1, <3>1, <3>3 DEF Consumers
      <4>2. e \in dlq'[c] \/ Retried(e)'
        BY <2>6, <2>7, <2>8, <3>1, <3>3, <4>1
      <4>. QED
        BY <4>2, SafeMeansNext
    <3>. QED
      BY <3>2, <3>3
  <2>. QED
    BY <2>10, <2>11, SafeMeans
<1>9. ASSUME Conflict(h) \/ Fail(h)
      PROVE  Safe(c, e)'
  BY <1>8, <1>9 DEF Conflict, Fail
<1>10. ASSUME Ack(h)
       PROVE  Safe(c, e)'
  <2>1. op[h].pc = "ack" /\ \A g \in Handler \ {h} : op'[g] = op[g]
    BY <1>10 DEF Ack, TypeOK
  <2>2. Handled(c, e) => Handled(c, e)'
    BY <2>1 DEF Handled
  <2>. QED
    BY <1>10, <2>2, SafeMeans, SafeMeansNext DEF Ack, Queued, Retried
(* A handler that loses its message returns it to the queue. *)
<1>11. ASSUME op[h].pc # "idle", op[h].held => Requeued(h), ~op[h].held => queue' = queue,
              \A g \in Handler \ {h} : op'[g] = op[g],
              UNCHANGED <<retry, dlq, tables>>
       PROVE  Safe(c, e)'
  <2>1. PICK m \in Message : m = op[h].m
    BY <1>11, BusyOp
  <2>2. Queues(queue, Message)
    BY DEF TypeOK
  <2>3. \A d \in Consumer : BagToSet(queue[d]) \subseteq BagToSet(queue'[d])
    <3>1. CASE op[h].held
      <4>1. h[1] \in Consumer /\ queue' = [queue EXCEPT ![h[1]] = @ (+) SetToBag({m})]
        BY <1>11, <2>1, <3>1 DEF Requeued
      <4>. QED
        BY <2>2, <4>1, RequeuedQueues
    <3>2. CASE ~op[h].held
      BY <1>11, <3>2
    <3>. QED
      BY <3>1, <3>2, <1>11, BusyOp
  <2>4. op[h].held => m \in BagToSet(queue'[h[1]])
    <3>1. SUFFICES ASSUME op[h].held PROVE m \in BagToSet(queue'[h[1]])
      OBVIOUS
    <3>2. h[1] \in Consumer /\ queue' = [queue EXCEPT ![h[1]] = @ (+) SetToBag({m})]
      BY <1>11, <2>1, <3>1 DEF Requeued
    <3>3. \A d \in Consumer : d = h[1] => BagToSet(queue'[d]) = BagToSet(queue[d]) \cup {m}
      BY <2>2, <3>2, RequeuedQueues, SMTT(30)
    <3>. QED
      BY <3>2, <3>3
  <2>5. Handled(c, e) => Handled(c, e)' \/ Queued(c, e)'
    BY <1>11, <2>1, <2>4 DEF Handled, Queued
  <2>6. Queued(c, e) => Queued(c, e)'
    BY <2>3 DEF Queued
  <2>7. Retried(e) => Retried(e)'
    BY <1>11 DEF Retried
  <2>. QED
    BY <1>11, <2>5, <2>6, <2>7, SafeMeans, SafeMeansNext
<1>12. ASSUME Disconnect(h)
       PROVE  Safe(c, e)'
  <2>1. op[h].pc # "idle" /\ \A g \in Handler \ {h} : op'[g] = op[g]
    BY <1>12, NotIdle DEF Disconnect, TypeOK
  <2>. QED
    BY <1>11, <1>12, <2>1 DEF Disconnect
<1>13. ASSUME Crash(h)
       PROVE  Safe(c, e)'
  <2>1. op[h].pc # "idle" /\ \A g \in Handler \ {h} : op'[g] = op[g]
    BY <1>13, NotIdle DEF Crash, TypeOK
  <2>. QED
    BY <1>11, <1>13, <2>1 DEF Crash
<1>. QED
  BY <1>1, <1>3, <1>4, <1>5, <1>6, <1>7, <1>9, <1>10, <1>12, <1>13 DEF Work

(* No step loses an event that is on its way.                              *)
LEMMA SafeStep ==
  ASSUME TypeOK, Stages, NEW c \in Consumer, NEW e \in Event, <<c, e>> \in Bound, Safe(c, e),
         [Next]_vars
  PROVE  Safe(c, e)'
<1>1. ASSUME UNCHANGED <<queue, retry, op, done, dlq>>
      PROVE  Safe(c, e)'
  BY <1>1 DEF Safe, Underway
<1>2. ASSUME NEW f \in Event, Emit(f) \/ RetryDue(f)
      PROVE  Safe(c, e)'
  BY <1>1, <1>2 DEF Emit, RetryDue, broker, tables
<1>3. ASSUME NEW r \in Relay,
             (\E f \in Event : ReadRow(r, f)) \/ MarkPublished(r) \/ Postpone(r) \/ RelayCrash(r)
      PROVE  Safe(c, e)'
  BY <1>1, <1>3 DEF ReadRow, MarkPublished, Postpone, RelayCrash, broker, tables
<1>4. ASSUME NEW r \in Relay, Publish(r)
      PROVE  Safe(c, e)'
  <2>1. PICK o \in [pc: {"publish", "mark"}, e: Event] : o = relay[r]
    BY <1>4 DEF Publish, TypeOK, Idle
  <2>2. PICK m \in Message : m = [event |-> o.e, attempts |-> 0]
    <3>1. o.e \in Event /\ 0 \in 0 .. MaxAttempts - 1
      BY DeliveryConstants
    <3>. QED
      BY <3>1 DEF Message
  <2>3. Queues(queue, Message) /\ queue' = Routed(queue, m)
    BY <1>4, <2>1, <2>2 DEF Publish, TypeOK
  <2>4. \A d \in Consumer : BagToSet(queue[d]) \subseteq BagToSet(queue'[d])
    BY <2>3, PublishedCopies
  <2>5. UNCHANGED <<retry, op, done, dlq>>
    BY <1>4 DEF Publish, tables
  <2>. QED
    BY <2>4, <2>5, SafeMeans, SafeMeansNext, SMTT(30) DEF Queued, Retried, Handled
<1>5. ASSUME NEW d \in Consumer, Expire(d)
      PROVE  Safe(c, e)'
  <2>1. PICK m \in BagToSet(retry[d]) :
          /\ retry' = Without(retry, d, m)
          /\ queue' = Routed(queue, m)
          /\ UNCHANGED <<producer, dlq, op, tables, fails, faults>>
    BY <1>5 DEF Expire
  <2>2. m \in Message /\ Queues(queue, Message) /\ Queues(retry, Message)
    BY DEF TypeOK, Queues
  <2>3. \A b \in Consumer :
          /\ b \in Consumers(m.event) => BagToSet(queue'[b]) = BagToSet(queue[b]) \cup {m}
          /\ b \notin Consumers(m.event) => BagToSet(queue'[b]) = BagToSet(queue[b])
    BY <2>1, <2>2, PublishedCopies
  <2>4. \A b \in Consumer : \A n \in BagToSet(retry[b]) :
          n \in BagToSet(retry'[b]) \/ (b = d /\ n = m)
    BY <2>1, <2>2, WithoutQueues
  <2>5. c \in Consumers(e)
    BY DEF Consumers
  <2>6. Retried(e) => Retried(e)' \/ Queued(c, e)'
    BY <2>3, <2>4, <2>5 DEF Retried, Queued, Consumers
  <2>7. Queued(c, e) => Queued(c, e)'
    BY <2>3 DEF Queued
  <2>8. Handled(c, e) => Handled(c, e)'
    BY <2>1 DEF Handled
  <2>. QED
    BY <2>1, <2>6, <2>7, <2>8, SafeMeans, SafeMeansNext DEF tables
<1>6. CASE UNCHANGED vars
  BY <1>1, <1>6 DEF vars
<1>. QED
  BY <1>2, <1>3, <1>4, <1>5, <1>6, SafeHandler DEF Next, Forward

(* A published event stays safe, and a new one is safe at once.            *)
LEMMA PublishedStep == TypeOK /\ Once /\ PublishedSafe /\ [Next]_vars => PublishedSafe'
<1> SUFFICES ASSUME TypeOK, Once, PublishedSafe, [Next]_vars,
                    NEW c \in Consumer, NEW e \in Event, <<c, e>> \in Bound, Published(e)'
             PROVE  Safe(c, e)'
  BY DEF PublishedSafe
<1>1. CASE Published(e)
  BY <1>1, SafeStep DEF PublishedSafe, Once
<1>2. CASE ~Published(e)
  <2>1. ASSUME NEW r \in Relay, Publish(r)
        PROVE  Safe(c, e)'
    <3>1. PICK o \in [pc: {"publish", "mark"}, e: Event] : o = relay[r]
      BY <2>1 DEF Publish, TypeOK, Idle
    <3>2. PICK m \in Message : m = [event |-> o.e, attempts |-> 0]
      <4>1. o.e \in Event /\ 0 \in 0 .. MaxAttempts - 1
        BY DeliveryConstants
      <4>. QED
        BY <4>1 DEF Message
    <3>3. Queues(queue, Message) /\ queue' = Routed(queue, m)
      BY <2>1, <3>1, <3>2 DEF Publish, TypeOK
    <3>4. \A d \in Consumer : d \in Consumers(m.event) => m \in BagToSet(queue'[d])
      BY <3>3, PublishedCopies
    <3>5. outbox' = outbox /\ \A s \in Relay \ {r} : relay'[s] = relay[s]
      BY <2>1 DEF Publish, TypeOK
    <3>6. relay' = [relay EXCEPT ![r] = [o EXCEPT !.pc = "mark"]]
      BY <2>1, <3>1 DEF Publish, TypeOK
    <3>7. relay'[r].e = o.e
      BY <3>6 DEF TypeOK
    <3>8. o.e = e
      BY <1>2, <3>5, <3>7 DEF Published
    <3>9. Queued(c, e)'
      BY <3>2, <3>4, <3>8 DEF Queued, Consumers
    <3>. QED
      BY <3>9, SafeMeansNext
  <2>2. ASSUME NEW r \in Relay, NEW f \in Event, ReadRow(r, f)
        PROVE  FALSE
    BY <1>2, <2>2 DEF ReadRow, Published, TypeOK
  <2>3. ASSUME NEW r \in Relay, MarkPublished(r)
        PROVE  FALSE
    <3>1. relay[r].pc = "mark" /\ relay[r].e # e
      BY <1>2, <2>3 DEF MarkPublished, Published
    <3>2. outbox'[e] = outbox[e]
      BY <2>3, <3>1 DEF MarkPublished, TypeOK
    <3>3. \A s \in Relay : relay'[s] = Idle \/ relay'[s] = relay[s]
      BY <2>3 DEF MarkPublished, TypeOK
    <3>. QED
      BY <1>2, <3>2, <3>3 DEF Published, Idle
  <2>4. ASSUME NEW r \in Relay, Postpone(r) \/ RelayCrash(r)
        PROVE  FALSE
    <3>1. outbox'[e] = "published" => outbox[e] = "published"
      BY <2>4 DEF Postpone, RelayCrash, TypeOK
    <3>2. \A s \in Relay : relay'[s] = Idle \/ relay'[s] = relay[s]
      BY <2>4 DEF Postpone, RelayCrash, TypeOK
    <3>. QED
      BY <1>2, <3>1, <3>2 DEF Published, Idle
  <2>5. ASSUME NEW f \in Event, Emit(f) \/ RetryDue(f)
        PROVE  FALSE
    BY <1>2, <2>5 DEF Emit, RetryDue, Published, TypeOK
  <2>6. ASSUME UNCHANGED producer
        PROVE  FALSE
    BY <1>2, <2>6 DEF Published, producer
  <2>7. ASSUME NEW h \in Handler, Work(h) \/ Fail(h) \/ Disconnect(h) \/ Crash(h)
        PROVE  FALSE
    BY <2>6, <2>7
    DEF Work, Take, Check, Commit, Mail, Effect, Record, Conflict, Fail, Throw, Ack, Disconnect,
        Crash
  <2>8. ASSUME NEW d \in Consumer, Expire(d)
        PROVE  FALSE
    BY <2>6, <2>8 DEF Expire
  <2>9. CASE UNCHANGED vars
    BY <2>6, <2>9 DEF vars, producer
  <2>. QED
    BY <2>1, <2>2, <2>3, <2>4, <2>5, <2>7, <2>8, <2>9 DEF Next, Forward
<1>. QED
  BY <1>1, <1>2

(* A published event that a consumer has not consumed is always on its way *)
(* to it, or in its dead-letter queue, wherever relays, connections and    *)
(* handlers fail.                                                          *)
THEOREM NothingIsLost == Spec => []NothingLost
<1>1. Init => PublishedSafe
  BY DEF Init, PublishedSafe, Published, Idle
<1>2. PublishedSafe => NothingLost
  <2> SUFFICES ASSUME PublishedSafe, NEW p \in Bound, outbox[p[2]] = "published"
               PROVE  p[2] \in done[p[1]] \cup dlq[p[1]] \/ Underway(p[1], p[2])
    BY DEF NothingLost
  <2>1. p[1] \in Consumer /\ p[2] \in Event /\ p = <<p[1], p[2]>>
    BY DeliveryConstants
  <2>. QED
    BY <2>1 DEF PublishedSafe, Published, Safe
<1>. QED
  BY <1>1, <1>2, TypeInit, TypeStep, OnceInit, OnceStep, PublishedStep, PTL DEF Spec
=============================================================================
