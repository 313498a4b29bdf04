---------------------------- MODULE Notifications ----------------------------
(***************************************************************************)
(* The Notification Service (apps/notification-service/src/notifications): *)
(* who is told of an event (notification-events.consumer.ts), and what     *)
(* people do with their inbox and preferences (notifications.service.ts).  *)
(*                                                                         *)
(* A message is delivered until it is acknowledged, so that it may be      *)
(* handled again after a crash, or by two workers at once; the row of      *)
(* ConsumedEvent is unique.  How messages travel is in EventDelivery.      *)
(* Texts are left out; the reader of an inbox is its owner or an           *)
(* administrator.                                                          *)
(*                                                                         *)
(* InsertAnyway is a mutated form of the definition it precedes; no action *)
(* uses it.                                                                *)
(***************************************************************************)
EXTENDS ServiceConstants

CONSTANTS
  Worker,      \* handlers that may run at the same time
  Reader,      \* users
  Message,     \* bound: events
  MaxCrashes,  \* bound: times a handler throws or stops
  MaxChanges   \* bound: requests that change preferences or read marks

VARIABLES
  message,    \* each event: its kind and the people it names
  consumed,   \* ConsumedEvent
  acked,      \* messages that are acknowledged
  worker,     \* what each handler is doing
  preference, \* NotificationPreference
  inbox,      \* how many rows there are for an event, a user and a channel
  seen,       \* rows with read_at
  mailed,     \* how often the mails for an event were tried
  crashes, changes,
  disabled    \* history: <<user, channel>> that the user has disabled at some time

notifying == <<message, consumed, acked, worker, preference, inbox, seen, mailed, crashes, changes, disabled>>
-----------------------------------------------------------------------------
Channel == {"IN_APP", "EMAIL"}

Row == Message \X Reader \X Channel

Person == Reader \cup {Nobody}

Kind == {"TASK_CREATED", "TASK_SUBMITTED", "TASK_REVIEWED", "TASK_DEADLINE_REMINDER",
         "SECURITY_ALERT_CREATED", "PERMISSION_GRANT_EXPIRED"}

(* The events; those of another kind than TASK_CREATED name one person.    *)
Event ==
  [kind: {"TASK_CREATED"}, actor: Person, assignee: Person, reviewer: Person, high: {FALSE}]
  \cup {e \in [kind: Kind \ {"TASK_CREATED"}, actor: Person, assignee: Person, reviewer: Person, high: BOOLEAN] :
          e.assignee = e.actor /\ e.reviewer = e.actor}

NoMessage == [kind |-> "none", actor |-> Nobody, assignee |-> Nobody, reviewer |-> Nobody, high |-> FALSE]

Waiting == [pc |-> "waiting", on |-> {}]

Init ==
  /\ message = [m \in Message |-> NoMessage]
  /\ consumed = {} /\ acked = {}
  /\ worker = [w \in Worker |-> Waiting]
  /\ preference = [u \in Reader |-> [there |-> FALSE, on |-> Channel]]
  /\ inbox = [r \in Row |-> 0]
  /\ seen = {}
  /\ mailed = [m \in Message |-> 0]
  /\ crashes = 0 /\ changes = 0
  /\ disabled = {}
-----------------------------------------------------------------------------
(* Who is told, and over which channels.  TASK_CREATED names three people, *)
(* each of whom is told once; `actor` is the author of a submission in     *)
(* TASK_REVIEWED, and whom the alert or the grant is about.                *)
People(e) ==
  CASE e.kind = "TASK_CREATED" -> {e.actor, e.assignee, e.reviewer} \ {Nobody}
    [] e.kind = "TASK_SUBMITTED" -> {e.reviewer} \ {Nobody}
    [] e.kind = "TASK_DEADLINE_REMINDER" -> {e.assignee} \ {Nobody}
    [] OTHER -> {e.actor} \ {Nobody}

Channels(e) ==
  IF e.kind \in {"SECURITY_ALERT_CREATED", "PERMISSION_GRANT_EXPIRED"} THEN Channel ELSE {"IN_APP"}

Rows(m) == {m} \X People(message[m]) \X Channels(message[m])

(* A reminder for nobody is not even recorded. *)
Recorded(m) == message[m].kind = "TASK_DEADLINE_REMINDER" => message[m].assignee # Nobody

(* An alert of HIGH severity, unless its rule sends no mails, is mailed to *)
(* the administrators; a reminder to the assignee.                         *)
SendsMail(e) ==
  \/ e.kind = "TASK_DEADLINE_REMINDER"
  \/ e.kind = "SECURITY_ALERT_CREATED" /\ e.high
-----------------------------------------------------------------------------
Doing(w, pc) == worker' = [worker EXCEPT ![w].pc = pc]

Arrive(m) ==
  /\ message[m] = NoMessage
  /\ \E e \in Event : message' = [message EXCEPT ![m] = e]
  /\ UNCHANGED <<consumed, acked, worker, preference, inbox, seen, mailed, crashes, changes, disabled>>

Take(w, m) ==
  /\ worker[w] = Waiting
  /\ message[m] # NoMessage
  /\ m \notin acked
  /\ worker' = [worker EXCEPT ![w] = [pc |-> IF Recorded(m) THEN "look" ELSE "ack", on |-> {m}]]
  /\ UNCHANGED <<message, consumed, acked, preference, inbox, seen, mailed, crashes, changes, disabled>>

(* createNotificationsForEvent: is it consumed already? *)
Look(w) ==
  /\ worker[w].pc = "look"
  /\ Doing(w, IF worker[w].on \subseteq consumed THEN "ack" ELSE "insert")
  /\ UNCHANGED <<message, consumed, acked, preference, inbox, seen, mailed, crashes, changes, disabled>>

(* The preferences are created where missing, a row written for every      *)
(* channel that is on, and the event recorded, all together.               *)
WriteRows(m) ==
  /\ preference' = [u \in Reader |-> IF u \in People(message[m]) THEN [preference[u] EXCEPT !.there = TRUE]
                                                                 ELSE preference[u]]
  /\ inbox' = [r \in Row |-> IF r \in Rows(m) /\ r[3] \in preference[r[2]].on THEN inbox[r] + 1 ELSE inbox[r]]
  /\ consumed' = consumed \cup {m}

InsertAnyway(w) ==
  /\ worker[w].pc = "insert"
  /\ \E m \in worker[w].on : WriteRows(m) /\ Doing(w, IF SendsMail(message[m]) THEN "mail" ELSE "ack")
  /\ UNCHANGED <<message, acked, seen, mailed, crashes, changes, disabled>>

Insert(w) ==
  /\ worker[w].pc = "insert"
  /\ \E m \in worker[w].on \ consumed :
       WriteRows(m) /\ Doing(w, IF SendsMail(message[m]) THEN "mail" ELSE "ack")
  /\ UNCHANGED <<message, acked, seen, mailed, crashes, changes, disabled>>

(* After the transaction, once, whatever becomes of the mails. *)
Mail(w) ==
  /\ worker[w].pc = "mail"
  /\ mailed' = [m \in Message |-> IF m \in worker[w].on THEN mailed[m] + 1 ELSE mailed[m]]
  /\ Doing(w, "ack")
  /\ UNCHANGED <<message, consumed, acked, preference, inbox, seen, crashes, changes, disabled>>

Ack(w) ==
  /\ worker[w].pc = "ack"
  /\ acked' = acked \cup worker[w].on
  /\ worker' = [worker EXCEPT ![w] = Waiting]
  /\ UNCHANGED <<message, consumed, preference, inbox, seen, mailed, crashes, changes, disabled>>

(* The handler throws (as it does if the event was recorded meanwhile), or *)
(* its process stops: the message is delivered again.                      *)
Crash(w) ==
  /\ worker[w] # Waiting
  /\ crashes < MaxCrashes
  /\ crashes' = crashes + 1
  /\ worker' = [worker EXCEPT ![w] = Waiting]
  /\ UNCHANGED <<message, consumed, acked, preference, inbox, seen, mailed, changes, disabled>>
-----------------------------------------------------------------------------
Change == changes < MaxChanges /\ changes' = changes + 1

(* getPreferences creates what it reads. *)
GetPreferences(u) ==
  /\ ~preference[u].there
  /\ Change
  /\ preference' = [preference EXCEPT ![u].there = TRUE]
  /\ UNCHANGED <<message, consumed, acked, worker, inbox, seen, mailed, crashes, disabled>>

(* updatePreferences: what is not named stays, or is on. *)
UpdatePreferences(u) ==
  /\ Change
  /\ \E on \in SUBSET Channel :
       /\ preference' = [preference EXCEPT ![u] = [there |-> TRUE, on |-> on]]
       /\ disabled' = disabled \cup ({u} \X (Channel \ on))
  /\ UNCHANGED <<message, consumed, acked, worker, inbox, seen, mailed, crashes>>

(* markAsRead and markAllAsRead *)
MarkRead(S) == seen' = seen \cup S

MarkAsRead ==
  /\ Change
  /\ \E r \in Row : inbox[r] > 0 /\ MarkRead({r})
  /\ UNCHANGED <<message, consumed, acked, worker, preference, inbox, mailed, crashes, disabled>>

MarkAllAsRead(u) ==
  /\ Change
  /\ MarkRead({r \in Row : r[2] = u /\ inbox[r] > 0})
  /\ UNCHANGED <<message, consumed, acked, worker, preference, inbox, mailed, crashes, disabled>>
-----------------------------------------------------------------------------
Next ==
  \/ \E m \in Message : Arrive(m)
  \/ \E w \in Worker :
       \/ \E m \in Message : Take(w, m)
       \/ Look(w) \/ Insert(w) \/ Mail(w) \/ Ack(w) \/ Crash(w)
  \/ \E u \in Reader : GetPreferences(u) \/ UpdatePreferences(u) \/ MarkAllAsRead(u)
  \/ MarkAsRead

Spec == Init /\ [][Next]_notifying
-----------------------------------------------------------------------------
(* Messages, rows and what handlers are doing are well typed. *)
TypeOK ==
  /\ message \in [Message -> Event \cup {NoMessage}]
  /\ consumed \in SUBSET Message /\ acked \in SUBSET Message
  /\ worker \in [Worker -> [pc: {"waiting", "look", "insert", "mail", "ack"}, on: SUBSET Message]]
  /\ preference \in [Reader -> [there: BOOLEAN, on: SUBSET Channel]]
  /\ inbox \in [Row -> Nat] /\ seen \in SUBSET Row
  /\ mailed \in [Message -> Nat]
  /\ crashes \in 0 .. MaxCrashes /\ changes \in 0 .. MaxChanges
  /\ disabled \in SUBSET (Reader \X Channel)

(* Whoever an event names has exactly one row for it in each channel,      *)
(* unless they have disabled that channel at some time, and nobody else    *)
(* has one, however often and by however many workers it was handled; what *)
(* is read is in an inbox; and its mails are tried at most once.           *)
InboxExact ==
  /\ \A m \in Message :
       /\ m \in consumed => \A r \in Rows(m) : <<r[2], r[3]>> \notin disabled => inbox[r] = 1
       /\ \A r \in {m} \X Reader \X Channel :
            inbox[r] <= (IF m \in consumed /\ r \in Rows(m) THEN 1 ELSE 0)
       /\ m \in acked => m \in consumed \/ ~Recorded(m)
       /\ mailed[m] <= (IF m \in consumed /\ SendsMail(message[m]) THEN 1 ELSE 0)
  /\ \A r \in seen : inbox[r] > 0
=============================================================================
