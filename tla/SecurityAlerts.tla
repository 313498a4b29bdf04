--------------------------- MODULE SecurityAlerts ---------------------------
(***************************************************************************)
(* The Security Monitoring Service (apps/security-monitoring-service):     *)
(* rules, counters and alerts (monitoring.service.ts), and its consumer of *)
(* security events (monitoring-events.consumer.ts).                        *)
(*                                                                         *)
(* One actor and one type of rule; the events of the other type come from  *)
(* another queue and concern other rules.  Several events are handled at   *)
(* the same time.  A handler finds the rules, and for each one counts the  *)
(* event, raises an alert unless one is open, publishes a page without     *)
(* waiting, and revokes the actor's sessions if the rule says so.  Counting *)
(* and raising are one transaction, which holds the row of the counter and *)
(* nothing else until it commits.  The event is recorded as consumed last  *)
(* of all, so that after a crash it is delivered, and counted, once more;  *)
(* and a channel that is lost while its handler runs on has the event      *)
(* handled twice.  Events can also be counted by hand (recordEvent).       *)
(* Descriptions and metadata are left out.                                 *)
(*                                                                         *)
(* OpenAlertIgnored is a mutated form of the definition it precedes; no    *)
(* action uses it.                                                         *)
(***************************************************************************)
EXTENDS ServiceConstants

CONSTANTS
  Worker,        \* handlers that may run at the same time
  Rule,
  Incident,      \* the events: failed logins, or denied accesses
  Window,        \* time windows of the rules
  MaxThreshold,  \* bound: thresholds
  MaxCount,      \* bound: a counter
  MaxAlerts,     \* bound: alerts
  MaxRepairs,    \* bound: changes of rules and alerts by hand
  MaxFailures    \* bound: times a handler throws or stops

VARIABLES
  rules,    \* SecurityRule
  counter,  \* SecurityEventCounter, by rule and window
  alerts,   \* SecurityAlert
  incident, \* where each event is, and the window of its time
  handler,  \* what each handler is doing
  recorder, \* what a request that counts by hand is doing
  pages,    \* how often the page of an alert was published
  repairs, failures,
  owed,     \* history: <<event, rule>> that ask for a revocation not attempted yet
  doubled,  \* history: events that two handlers had at the same time
  touched,  \* history: rules disabled or deleted at some time
  torn      \* history: rules whose alert was not raised because a request stopped

alerting == <<rules, counter, alerts, incident, handler, recorder, pages, repairs, failures,
              owed, doubled, touched, torn>>
-----------------------------------------------------------------------------
Alert == 1 .. MaxAlerts

Vacant == [pc |-> "vacant", todo |-> {}, rule |-> {}, event |-> {}, alert |-> 0]

NoRule == [is |-> "none", enabled |-> FALSE, threshold |-> MaxThreshold, blocks |-> FALSE, mails |-> FALSE]

NoAlert == [rule |-> {}, status |-> "none", by |-> {}]

Init ==
  /\ rules = [r \in Rule |-> NoRule]
  /\ counter = [r \in Rule |-> [w \in Window |-> 0]]
  /\ alerts = [a \in Alert |-> NoAlert]
  /\ incident \in [Incident -> [at: {"queued"}, window: Window]]
  /\ handler = [h \in Worker |-> Vacant]
  /\ recorder = Vacant
  /\ pages = [a \in Alert |-> 0]
  /\ repairs = 0 /\ failures = 0
  /\ owed = {} /\ doubled = {} /\ touched = {} /\ torn = {}

history == <<owed, doubled, touched, torn>>
-----------------------------------------------------------------------------
(* createRule, toggleRule, setRuleEmail: by an administrator.  Threshold,  *)
(* window and action are not changed later.                                *)
Repair == repairs < MaxRepairs /\ repairs' = repairs + 1

CreateRule(r) ==
  /\ rules[r] = NoRule
  /\ \E n \in 1 .. MaxThreshold, blocks \in BOOLEAN :
       rules' = [rules EXCEPT ![r] = [is |-> "there", enabled |-> TRUE, threshold |-> n,
                                      blocks |-> blocks, mails |-> TRUE]]
  /\ UNCHANGED <<counter, alerts, incident, handler, recorder, pages, repairs, failures, history>>

ToggleRule(r) ==
  /\ rules[r].is = "there"
  /\ Repair
  /\ rules' = [rules EXCEPT ![r].enabled = ~@]
  /\ touched' = touched \cup {r}
  /\ UNCHANGED <<counter, alerts, incident, handler, recorder, pages, failures, owed, doubled, torn>>

SetRuleEmail(r) ==
  /\ rules[r].is = "there"
  /\ Repair
  /\ rules' = [rules EXCEPT ![r].mails = ~@]
  /\ UNCHANGED <<counter, alerts, incident, handler, recorder, pages, failures, history>>

(* The row of a counter is locked by a transaction that has counted and    *)
(* is going to raise an alert.                                             *)
Locked(r, w) ==
  \E h \in Worker : handler[h].pc = "raise" /\ handler[h].rule = {r}
                   /\ \A e \in handler[h].event : incident[e].window = w

(* deleteRule: with its counters, in one transaction; its alerts stay. *)
DeleteRule(r) ==
  /\ rules[r].is = "there"
  /\ \A w \in Window : ~Locked(r, w)
  /\ Repair
  /\ rules' = [rules EXCEPT ![r].is = "deleted", ![r].enabled = FALSE]
  /\ counter' = [counter EXCEPT ![r] = [w \in Window |-> 0]]
  /\ touched' = touched \cup {r}
  /\ UNCHANGED <<alerts, incident, handler, recorder, pages, failures, owed, doubled, torn>>

(* resolveAlert: whatever its status. *)
ResolveAlert(a) ==
  /\ alerts[a].status = "OPEN"
  /\ Repair
  /\ alerts' = [alerts EXCEPT ![a].status = "RESOLVED"]
  /\ UNCHANGED <<rules, counter, incident, handler, recorder, pages, failures, history>>
-----------------------------------------------------------------------------
Do(h, r) == handler' = [handler EXCEPT ![h] = r]

(* isUnconsumed. *)
Deliver(h, e) ==
  /\ handler[h] = Vacant
  /\ incident[e].at = "queued"
  /\ Do(h, [Vacant EXCEPT !.pc = "rules", !.event = {e}])
  /\ doubled' = IF \E k \in Worker : e \in handler[k].event THEN doubled \cup {e} ELSE doubled
  /\ UNCHANGED <<rules, counter, alerts, incident, recorder, pages, repairs, failures, owed, touched, torn>>

FindRules(h) ==
  /\ handler[h].pc = "rules"
  /\ Do(h, [handler[h] EXCEPT !.pc = "count", !.todo = {r \in Rule : rules[r].enabled}])
  /\ UNCHANGED <<rules, counter, alerts, incident, recorder, pages, repairs, failures, history>>

Counted(r, w) == ~Locked(r, w) /\ counter[r][w] < MaxCount /\ counter' = [counter EXCEPT ![r][w] = @ + 1]

ReachesThreshold(r, w) == counter[r][w] + 1 >= rules[r].threshold

Open(r) == {a \in Alert : alerts[a].rule = {r} /\ alerts[a].status = "OPEN"}

Free(a) == alerts[a].status = "none" /\ \A b \in 1 .. a - 1 : alerts[b].status # "none"

NewAlert(r, by) == [rule |-> {r}, status |-> "OPEN", by |-> by]

After(h, r) == [handler[h] EXCEPT !.todo = @ \ {r}]

(* processRuleType: the transaction of one rule, up to its query for an    *)
(* open alert.  The counter of a rule deleted meanwhile begins again.      *)
CountOnly(h, e, r) ==
  /\ ~ReachesThreshold(r, incident[e].window)
  /\ Do(h, After(h, r))
  /\ UNCHANGED owed

OpenAlertIgnored(h, e, r) ==
  /\ ReachesThreshold(r, incident[e].window)
  /\ Open(r) # {}
  /\ Do(h, After(h, r))
  /\ UNCHANGED owed

AlertIsOpen(h, e, r) ==
  /\ ReachesThreshold(r, incident[e].window)
  /\ Open(r) # {}
  /\ IF rules[r].blocks
     THEN /\ Do(h, [After(h, r) EXCEPT !.pc = "revoke", !.rule = {r}])
          /\ owed' = owed \cup {<<e, r>>}
     ELSE Do(h, After(h, r)) /\ UNCHANGED owed

NoAlertIsOpen(h, e, r) ==
  /\ ReachesThreshold(r, incident[e].window)
  /\ Open(r) = {}
  /\ Do(h, [After(h, r) EXCEPT !.pc = "raise", !.rule = {r}])
  /\ UNCHANGED owed

CountEvent(h) ==
  /\ handler[h].pc = "count"
  /\ \E e \in handler[h].event, r \in handler[h].todo :
       /\ Counted(r, incident[e].window)
       /\ CountOnly(h, e, r) \/ AlertIsOpen(h, e, r) \/ NoAlertIsOpen(h, e, r)
  /\ UNCHANGED <<rules, alerts, incident, recorder, pages, repairs, failures, doubled, touched, torn>>

(* The alert is inserted, and the transaction commits. *)
RaiseAlert(h) ==
  /\ handler[h].pc = "raise"
  /\ \E e \in handler[h].event, r \in handler[h].rule, a \in Alert :
       /\ Free(a)
       /\ alerts' = [alerts EXCEPT ![a] = NewAlert(r, {incident[e].window})]
       /\ Do(h, [handler[h] EXCEPT !.pc = "publish", !.alert = a])
       /\ owed' = IF rules[r].blocks THEN owed \cup {<<e, r>>} ELSE owed
  /\ UNCHANGED <<rules, counter, incident, recorder, pages, repairs, failures, doubled, touched, torn>>

(* The page is published, or lost: nobody waits for it. *)
PublishAlert(h) ==
  /\ handler[h].pc = "publish"
  /\ \E n \in {0, 1} : pages' = [pages EXCEPT ![handler[h].alert] = @ + n]
  /\ Do(h, [handler[h] EXCEPT !.alert = 0, !.pc =
              IF \E r \in handler[h].rule : rules[r].blocks THEN "revoke" ELSE "count"])
  /\ UNCHANGED <<rules, counter, alerts, incident, recorder, repairs, failures, history>>

(* revokeAllSessions is attempted; its failure is ignored. *)
RevokeAllSessions(h) ==
  /\ handler[h].pc = "revoke"
  /\ Do(h, [handler[h] EXCEPT !.pc = "count", !.rule = {}])
  /\ owed' = owed \ (Incident \X handler[h].rule)
  /\ UNCHANGED <<rules, counter, alerts, incident, recorder, pages, repairs, failures, doubled, touched, torn>>

(* The event is recorded, unless it is already: then the handler throws,   *)
(* and finds it consumed when it is delivered again.                       *)
RecordConsumed(h) ==
  /\ handler[h].pc = "count"
  /\ handler[h].todo = {}
  /\ incident' = [e \in Incident |-> IF e \in handler[h].event THEN [incident[e] EXCEPT !.at = "consumed"]
                                                               ELSE incident[e]]
  /\ Do(h, Vacant)
  /\ UNCHANGED <<rules, counter, alerts, recorder, pages, repairs, failures, history>>

(* The handler throws or its process stops: its transaction is rolled      *)
(* back, and the event delivered again or after too many attempts put      *)
(* aside.                                                                  *)
Redeliver(h) ==
  /\ handler[h] # Vacant
  /\ failures < MaxFailures
  /\ failures' = failures + 1
  /\ Do(h, Vacant)
  /\ \E e \in handler[h].event :
       /\ counter' = IF handler[h].pc = "raise"
                     THEN [r \in Rule |-> IF r \in handler[h].rule
                                          THEN [counter[r] EXCEPT ![incident[e].window] = @ - 1]
                                          ELSE counter[r]]
                     ELSE counter
       /\ \E at \in {"queued", "dead"} :
            incident' = IF incident[e].at = "queued" THEN [incident EXCEPT ![e].at = at] ELSE incident
  /\ UNCHANGED <<rules, alerts, recorder, pages, repairs, history>>
-----------------------------------------------------------------------------
(* recordEvent: count, then raise, in two statements and whether or not an *)
(* alert is open; the window is that of the clock.                         *)
ReadRule(r) ==
  /\ recorder = Vacant
  /\ rules[r].enabled
  /\ Repair
  /\ recorder' = [Vacant EXCEPT !.pc = "count", !.rule = {r}]
  /\ UNCHANGED <<rules, counter, alerts, incident, handler, pages, failures, history>>

CountByHand ==
  /\ recorder.pc = "count"
  /\ \E r \in recorder.rule, w \in Window :
       /\ Counted(r, w)
       /\ recorder' = IF ReachesThreshold(r, w) THEN [recorder EXCEPT !.pc = "raise"] ELSE Vacant
  /\ UNCHANGED <<rules, alerts, incident, handler, pages, repairs, failures, history>>

RaiseByHand ==
  /\ recorder.pc = "raise"
  /\ \E r \in recorder.rule, a \in Alert : Free(a) /\ alerts' = [alerts EXCEPT ![a] = NewAlert(r, {})]
  /\ recorder' = Vacant
  /\ UNCHANGED <<rules, counter, incident, handler, pages, repairs, failures, history>>

StopByHand ==
  /\ recorder # Vacant
  /\ recorder' = Vacant
  /\ torn' = IF recorder.pc = "raise" THEN torn \cup recorder.rule ELSE torn
  /\ UNCHANGED <<rules, counter, alerts, incident, handler, pages, repairs, failures, owed, doubled, touched>>
-----------------------------------------------------------------------------
Next ==
  \/ \E r \in Rule : CreateRule(r) \/ ToggleRule(r) \/ SetRuleEmail(r) \/ DeleteRule(r) \/ ReadRule(r)
  \/ \E a \in Alert : ResolveAlert(a)
  \/ \E h \in Worker :
       \/ \E e \in Incident : Deliver(h, e)
       \/ FindRules(h) \/ CountEvent(h) \/ RaiseAlert(h) \/ PublishAlert(h) \/ RevokeAllSessions(h)
       \/ RecordConsumed(h) \/ Redeliver(h)
  \/ CountByHand \/ RaiseByHand \/ StopByHand

Spec == Init /\ [][Next]_alerting
-----------------------------------------------------------------------------
(* Rows, and what handlers and a request are doing, are well typed. *)
DoingType ==
  [pc: {"vacant", "rules", "count", "raise", "publish", "revoke"}, rule: SUBSET Rule,
   todo: SUBSET Rule, event: SUBSET Incident, alert: 0 .. MaxAlerts]

TypeOK ==
  /\ rules \in [Rule -> [is: {"none", "there", "deleted"}, enabled: BOOLEAN, threshold: 1 .. MaxThreshold,
                         blocks: BOOLEAN, mails: BOOLEAN]]
  /\ counter \in [Rule -> [Window -> 0 .. MaxCount]]
  /\ alerts \in [Alert -> [rule: SUBSET Rule, status: {"none", "OPEN", "RESOLVED"}, by: SUBSET Window]]
  /\ incident \in [Incident -> [at: {"queued", "consumed", "dead"}, window: Window]]
  /\ handler \in [Worker -> DoingType] /\ recorder \in DoingType
  /\ pages \in [Alert -> 0 .. 1]
  /\ repairs \in 0 .. MaxRepairs /\ failures \in 0 .. MaxFailures
  /\ owed \in SUBSET (Incident \X Rule)
  /\ doubled \in SUBSET Incident /\ touched \in SUBSET Rule /\ torn \in SUBSET Rule

(* A rule whose counter has reached its threshold has an alert, whoever    *)
(* counted, unless somebody is between counting and raising, or a request  *)
(* stopped there.  Of the alerts the consumer raised for the events of one *)
(* window at most one is open, however often and concurrently events are   *)
(* handled (for those of two windows two may be), and none is paged twice. *)
AlertsRaised ==
  /\ \A r \in Rule :
       /\ (\E w \in Window : counter[r][w] >= rules[r].threshold /\ ~Locked(r, w)) =>
            \/ \E a \in Alert : alerts[a].rule = {r}
            \/ r \in torn
            \/ recorder.pc = "raise" /\ r \in recorder.rule
       /\ \A w \in Window : Cardinality({a \in Open(r) : alerts[a].by = {w}}) <= 1
  /\ \A a \in Alert : pages[a] <= 1

(* Once an event that reached the threshold of a blocking rule is          *)
(* consumed, the revocation of the actor's sessions has been attempted,    *)
(* although a handler may have stopped between raising the alert and       *)
(* revoking; unless the rule was disabled or deleted, or two handlers had  *)
(* the event at the same time.                                             *)
BlockCarriedOut ==
  \A e \in Incident, r \in Rule :
    <<e, r>> \in owed /\ incident[e].at = "consumed" => r \in touched \/ e \in doubled
=============================================================================
