------------------------------ MODULE MCServices ------------------------------
(***************************************************************************)
(* One run for the smaller parts of the system, which keep no state in     *)
(* common: `part` says which one is explored, and the others stay as they  *)
(* began.                                                                  *)
(***************************************************************************)
EXTENDS Authority, TLC

CONSTANTS
  Rule, Incident, Period,                                       \* of SecurityAlerts
  MaxThreshold, MaxCount, MaxAlerts, MaxRepairs, MaxFailures,
  Message, Reader, Worker, MaxCrashes, MaxChanges,              \* of Notifications
  Signup, Address, MaxMails,                          \* of Accounts
  Origin, Window, MaxRequests, OverviewTtl, BuildTime,          \* of Gateway
  MaxEntries, MaxTime, MaxArrivals,
  MaxCalls, MaxPairs, MaxData                                   \* of WebClient

ASSUME ServicesAssumption ==
  /\ {MaxThreshold, MaxAlerts, MaxArrivals} \subseteq Nat \ {0}
  /\ {MaxCount, MaxRepairs, MaxFailures, MaxCrashes, MaxChanges, MaxMails, Window, MaxRequests,
      OverviewTtl, BuildTime, MaxEntries, MaxTime, MaxCalls, MaxPairs, MaxData} \subseteq Nat
  /\ "org" \notin User /\ "none" \notin User /\ Nobody \notin User  \* names of something else

VARIABLES
  part,
  rules, counter, alerts, incident, handler, recorder, pages, repairs, failures, owed, doubled, touched, missed,
  message, consumed, acked, worker, preference, inbox, seen, mailed, crashes, changes, disabled,
  account, entry, signup, code, resent, verifying, posting, codes, broken,
  clock, bucket, arrival, request, build, overview, admitted,
  stored, live, issued, refresh, call, data, cache, changed

alerting == <<rules, counter, alerts, incident, handler, recorder, pages, repairs, failures,
              owed, doubled, touched, missed>>
notifying == <<message, consumed, acked, worker, preference, inbox, seen, mailed, crashes, changes, disabled>>
accounts == <<account, entry, signup, code, resent, verifying, posting, codes, broken>>
gateway == <<clock, bucket, arrival, request, build, overview, admitted>>
web == <<stored, live, issued, refresh, call, data, cache, changed>>

A == INSTANCE SecurityAlerts WITH Window <- Period, torn <- missed
N == INSTANCE Notifications
C == INSTANCE Accounts WITH mailed <- codes
G == INSTANCE Gateway WITH Ttl <- OverviewTtl
W == INSTANCE WebClient

Initially ==
  /\ part \in {"alerts", "notifications", "accounts", "gateway", "web", "authority"}
  /\ A!Init /\ N!Init /\ C!Init /\ G!Init /\ W!Init /\ Init
  /\ part # "authority" => caller \in Admin
  /\ \A i \in Incident : part # "alerts" \/ i = (CHOOSE j \in Incident : TRUE)
                         => incident[i].window = (CHOOSE p \in Period : TRUE)

(* Two requests of any kind; what the last asks for is what the others     *)
(* can have spoilt.                                                        *)
LastIsOverview == request'[MaxArrivals].path \in {"login", "my overview", "overview"}
LastReads == call'[MaxCalls].kind = "read"

NextOfOne ==
  \/ part = "alerts" /\ A!Next /\ UNCHANGED <<part, notifying, accounts, gateway, web, authority>>
  \/ part = "notifications" /\ N!Next /\ UNCHANGED <<part, alerting, accounts, gateway, web, authority>>
  \/ part = "accounts" /\ C!Next /\ UNCHANGED <<part, alerting, notifying, gateway, web, authority>>
  \/ part = "gateway" /\ G!Next /\ LastIsOverview /\ UNCHANGED <<part, alerting, notifying, accounts, web, authority>>
  \/ part = "web" /\ W!Next /\ LastReads /\ UNCHANGED <<part, alerting, notifying, accounts, gateway, authority>>
  \/ part = "authority" /\ Next /\ UNCHANGED <<part, alerting, notifying, accounts, gateway, web>>

SpecOfOne == Initially /\ [][NextOfOne]_<<part, alerting, notifying, accounts, gateway, web, authority>>

(* Handlers are interchangeable, and so are registrations. *)
Interchangeable == Permutations(Worker) \cup Permutations(Signup)
-----------------------------------------------------------------------------
(* SecurityAlerts: what reaches a threshold has its alert, and whoever is  *)
(* to be blocked is.                                                       *)
AlertsFollow == part = "alerts" => A!AlertsRaised /\ A!BlockCarriedOut

(* Notifications: whoever an event names is told once. *)
InboxExact == part = "notifications" => N!InboxExact

(* Accounts: no registration leaves an account that the directory does not *)
(* know, unless a process stopped or the compensation failed.              *)
NoAccountAlone == part = "accounts" => C!NoAccountAlone

(* Gateway: no window of time admits more than the limit, and an overview  *)
(* is handed to whoever it was built for.                                  *)
GatewaySound == part = "gateway" => G!RateHonoured /\ G!OverviewSound

(* WebClient: a tab reads the changes it made through request(). *)
ReadsRequestChanges == part = "web" => W!ReadsRequestChanges
=============================================================================
