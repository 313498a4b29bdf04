------------------------------- MODULE Gateway -------------------------------
(***************************************************************************)
(* The API Gateway (apps/api-gateway/src): every request of a browser is   *)
(* counted (rate-limit.guard.ts), its access token checked                 *)
(* (jwt-auth.guard.ts), the boundary of the public API enforced, and the   *)
(* request passed on to a service (gateway.controller.ts) - or answered    *)
(* with an overview that is built from several services and kept for a     *)
(* while (statistics.service.ts).                                          *)
(*                                                                         *)
(* Guards and policy run without a pause, so that they are one step.  A    *)
(* path stands for the paths that the policy treats alike, an overview for *)
(* one range of dates.  What is over is forgotten: an answered request     *)
(* keeps its status only.  A bucket, in the code the times of requests in  *)
(* order, is a set of requests, each with the time it arrived at.          *)
(*                                                                         *)
(* FailQuietly is a mutated form of the definition it precedes; no action  *)
(* uses it.                                                                *)
(***************************************************************************)
EXTENDS ServiceConstants

CONSTANTS
  Origin,      \* IP addresses
  User,
  Admin,       \* the users who are administrators
  MaxArrivals, \* bound: requests
  Window,      \* RATE_LIMIT_WINDOW_MS
  MaxRequests, \* RATE_LIMIT_MAX
  Ttl,         \* STATISTICS_CACHE_TTL_MS
  BuildTime,   \* the longest a build runs: every call of it has a timeout
  MaxEntries,  \* STATISTICS_CACHE_MAX_ENTRIES
  MaxTime      \* bound: the last tick

VARIABLES
  clock,
  bucket,    \* buckets: the requests that count, by origin
  arrival,   \* when each of them was admitted
  request,   \* what becomes of each request
  build,     \* the overviews begun, by the request that began them
  overview,  \* overviewCache: which build a key has, and until when
  admitted   \* history: all admitted requests, by origin

gateway == <<clock, bucket, arrival, request, build, overview, admitted>>
-----------------------------------------------------------------------------
Request == 1 .. MaxArrivals  \* in the order in which they arrive

Path == {"login", "register as admin", "internal", "control", "audit", "inbox", "content",
         "my overview", "overview"}

(* An organisation's overview is shared by all administrators. *)
Key == User \cup {"org"}

Status == {"none", "too many", "unauthenticated", "forbidden",     \* said by the gateway
           "ok", "denied", "missing", "unavailable"}               \* what a service said, mapped

Fresh == [pc |-> "new", path |-> "login", who |-> Nobody, names |-> Nobody, status |-> "none", build |-> {}]

NoBuild == [key |-> "none", begun |-> 0, state |-> "none"]
Failure == {"refused", "failed"}
NoOverview == [build |-> {}, until |-> 0]

Init ==
  /\ clock = 0
  /\ bucket = [o \in Origin |-> {}] /\ admitted = [o \in Origin |-> {}]
  /\ arrival = [r \in Request |-> 0]
  /\ request = [r \in Request |-> Fresh]
  /\ build = [r \in Request |-> NoBuild]
  /\ overview = [k \in Key |-> NoOverview]
-----------------------------------------------------------------------------
(* canActivate of the rate limit: a sliding window per origin, since the   *)
(* user is not known yet when it runs.                                     *)
Prune(S) == {r \in S : arrival[r] + Window >= clock}

WithinLimit(o) == Cardinality(Prune(bucket[o])) < MaxRequests

(* canActivate of the JWT guard; only auth is public.  `Nobody` has no     *)
(* valid token.                                                            *)
Authenticated(who, path) == path \in {"login", "register as admin"} \/ who # Nobody

(* authorizeAdminRegister, and enforcePublicAuthorizationPolicy: internal  *)
(* endpoints are never public; users, alerts and the audit chain are for   *)
(* administrators; anybody else reads their own inbox and audit trail.     *)
(* An overview of the organisation is for administrators.                  *)
Permitted(who, path, names) ==
  CASE path = "internal" -> FALSE
    [] path \in {"register as admin", "control", "overview"} -> who \in Admin
    [] path = "inbox" -> who \in Admin \/ names = who
    [] path = "audit" -> who \in Admin \/ names \in {who, Nobody}
    [] OTHER -> TRUE

(* proxy: the actor of an employee's audit query is forced. *)
Scope(who, path, names) == IF path = "audit" /\ who \notin Admin THEN who ELSE names

Answer(r, status) == request' = [request EXCEPT ![r] = [Fresh EXCEPT !.pc = "answered", !.status = status]]

Forward(r, who, path, names) ==
  request' = [request EXCEPT ![r] = [Fresh EXCEPT !.pc = "upstream", !.path = path, !.who = who,
                                                  !.names = Scope(who, path, names)]]
-----------------------------------------------------------------------------
(* getOverview: the promise is shared until it expires, from the moment it *)
(* is begun.                                                               *)
KeyOf(who, path) == IF path = "overview" THEN "org" ELSE who

Cached(k) == overview[k].build # {} /\ overview[k].until > clock

(* evictExpiredEntries: when there are too many, those that expired go,    *)
(* and the oldest of the others.                                           *)
Entries(c) == {k \in Key : c[k].build # {}}
Lapsed(c) == {k \in Entries(c) : c[k].until <= clock}

Evicted(c) ==
  IF Cardinality(Entries(c)) <= MaxEntries THEN {c}
  ELSE LET left == Entries(c) \ Lapsed(c)
           oldest == {k \in left : \A l \in left : c[k].until <= c[l].until}
       IN  {[k \in Key |-> IF k \in Lapsed(c) \cup {o} THEN NoOverview ELSE c[k]] : o \in oldest}

Overview(r, who, path) ==
  LET k == KeyOf(who, path)
      waiting(b) == [Fresh EXCEPT !.pc = "waiting", !.path = path, !.who = who, !.build = b]
  IN  IF Cached(k)
      THEN /\ request' = [request EXCEPT ![r] = waiting(overview[k].build)]
           /\ UNCHANGED <<build, overview>>
      ELSE /\ request' = [request EXCEPT ![r] = waiting({r})]
           /\ build' = [build EXCEPT ![r] = [key |-> k, begun |-> clock, state |-> "running"]]
           /\ overview' \in Evicted([overview EXCEPT ![k] = [build |-> {r}, until |-> clock + Ttl]])

(* buildOverview answered: every service has, and a failure of one is the  *)
(* failure of all, a 403 or anything else.  A failed promise drops         *)
(* whatever its key has by then.                                           *)
FailQuietly(b) ==
  /\ build[b].state = "running"
  /\ \/ build' = [build EXCEPT ![b].state = "done"]
     \/ \E state \in Failure : build' = [build EXCEPT ![b].state = state]
  /\ UNCHANGED <<clock, bucket, arrival, request, overview, admitted>>

Finish(b) ==
  /\ build[b].state = "running"
  /\ \/ build' = [build EXCEPT ![b].state = "done"] /\ UNCHANGED overview
     \/ /\ \E state \in Failure : build' = [build EXCEPT ![b].state = state]
        /\ overview' = [overview EXCEPT ![build[b].key] = NoOverview]
  /\ UNCHANGED <<clock, bucket, arrival, request, admitted>>

(* What was built is handed out; a caller who finds a promise that failed  *)
(* fails with it: 403 stays, and whatever else it was is 503.              *)
Answers == [done |-> "ok", refused |-> "denied", failed |-> "unavailable"]

HandOut(r) ==
  /\ request[r].pc = "waiting"
  /\ \E b \in request[r].build :
       /\ build[b].state \in DOMAIN Answers
       /\ Answer(r, Answers[build[b].state])
  /\ UNCHANGED <<clock, bucket, arrival, build, overview, admitted>>
-----------------------------------------------------------------------------
Arrive(r, o, who, path, names) ==
  /\ request[r] = Fresh /\ \A q \in 1 .. r - 1 : request[q] # Fresh
  /\ names # Nobody => path \in {"inbox", "audit"}
  /\ IF ~WithinLimit(o)
     THEN /\ bucket' = [bucket EXCEPT ![o] = Prune(@)]
          /\ Answer(r, "too many")
          /\ UNCHANGED <<arrival, build, overview, admitted>>
     ELSE /\ bucket' = [bucket EXCEPT ![o] = Prune(@) \cup {r}]
          /\ arrival' = [arrival EXCEPT ![r] = clock]
          /\ admitted' = [admitted EXCEPT ![o] = @ \cup {r}]
          /\ IF ~Authenticated(who, path)
             THEN Answer(r, "unauthenticated") /\ UNCHANGED <<build, overview>>
             ELSE IF ~Permitted(who, path, names)
                  THEN Answer(r, "forbidden") /\ UNCHANGED <<build, overview>>
                  ELSE IF path \in {"my overview", "overview"}
                       THEN Overview(r, who, path)
                       ELSE Forward(r, who, path, names) /\ UNCHANGED <<build, overview>>
  /\ UNCHANGED clock

(* A service answers - mapStatus: 403 stays, whatever is 5xx becomes 503,  *)
(* the rest passes - or nothing comes within the timeout of the route:     *)
(* 503, whether or not the service does what it was asked.                 *)
Reply(r) ==
  /\ request[r].pc = "upstream"
  /\ \E status \in {"ok", "denied", "missing", "unavailable"} : Answer(r, status)
  /\ UNCHANGED <<clock, bucket, arrival, build, overview, admitted>>

(* Every minute the buckets are pruned too. *)
CleanUp ==
  /\ bucket' = [o \in Origin |-> Prune(bucket[o])]
  /\ bucket' # bucket
  /\ UNCHANGED <<clock, arrival, request, build, overview, admitted>>

Tick ==
  /\ clock < MaxTime
  /\ \A b \in Request : build[b].state = "running" => clock < build[b].begun + BuildTime
  /\ clock' = clock + 1
  /\ UNCHANGED <<bucket, arrival, request, build, overview, admitted>>
-----------------------------------------------------------------------------
Next ==
  \/ \E r \in Request :
       \/ \E o \in Origin, who \in User \cup {Nobody}, p \in Path, n \in User \cup {Nobody} : Arrive(r, o, who, p, n)
       \/ Reply(r) \/ HandOut(r) \/ Finish(r)
  \/ CleanUp \/ Tick

Spec == Init /\ [][Next]_gateway
-----------------------------------------------------------------------------
(* Requests, buckets and overviews are well typed. *)
TypeOK ==
  /\ clock \in 0 .. MaxTime
  /\ bucket \in [Origin -> SUBSET Request] /\ admitted \in [Origin -> SUBSET Request]
  /\ arrival \in [Request -> 0 .. MaxTime]
  /\ request \in [Request ->
       [pc: {"new", "upstream", "waiting", "answered"}, path: Path, who: User \cup {Nobody},
        names: User \cup {Nobody}, status: Status, build: SUBSET Request]]
  /\ build \in [Request -> [key: Key \cup {"none"}, begun: 0 .. MaxTime, state: {"none", "running", "done"} \cup Failure]]
  /\ overview \in [Key -> [build: SUBSET Request, until: 0 .. MaxTime + Ttl]]

(* No window of time admits more requests of an origin than the limit,     *)
(* however they straddle the moments at which the buckets are pruned.      *)
RateHonoured ==
  \A o \in Origin, t \in 0 .. MaxTime :
    Cardinality({r \in admitted[o] : arrival[r] \in t .. t + Window}) <= MaxRequests

(* An overview is handed to whoever it was built for: it has the same key, *)
(* so that only administrators see the organisation's; it is no older than *)
(* it may be; and a build that failed is not found by anyone who comes     *)
(* later, nor by anybody's second request.                                 *)
OverviewSound ==
  /\ \A r \in Request : request[r].pc = "waiting" =>
       \E b \in request[r].build :
         /\ build[b].key = KeyOf(request[r].who, request[r].path)
         /\ build[b].key = "org" => request[r].who \in Admin
         /\ build[b].state # "none"
  /\ \A k \in Key : \A b \in overview[k].build :
       build[b].key = k /\ build[b].state \in {"running", "done"} /\ overview[k].until = build[b].begun + Ttl
=============================================================================
