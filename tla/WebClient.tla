------------------------------ MODULE WebClient ------------------------------
(***************************************************************************)
(* The Gateway client of the web application (frontend/web/src/api/        *)
(* client.ts, auth/session.ts): the requests of one browser tab, its       *)
(* stored pair of tokens, the one refresh they share, and the short cache  *)
(* of what was read.                                                       *)
(*                                                                         *)
(* A pair of tokens is the number of its issue; the server accepts a       *)
(* refresh token at most once (Sessions).  The data on the server is the   *)
(* number of changes made to it; what is read is that number.  Of a        *)
(* request that is over only what was read is kept.                        *)
(*                                                                         *)
(* InvalidateNothing is a mutated form of the definition it precedes; no   *)
(* action uses it.                                                         *)
(***************************************************************************)
EXTENDS ServiceConstants

CONSTANTS
  MaxCalls,  \* bound: requests of the tab
  MaxPairs,  \* bound: pairs of tokens
  MaxData    \* bound: changes of the data

VARIABLES
  stored,    \* the pair in sessionStorage, 0 when there is none
  live,      \* pairs whose refresh token is accepted
  issued,    \* how many pairs were issued
  refresh,   \* refreshPromise: the pair being exchanged, and what came of it
  call,      \* what each request is doing
  data,      \* changes made, by anybody
  cache,     \* getCache: the request whose promise is kept
  changed    \* history: the newest change of the tab made through request() and answered

web == <<stored, live, issued, refresh, call, data, cache, changed>>
-----------------------------------------------------------------------------
Call == 1 .. MaxCalls  \* in the order in which they are made

Kind == {"read", "change", "upload", "blob"}

NoRefresh == [of |-> 0, got |-> 0, done |-> FALSE]

Fresh == [pc |-> "new", kind |-> "read", pair |-> 0, again |-> FALSE, value |-> 0, floor |-> 0, on |-> {}]

Init ==
  /\ stored = 0 /\ live = {} /\ issued = 0
  /\ refresh = NoRefresh
  /\ call = [c \in Call |-> Fresh]
  /\ data = 0 /\ cache = {} /\ changed = 0
-----------------------------------------------------------------------------
(* The login form: what it is given is stored.  Like every request but a  *)
(* GET, login and refresh empty the cache.                                 *)
SignIn ==
  /\ stored = 0
  /\ issued < MaxPairs
  /\ issued' = issued + 1 /\ live' = live \cup {issued + 1} /\ stored' = issued + 1
  /\ cache' = {}
  /\ UNCHANGED <<refresh, call, data, changed>>

(* Others change the data too. *)
Others ==
  /\ data < MaxData
  /\ data' = data + 1
  /\ UNCHANGED <<stored, live, issued, refresh, call, cache, changed>>
-----------------------------------------------------------------------------
Begin(c) == call[c] = Fresh /\ \A b \in 1 .. c - 1 : call[b] # Fresh

(* request, requestFormWithProgress and requestBlob read the session, and  *)
(* send what they are asked with its access token.                         *)
Send(c, kind) ==
  /\ Begin(c)
  /\ stored # 0
  /\ call' = [call EXCEPT ![c] = [Fresh EXCEPT !.pc = "sent", !.kind = kind, !.pair = stored,
                                               !.floor = IF kind = "read" THEN changed ELSE 0]]
  /\ cache' = IF kind = "read" THEN {c} ELSE cache
  /\ UNCHANGED <<stored, live, issued, refresh, data, changed>>

(* cachedGet: the promise of an earlier read answers this one. *)
ReadCached(c) ==
  /\ Begin(c)
  /\ cache # {}
  /\ call' = [call EXCEPT ![c] = [Fresh EXCEPT !.pc = "shared", !.floor = changed, !.on = cache]]
  /\ UNCHANGED <<stored, live, issued, refresh, data, cache, changed>>

Get(c) == IF cache = {} THEN Send(c, "read") ELSE ReadCached(c)

(* After three seconds. *)
ForgetCached ==
  /\ cache # {}
  /\ cache' = {}
  /\ UNCHANGED <<stored, live, issued, refresh, call, data, changed>>

Share(c) ==
  /\ call[c].pc = "shared"
  /\ \E d \in call[c].on :
       /\ call[d].pc \in {"done", "failed"}
       /\ call' = [call EXCEPT ![c].pc = call[d].pc, ![c].value = call[d].value, ![c].on = {}]
  /\ UNCHANGED <<stored, live, issued, refresh, data, cache, changed>>
-----------------------------------------------------------------------------
(* The service reads or changes the data. *)
Serve(c) ==
  /\ call[c].pc = "sent"
  /\ \/ /\ call[c].kind \in {"read", "blob"}
        /\ call' = [call EXCEPT ![c].pc = "served", ![c].value = data]
        /\ UNCHANGED data
     \/ /\ call[c].kind \in Kind \ {"read"}
        /\ data < MaxData
        /\ data' = data + 1
        /\ call' = [call EXCEPT ![c].pc = "served", ![c].value = data']
  /\ UNCHANGED <<stored, live, issued, refresh, cache, changed>>

(* invalidateGetCache, after any successful request() but a GET.  An       *)
(* upload with progress and a POST that is answered with a file change the *)
(* data too, and leave the cache as it is.                                 *)
InvalidateNothing(c) == cache

Invalidate(c) == IF call[c].kind = "change" THEN {} ELSE cache

Over(c, pc) ==
  IF call[c].kind = "read"
  THEN [Fresh EXCEPT !.pc = pc, !.value = call[c].value, !.floor = call[c].floor]
  ELSE [Fresh EXCEPT !.pc = pc, !.kind = "blob"]

Receive(c) ==
  /\ call[c].pc = "served"
  /\ call' = [call EXCEPT ![c] = Over(c, "done")]
  /\ cache' = Invalidate(c)
  /\ changed' = IF call[c].kind = "change" /\ call[c].value > changed THEN call[c].value ELSE changed
  /\ UNCHANGED <<stored, live, issued, refresh, data>>

(* What failed is not kept - nor is what was read in its place since. *)
DropFailed(S) == IF \E c \in S : call[c].kind = "read" THEN {} ELSE cache

Fail(c) ==
  /\ call[c].pc = "sent"
  /\ call' = [call EXCEPT ![c] = Over(c, "failed")]
  /\ cache' = DropFailed({c})
  /\ UNCHANGED <<stored, live, issued, refresh, data, changed>>
-----------------------------------------------------------------------------
(* A 401: an access token may expire at any moment.  The first to have one *)
(* begins the refresh - with the pair that it was sent with - and the      *)
(* others wait for the same.  Only a file tries more than twice.           *)
Refused(c) ==
  /\ call[c].pc = "sent"
  /\ ~call[c].again \/ call[c].kind = "blob"
  /\ refresh' = IF refresh = NoRefresh THEN [NoRefresh EXCEPT !.of = call[c].pair] ELSE refresh
  /\ call' = [call EXCEPT ![c].pc = "refreshing"]
  /\ UNCHANGED <<stored, live, issued, data, cache, changed>>

(* The Authentication Service exchanges a refresh token that is live, and  *)
(* its answer arrives or is lost.                                          *)
Exchange ==
  /\ refresh # NoRefresh /\ ~refresh.done
  /\ \/ /\ refresh.of \in live /\ issued < MaxPairs
        /\ issued' = issued + 1
        /\ live' = (live \ {refresh.of}) \cup {issued + 1}
        /\ \E got \in {0, issued + 1} : refresh' = [refresh EXCEPT !.got = got, !.done = TRUE]
     \/ refresh' = [refresh EXCEPT !.done = TRUE] /\ UNCHANGED <<issued, live>>
  /\ UNCHANGED <<stored, call, data, cache, changed>>

(* The answer: the pair is stored, then whoever waits tries again with it, *)
(* or signs the tab out.                                                   *)
Refreshed ==
  /\ refresh.done
  /\ refresh' = NoRefresh
  /\ LET waiting == {c \in Call : call[c].pc = "refreshing"} IN
     IF refresh.got # 0
     THEN /\ stored' = refresh.got
          /\ call' = [c \in Call |-> IF c \in waiting
                       THEN [call[c] EXCEPT !.pc = "sent", !.pair = refresh.got, !.again = TRUE] ELSE call[c]]
          /\ cache' = {}
     ELSE /\ stored' = 0
          /\ call' = [c \in Call |-> IF c \in waiting THEN Over(c, "failed") ELSE call[c]]
          /\ cache' = DropFailed(waiting)
  /\ UNCHANGED <<live, issued, data, changed>>
-----------------------------------------------------------------------------
(* signOut of the shell: the server is told, if it can be, and the pair    *)
(* forgotten whatever it says.                                             *)
SignOut ==
  /\ stored # 0
  /\ stored' = 0
  /\ \/ live' = live \ {stored} /\ cache' = {}
     \/ UNCHANGED <<live, cache>>
  /\ UNCHANGED <<issued, refresh, call, data, changed>>
-----------------------------------------------------------------------------
Next ==
  \/ SignIn \/ Others \/ ForgetCached \/ Exchange \/ Refreshed \/ SignOut
  \/ \E c \in Call :
       \/ Get(c) \/ \E k \in Kind \ {"read"} : Send(c, k)
       \/ Share(c) \/ Serve(c) \/ Receive(c) \/ Fail(c) \/ Refused(c)

Spec == Init /\ [][Next]_web
-----------------------------------------------------------------------------
(* Tokens, requests and the cache are well typed. *)
TypeOK ==
  /\ stored \in 0 .. issued /\ issued \in 0 .. MaxPairs
  /\ live \in SUBSET (1 .. issued)
  /\ refresh \in [of: 0 .. issued, got: 0 .. issued, done: BOOLEAN]
  /\ call \in [Call -> [pc: {"new", "sent", "refreshing", "served", "shared", "done", "failed"},
                        kind: Kind, pair: 0 .. issued, again: BOOLEAN, value: 0 .. MaxData, floor: 0 .. MaxData,
                        on: SUBSET Call]]
  /\ data \in 0 .. MaxData /\ changed \in 0 .. MaxData
  /\ cache \in SUBSET Call

(* Whatever is read shows every change of this tab that was made through   *)
(* request() - by JSON or a plain form - and had been answered when it was *)
(* asked, whichever reads, refreshes, failures and changes ran in between. *)
(* An upload with progress and a POST that is answered with a file are no  *)
(* part of this: for three seconds after an earlier read, what they        *)
(* changed may be missed.                                                  *)
ReadsRequestChanges ==
  \A c \in Call : call[c].kind = "read" /\ call[c].pc = "done" => call[c].value >= call[c].floor
=============================================================================
