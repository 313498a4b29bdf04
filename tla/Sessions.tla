------------------------------ MODULE Sessions ------------------------------
(***************************************************************************)
(* Sessions of the Authentication Service: login, refresh, logout and      *)
(* revocation (apps/authentication-identity-service/src/auth/              *)
(* auth.service.ts), against the accounts that the user directory locks    *)
(* and gives capabilities (apps/user-role-management-service).             *)
(*                                                                         *)
(* A request asks the directory, Postgres and Redis one after the other,   *)
(* with no transaction.  Requests run at the same time; op[p] is what      *)
(* request p has learnt.  Wrong credentials, an address not yet verified,  *)
(* a directory or store that does not answer and a crash all end it where  *)
(* it stands: Stop.                                                        *)
(*                                                                         *)
(* A token stands for the pair it is issued in: the row of RefreshToken    *)
(* and the claims of the access token.  The copy of locked_at that the     *)
(* credential store keeps is left out: a request only compares it with the *)
(* directory to see whether to update it.                                  *)
(*                                                                         *)
(* LockStatesOpen, RotateNothing and RevocableLogins are mutated forms of  *)
(* the definitions they precede; no action uses them.                      *)
(***************************************************************************)
EXTENDS FiniteSets

CONSTANTS
  Op,         \* requests that may run at the same time
  User,
  Token,      \* bound: the pairs that can be issued
  None,       \* no token
  Capability

ASSUME SessionConstants == None \notin Token

VARIABLES
  locked,   \* the directory: locked_at of each user
  holds,    \* the directory: the capabilities of each user
  token,    \* the credential store: RefreshToken
  session,  \* Redis: the tokens that have a session:* key
  given,    \* the tokens whose pair has reached the client
  op,       \* what each request is doing
  swept,    \* history: the locked users whose tokens were all revoked since
  cleared   \* history: the tokens whose session a logout has deleted

directory == <<locked, holds>>
stores == <<token, session>>
history == <<swept, cleared>>
vars == <<directory, stores, given, op, history>>
-----------------------------------------------------------------------------
Idle   == [pc |-> "idle"]
Unused == [status |-> "unused"]

(* Why revoked_at is set, if it is. *)
Status == {"live", "expired", "spent", "revoked"}

Row == [status: Status, user: User, caps: SUBSET Capability, parent: Token \cup {None}]

Issued == {t \in Token : token[t] # Unused}

Live == {t \in Issued : token[t].status = "live"}

Owned(u) == {t \in Issued : token[t].user = u}

Init ==
  /\ locked = [u \in User |-> FALSE]
  /\ holds \in [User -> SUBSET Capability]
  /\ token = [t \in Token |-> Unused]
  /\ session = {}
  /\ given = {}
  /\ op = [p \in Op |-> Idle]
  /\ swept = {}
  /\ cleared = {}
-----------------------------------------------------------------------------
(* The directory.  lockUser and unlockUser read the user before they write *)
(* locked_at; what they write does not depend on it.                       *)
Concerns(p, u) == op[p] # Idle /\ op[p].user = u

Lock(u) ==
  /\ ~locked[u]
  /\ locked' = [locked EXCEPT ![u] = TRUE]
  /\ UNCHANGED <<holds, stores, given, op, history>>

Unlock(u) ==
  /\ locked[u]
  /\ locked' = [locked EXCEPT ![u] = FALSE]
  /\ op' = [p \in Op |-> IF Concerns(p, u) THEN [op[p] EXCEPT !.unlocked = TRUE] ELSE op[p]]
  /\ swept' = swept \ {u}
  /\ UNCHANGED <<holds, stores, given, cleared>>

GrantCapability(u, c) ==
  /\ c \notin holds[u]
  /\ holds' = [holds EXCEPT ![u] = @ \cup {c}]
  /\ op' = [p \in Op |-> IF Concerns(p, u) THEN [op[p] EXCEPT !.held = @ \cup {c}] ELSE op[p]]
  /\ UNCHANGED <<locked, stores, given, history>>

RevokeCapability(u, c) ==
  /\ c \in holds[u]
  /\ holds' = [holds EXCEPT ![u] = @ \ {c}]
  /\ UNCHANGED <<locked, stores, given, op, history>>
-----------------------------------------------------------------------------
Goto(p, pc) == op' = [op EXCEPT ![p].pc = pc]

(* A request for user u; refresh and logout have read the row of t.        *)
(* `unlocked` and `held` are history: what has been so since it began.     *)
Begin(p, pc, u, t) ==
  /\ op[p] = Idle
  /\ op' = [op EXCEPT ![p] =
       [pc |-> pc, user |-> u, token |-> t, caps |-> {}, keys |-> {},
        unlocked |-> ~locked[u], held |-> holds[u]]]
  /\ UNCHANGED <<directory, stores, given, history>>

Login(p, u) == Begin(p, "ask", u, None)

Refresh(p, t) ==
  /\ t \in given \cap Live
  /\ Begin(p, "ask", token[t].user, t)

Logout(p, t) ==
  /\ t \in given
  /\ token[t].status \in {"live", "expired"}
  /\ Begin(p, "logout", token[t].user, t)

RevokeAllSessions(p, u) == Begin(p, "revoke", u, None)

LockStatesOpen(u) == {locked[u], FALSE}

LockStates(u) == {locked[u]}   \* an error ends the request: Stop

(* synchronizeLockState *)
AskDirectory(p) ==
  LET o == op[p] IN
  /\ o.pc = "ask"
  /\ \E isLocked \in LockStates(o.user) :
       Goto(p, IF isLocked THEN "revoke" ELSE IF o.token = None THEN "capabilities" ELSE "rotate")
  /\ UNCHANGED <<directory, stores, given, history>>

RotateNothing(p) ==
  /\ op[p].pc = "rotate"
  /\ Goto(p, "capabilities")
  /\ UNCHANGED <<directory, stores, given, history>>

(* Unconditional: the row may have been revoked since it was read. *)
Rotate(p) ==
  /\ op[p].pc = "rotate"
  /\ token' = [token EXCEPT ![op[p].token].status = IF @ = "revoked" THEN @ ELSE "spent"]
  /\ Goto(p, "capabilities")
  /\ UNCHANGED <<directory, session, given, history>>

Capabilities(p) == holds[op[p].user]

(* getCapabilities: none when the directory does not answer. *)
AskCapabilities(p) ==
  /\ op[p].pc = "capabilities"
  /\ \E caps \in {Capabilities(p), {}} : op' = [op EXCEPT ![p].pc = "issue", ![p].caps = caps]
  /\ UNCHANGED <<directory, stores, given, history>>

NewRow(p) ==
  [status |-> "live", user |-> op[p].user, caps |-> op[p].caps, parent |-> op[p].token]

Issue(p) ==
  \E t \in Token \ Issued :
    /\ op[p].pc = "issue"
    /\ token' = [token EXCEPT ![t] = NewRow(p)]
    /\ op' = [op EXCEPT ![p].pc = "session", ![p].token = t]
    /\ UNCHANGED <<directory, session, given, history>>

SetSession(p) ==
  /\ op[p].pc = "session"
  /\ session' = session \cup {op[p].token}
  /\ Goto(p, "answer")
  /\ UNCHANGED <<directory, token, given, history>>

Answer(p) ==
  /\ op[p].pc = "answer"
  /\ given' = given \cup {op[p].token}
  /\ op' = [op EXCEPT ![p] = Idle]
  /\ UNCHANGED <<directory, stores, history>>
-----------------------------------------------------------------------------
RevokeToken(p) ==
  /\ op[p].pc = "logout"
  /\ token' = [token EXCEPT ![op[p].token].status = "revoked"]
  /\ Goto(p, "clear")
  /\ UNCHANGED <<directory, session, given, history>>

DeleteSession(p) ==
  /\ op[p].pc = "clear"
  /\ session' = session \ {op[p].token}
  /\ cleared' = cleared \cup {op[p].token}
  /\ op' = [op EXCEPT ![p] = Idle]
  /\ UNCHANGED <<directory, token, given, swept>>

(* A request that may yet issue a pair to u. *)
MayIssue(p, u) == Concerns(p, u) /\ op[p].pc \in {"ask", "rotate", "capabilities", "issue"}

RevocableLogins(p, t) == t \in Owned(op[p].user) /\ token[t].parent = None

Revocable(p, t) == t \in Owned(op[p].user)

(* revokeAllUserTokens: one update of all rows, then a SCAN of the keys.   *)
(* SCAN is certain to return the keys that are there from start to end.    *)
RevokeTokens(p) ==
  LET u == op[p].user IN
  /\ op[p].pc = "revoke"
  /\ token' = [t \in Token |->
       IF t \in Owned(u) /\ Revocable(p, t) /\ token[t].status \in {"live", "expired"}
         THEN [token[t] EXCEPT !.status = "revoked"] ELSE token[t]]
  /\ op' = [op EXCEPT ![p].pc = "scan", ![p].keys = session \cap Owned(u)]
  /\ swept' = IF locked[u] /\ \A q \in Op : MayIssue(q, u) => ~op[q].unlocked
                THEN swept \cup {u} ELSE swept
  /\ UNCHANGED <<directory, session, given, cleared>>

DropSession(p, t) ==
  /\ op[p].pc = "scan"
  /\ t \in session \cap Owned(op[p].user)
  /\ session' = session \ {t}
  /\ UNCHANGED <<directory, token, given, op, history>>

EndScan(p) ==
  /\ op[p].pc = "scan"
  /\ session \cap op[p].keys = {}
  /\ op' = [op EXCEPT ![p] = Idle]
  /\ UNCHANGED <<directory, stores, given, history>>

Stop(p) ==
  /\ op[p] # Idle
  /\ op' = [op EXCEPT ![p] = Idle]
  /\ UNCHANGED <<directory, stores, given, history>>

Expire(t) ==
  /\ t \in Live
  /\ token' = [token EXCEPT ![t].status = "expired"]
  /\ UNCHANGED <<directory, session, given, op, history>>
-----------------------------------------------------------------------------
Directory ==
  \E u \in User :
    \/ Lock(u) \/ Unlock(u)
    \/ \E c \in Capability : GrantCapability(u, c) \/ RevokeCapability(u, c)

Request(p) ==
  \/ \E u \in User : Login(p, u) \/ RevokeAllSessions(p, u)
  \/ \E t \in Token : Refresh(p, t) \/ Logout(p, t) \/ DropSession(p, t)
  \/ AskDirectory(p) \/ Rotate(p) \/ AskCapabilities(p)
  \/ Issue(p) \/ SetSession(p) \/ Answer(p)
  \/ RevokeToken(p) \/ DeleteSession(p)
  \/ RevokeTokens(p) \/ EndScan(p) \/ Stop(p)

Next ==
  \/ Directory
  \/ \E p \in Op : Request(p)
  \/ \E t \in Token : Expire(t)

Spec == Init /\ [][Next]_vars
-----------------------------------------------------------------------------
Busy ==
  [pc: {"ask", "rotate", "capabilities", "issue", "session", "answer",
        "logout", "clear", "revoke", "scan"},
   user: User, token: Token \cup {None},
   caps: SUBSET Capability, keys: SUBSET Token, unlocked: BOOLEAN, held: SUBSET Capability]

NeedsToken(o) == o.pc \in {"rotate", "session", "answer", "logout", "clear"}

(* Every variable has its type, and a request that works on a token has    *)
(* one, of its user.                                                       *)
TypeOK ==
  /\ locked \in [User -> BOOLEAN]
  /\ holds \in [User -> SUBSET Capability]
  /\ token \in [Token -> {Unused} \cup Row]
  /\ session \cup given \cup cleared \subseteq Issued
  /\ op \in [Op -> {Idle} \cup Busy]
  /\ \A p \in Op : op[p] # Idle =>
       \/ op[p].token \in Owned(op[p].user)
       \/ op[p].token = None /\ ~NeedsToken(op[p])
  /\ swept \subseteq User

(* Login and refresh issue a pair only to an account that the directory    *)
(* had unlocked at some time while they ran: a request that begins after   *)
(* the lock gets nothing, and neither does one that cannot ask.            *)
Issues(p) == op[p].pc = "issue" /\ op'[p].pc = "session"

LockHonoured == [][\A p \in Op : Issues(p) => op[p].unlocked]_vars

(* Once all tokens of a locked account are revoked with no older request   *)
(* left that could still issue one, the account has no usable token until  *)
(* it is unlocked, however many requests it goes on making.                *)
SweptStaySwept ==
  \A u \in swept : Owned(u) \cap Live = {}

(* The access token of a pair claims no capability that its owner did not  *)
(* hold at some time while the request that issued it ran.                 *)
CapabilitiesHeld ==
  \A p \in Op :
    op[p].pc \in {"session", "answer"} => token[op[p].token].caps \subseteq op[p].held

(* A token that was exchanged for another is revoked, even if the refresh  *)
(* stopped half-way or ran at the same time as others.                     *)
RotationSpends ==
  \A t \in Issued :
    token[t].parent # None => token[token[t].parent].status \in {"spent", "revoked"}

(* The session a logout has deleted does not come back: no client can log  *)
(* out of a pair whose session is still to be stored.                      *)
ClearedStaysCleared == cleared \cap session = {}

(* What has been rotated or logged out gives nothing any more.             *)
SpentStaysSpent == RotationSpends /\ ClearedStaysCleared
=============================================================================
