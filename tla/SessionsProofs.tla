--------------------------- MODULE SessionsProofs ---------------------------
(* What Sessions guarantees, for any number of requests, users and tokens. *)
EXTENDS Sessions, TLAPS

(* Each kind of step, by itself. *)
LEMMA Steps ==
  ASSUME Next
  PROVE  \/ \E u \in User : Lock(u) \/ Unlock(u)
         \/ \E u \in User, c \in Capability : GrantCapability(u, c) \/ RevokeCapability(u, c)
         \/ \E p \in Op, u \in User : Login(p, u) \/ RevokeAllSessions(p, u)
         \/ \E p \in Op, t \in Token : Refresh(p, t) \/ Logout(p, t) \/ DropSession(p, t)
         \/ \E p \in Op :
              \/ AskDirectory(p) \/ Rotate(p) \/ AskCapabilities(p)
              \/ Issue(p) \/ SetSession(p) \/ Answer(p)
              \/ RevokeToken(p) \/ DeleteSession(p)
              \/ RevokeTokens(p) \/ EndScan(p) \/ Stop(p)
         \/ \E t \in Token : Expire(t)
BY Zenon DEF Next, Directory, Request

(* Stores and requests are well typed at the start.                        *)
LEMMA TypeInit == Init => TypeOK
BY SessionConstants DEF Init, TypeOK, Idle, Busy, Unused, Issued, Owned

(* The parts of TypeOK.  *)
StoresTyped ==
  /\ locked \in [User -> BOOLEAN]
  /\ holds \in [User -> SUBSET Capability]
  /\ token \in [Token -> {Unused} \cup Row]
  /\ session \cup given \cup cleared \subseteq Issued
  /\ swept \subseteq User

RequestsTyped ==
  /\ op \in [Op -> {Idle} \cup Busy]
  /\ \A p \in Op : op[p] # Idle =>
       \/ op[p].token \in Owned(op[p].user)
       \/ op[p].token = None /\ ~NeedsToken(op[p])

(* The type invariant, in the parts that are proved one after the other.   *)
LEMMA TypeParts == TypeOK <=> StoresTyped /\ RequestsTyped
BY Zenon DEF TypeOK, StoresTyped, RequestsTyped

(* What a request that is under way looks like. *)
LEMMA Underway ==
  ASSUME TypeOK, NEW p \in Op, op[p] # Idle
  PROVE  /\ op[p] \in Busy
         /\ op[p].user \in User
         /\ NeedsToken(op[p]) \/ op[p].token # None =>
              /\ op[p].token \in Issued
              /\ token[op[p].token] \in Row
              /\ token[op[p].token].user = op[p].user
BY SessionConstants DEF TypeOK, Busy, Owned, Issued

(* No row is deleted, and nothing of it changes but its status. *)
RowsStay ==
  \A t \in Issued :
    /\ t \in Issued'
    /\ token'[t].user = token[t].user
    /\ token'[t].caps = token[t].caps
    /\ token'[t].parent = token[t].parent

(* Every step keeps the stores typed and loses no token row.               *)
LEMMA StoresStep == TypeOK /\ [Next]_vars => StoresTyped' /\ RowsStay
<1> SUFFICES ASSUME TypeOK, [Next]_vars PROVE StoresTyped' /\ RowsStay
  OBVIOUS
<1> USE TypeParts, SessionConstants DEF StoresTyped, RowsStay, Issued, Unused
<1>1. ASSUME NEW u \in User, Lock(u) \/ Unlock(u) PROVE StoresTyped' /\ RowsStay
  BY <1>1 DEF Lock, Unlock, stores, history
<1>2. ASSUME NEW u \in User, NEW c \in Capability, GrantCapability(u, c) \/ RevokeCapability(u, c)
      PROVE  StoresTyped' /\ RowsStay
  BY <1>2 DEF GrantCapability, RevokeCapability, stores, history
<1>3. ASSUME UNCHANGED <<directory, stores, given, history>> PROVE StoresTyped' /\ RowsStay
  BY <1>3 DEF directory, stores, history
<1>4. ASSUME NEW p \in Op, NEW t \in Token, DropSession(p, t) PROVE StoresTyped' /\ RowsStay
  BY <1>4 DEF DropSession, directory, history
<1>5. ASSUME NEW p \in Op, Rotate(p) PROVE StoresTyped' /\ RowsStay
  <2>1. token[op[p].token] \in Row /\ op[p].token \in Token
    BY <1>5, Underway DEF Rotate, NeedsToken, Idle, Issued
  <2>2. PICK st \in Status : token' = [token EXCEPT ![op[p].token].status = st]
    BY <1>5, <2>1 DEF Rotate, Row, Status
  <2> QED
    BY <1>5, <2>1, <2>2, SMTT(30) DEF Rotate, Row, Status, directory, history
<1>6. ASSUME NEW p \in Op, Issue(p) PROVE StoresTyped' /\ RowsStay
  <2>1. PICK o \in Busy : o = op[p]
    BY <1>6, Underway DEF Issue, Idle
  <2>2. [status |-> "live", user |-> o.user, caps |-> o.caps, parent |-> o.token] \in Row
    BY DEF Busy, Row, Status
  <2> QED
    BY <1>6, <2>1, <2>2 DEF Issue, NewRow, Row, directory, history
<1>7. ASSUME NEW p \in Op, SetSession(p) PROVE StoresTyped' /\ RowsStay
  BY <1>7, Underway DEF SetSession, NeedsToken, Idle, directory, history
<1>8. ASSUME NEW p \in Op, Answer(p) PROVE StoresTyped' /\ RowsStay
  BY <1>8, Underway DEF Answer, NeedsToken, Idle, directory, stores, history
<1>9. ASSUME NEW p \in Op, RevokeToken(p) PROVE StoresTyped' /\ RowsStay
  <2>1. token[op[p].token] \in Row /\ op[p].token \in Token
    BY <1>9, Underway DEF RevokeToken, NeedsToken, Idle
  <2> QED
    BY <1>9, <2>1 DEF RevokeToken, Row, Status, directory, history
<1>10. ASSUME NEW p \in Op, DeleteSession(p) PROVE StoresTyped' /\ RowsStay
  BY <1>10, Underway DEF DeleteSession, NeedsToken, Idle, directory
<1>11. ASSUME NEW p \in Op, RevokeTokens(p) PROVE StoresTyped' /\ RowsStay
  <2>1. op[p].user \in User
    BY <1>11, Underway DEF RevokeTokens, Idle
  <2> QED
    BY <1>11, <2>1 DEF RevokeTokens, Owned, Row, Status, directory
<1>12. ASSUME NEW t \in Token, Expire(t) PROVE StoresTyped' /\ RowsStay
  BY <1>12 DEF Expire, Live, Row, Status, directory, history
<1>13. CASE UNCHANGED vars
  BY <1>13, <1>3 DEF vars
<1>14. ASSUME NEW p \in Op,
              \/ \E u \in User : Login(p, u) \/ RevokeAllSessions(p, u)
              \/ \E t \in Token : Refresh(p, t) \/ Logout(p, t)
              \/ AskDirectory(p) \/ AskCapabilities(p) \/ EndScan(p) \/ Stop(p)
       PROVE  UNCHANGED <<directory, stores, given, history>>
  BY <1>14, Zenon
     DEF Login, RevokeAllSessions, Refresh, Logout, Begin, AskDirectory, AskCapabilities, EndScan, Stop
<1> QED
  BY <1>1, <1>2, <1>3, <1>4, <1>5, <1>6, <1>7, <1>8, <1>9, <1>10, <1>11, <1>12, <1>13, <1>14,
     Steps, Zenon

(* A request between two of its steps. *)
Points ==
  {"ask", "rotate", "capabilities", "issue", "session", "answer", "logout", "clear", "revoke", "scan"}

(* The fields of a request in progress.                                    *)
LEMMA Edits ==
  ASSUME NEW o \in Busy
  PROVE  /\ o.pc \in Points /\ o.user \in User /\ o.token \in Token \cup {None}
         /\ o.caps \subseteq Capability /\ o.unlocked \in BOOLEAN /\ o.held \subseteq Capability
         /\ o # Idle
BY DEF Busy, Points, Idle

(* The token of a request fits the rows. *)
Fits(o) ==
  o # Idle => \/ o.token \in Owned(o.user)
              \/ o.token = None /\ ~NeedsToken(o)

(* What the type invariant says of each request.                           *)
LEMMA RequestsFit ==
  RequestsTyped <=> op \in [Op -> {Idle} \cup Busy] /\ \A p \in Op : Fits(op[p])
BY Zenon DEF RequestsTyped, Fits

(* A request still has its token after a step that loses no row.           *)
LEMMA StillFits ==
  ASSUME RowsStay, NEW o, Fits(o)
  PROVE  o # Idle => \/ o.token \in Issued' /\ token'[o.token].user = o.user
                     \/ o.token = None /\ ~NeedsToken(o)
BY DEF RowsStay, Fits, Owned

(* A step that takes request p to o keeps the requests well typed. *)
LEMMA OneRequest ==
  ASSUME TypeOK, RowsStay, NEW p \in Op, NEW o \in {Idle} \cup Busy,
         op' = [op EXCEPT ![p] = o],
         \/ o = Idle
         \/ o.token \in Issued' /\ token'[o.token].user = o.user
         \/ o.token = None /\ ~NeedsToken(o)
  PROVE  RequestsTyped'
<1>1. op' \in [Op -> {Idle} \cup Busy]
  BY TypeParts DEF RequestsTyped
<1>2. ASSUME NEW q \in Op, op'[q] # Idle
      PROVE  \/ op'[q].token \in Issued' /\ token'[op'[q].token].user = op'[q].user
             \/ op'[q].token = None /\ ~NeedsToken(op'[q])
  <2>1. CASE q = p
    BY <1>2, <2>1, TypeParts DEF RequestsTyped
  <2>2. CASE q # p
    <3>1. op'[q] = op[q] /\ Fits(op[q])
      BY <2>2, TypeParts, RequestsFit DEF RequestsTyped
    <3> QED
      BY <1>2, <3>1, StillFits
  <2> QED
    BY <2>1, <2>2
<1> QED
  BY <1>1, <1>2 DEF RequestsTyped, Owned, NeedsToken

(* A step in which the requests stay, but for their history. *)
LEMMA SameRequests ==
  ASSUME TypeOK, RowsStay, op' \in [Op -> {Idle} \cup Busy],
         \A q \in Op : op'[q] # Idle =>
            /\ op[q] # Idle
            /\ op'[q].pc = op[q].pc /\ op'[q].token = op[q].token /\ op'[q].user = op[q].user
  PROVE  RequestsTyped'
<1>1. ASSUME NEW q \in Op, op'[q] # Idle
      PROVE  \/ op'[q].token \in Issued' /\ token'[op'[q].token].user = op'[q].user
             \/ op'[q].token = None /\ ~NeedsToken(op'[q])
  <2>1. Fits(op[q])
    BY TypeParts, RequestsFit
  <2> QED
    BY <1>1, <2>1, StillFits DEF NeedsToken
<1> QED
  BY <1>1 DEF RequestsTyped, Owned, NeedsToken

(* A step that only moves request p to another point, where it works on    *)
(* the token it has.                                                       *)
LEMMA Moves ==
  ASSUME TypeOK, RowsStay, NEW p \in Op, op[p] # Idle, NEW o \in Busy,
         op' = [op EXCEPT ![p] = o],
         o.token = op[p].token, o.user = op[p].user,
         op[p].token # None \/ ~NeedsToken(o)
  PROVE  RequestsTyped'
<1>1. Fits(op[p])
  BY TypeParts, RequestsFit
<1> QED
  BY <1>1, StillFits, OneRequest

Fresh(pc, u, t) ==
  [pc |-> pc, user |-> u, token |-> t, caps |-> {}, keys |-> {},
   unlocked |-> ~locked[u], held |-> holds[u]]

(* A request that begins holds what it was sent.                           *)
LEMMA Began ==
  ASSUME TypeOK, NEW u \in User, NEW t \in Token \cup {None}, NEW pc \in {"ask", "logout", "revoke"}
  PROVE  /\ Fresh(pc, u, t) \in Busy
         /\ \A p \in Op : Begin(p, pc, u, t) => op' = [op EXCEPT ![p] = Fresh(pc, u, t)]
<1>1. holds[u] \subseteq Capability
  BY DEF TypeOK
<1>2. (~locked[u]) \in BOOLEAN
  BY Zenon
<1> QED
  BY <1>1, <1>2 DEF Fresh, Begin, Busy

(* A request that moves on keeps all it has learnt. *)
LEMMA GoneTo ==
  ASSUME TypeOK, NEW p \in Op, op[p] # Idle, NEW pc \in Points, Goto(p, pc)
  PROVE  /\ op'[p] \in Busy /\ op' = [op EXCEPT ![p] = op'[p]]
         /\ op'[p].pc = pc /\ op'[p].token = op[p].token /\ op'[p].user = op[p].user
         /\ op'[p].caps = op[p].caps /\ op'[p].unlocked = op[p].unlocked /\ op'[p].held = op[p].held
<1>1. PICK o \in Busy : o = op[p]
  BY Underway
<1>2. LET n == [o EXCEPT !.pc = pc] IN
      /\ n \in Busy /\ n.pc = pc /\ n.token = o.token /\ n.user = o.user
      /\ n.caps = o.caps /\ n.unlocked = o.unlocked /\ n.held = o.held
  BY DEF Busy, Points
<1>3. op' = [op EXCEPT ![p] = [o EXCEPT !.pc = pc]] /\ op'[p] = [o EXCEPT !.pc = pc]
  BY <1>1 DEF Goto, TypeOK
<1> QED
  BY <1>1, <1>2, <1>3

(* Every step keeps the requests typed.                                    *)
LEMMA RequestsStep == TypeOK /\ [Next]_vars => RequestsTyped'
<1> SUFFICES ASSUME TypeOK, [Next]_vars PROVE RequestsTyped'
  OBVIOUS
<1>0. RowsStay /\ StoresTyped /\ RequestsTyped
  BY StoresStep, TypeParts
<1>1. ASSUME NEW u \in User, Unlock(u) PROVE RequestsTyped'
  <2>1. ASSUME NEW o \in Busy
        PROVE  LET r == [o EXCEPT !.unlocked = TRUE] IN
               r \in Busy /\ r.pc = o.pc /\ r.token = o.token /\ r.user = o.user
    BY DEF Busy
  <2>2. \A q \in Op : op'[q] = IF op[q] # Idle /\ op[q].user = u THEN [op[q] EXCEPT !.unlocked = TRUE] ELSE op[q]
    BY <1>1 DEF Unlock, Concerns
  <2>3. ASSUME NEW q \in Op
        PROVE  /\ op'[q] \in {Idle} \cup Busy
               /\ op'[q] # Idle => /\ op[q] # Idle
                                  /\ op'[q].pc = op[q].pc /\ op'[q].token = op[q].token
                                  /\ op'[q].user = op[q].user
    BY <2>1, <2>2, Underway
  <2>4. op' = [q \in Op |-> op'[q]]
    BY <1>1 DEF Unlock
  <2>5. op' \in [Op -> {Idle} \cup Busy]
    BY <2>3, <2>4
  <2> QED
    BY <1>0, <2>3, <2>5, SameRequests
<1>2. ASSUME NEW u \in User, NEW c \in Capability, GrantCapability(u, c) PROVE RequestsTyped'
  <2>1. ASSUME NEW o \in Busy
        PROVE  LET r == [o EXCEPT !.held = @ \cup {c}] IN
               r \in Busy /\ r.pc = o.pc /\ r.token = o.token /\ r.user = o.user
    BY DEF Busy
  <2>2. \A q \in Op : op'[q] = IF op[q] # Idle /\ op[q].user = u THEN [op[q] EXCEPT !.held = @ \cup {c}] ELSE op[q]
    BY <1>2 DEF GrantCapability, Concerns
  <2>3. ASSUME NEW q \in Op
        PROVE  /\ op'[q] \in {Idle} \cup Busy
               /\ op'[q] # Idle => /\ op[q] # Idle
                                  /\ op'[q].pc = op[q].pc /\ op'[q].token = op[q].token
                                  /\ op'[q].user = op[q].user
    BY <2>1, <2>2, Underway
  <2>4. op' = [q \in Op |-> op'[q]]
    BY <1>2 DEF GrantCapability
  <2>5. op' \in [Op -> {Idle} \cup Busy]
    BY <2>3, <2>4
  <2> QED
    BY <1>0, <2>3, <2>5, SameRequests
<1>3. ASSUME UNCHANGED op PROVE RequestsTyped'
  BY <1>0, <1>3, SameRequests DEF RequestsTyped
<1>4. ASSUME NEW p \in Op, op' = [op EXCEPT ![p] = Idle] PROVE RequestsTyped'
  BY <1>0, <1>4, OneRequest
<1>5. ASSUME NEW p \in Op, NEW u \in User, Login(p, u) \/ RevokeAllSessions(p, u) PROVE RequestsTyped'
  <2>1. PICK pc \in {"ask", "revoke"} : Begin(p, pc, u, None)
    BY <1>5 DEF Login, RevokeAllSessions
  <2>2. Fresh(pc, u, None) \in Busy /\ ~NeedsToken(Fresh(pc, u, None)) /\ Fresh(pc, u, None).token = None
    BY Began DEF Fresh, NeedsToken
  <2> QED
    BY <1>0, <2>1, <2>2, Began, OneRequest
<1>6. ASSUME NEW p \in Op, NEW t \in Token, Refresh(p, t) \/ Logout(p, t) PROVE RequestsTyped'
  <2>1. t \in Issued /\ token[t].user \in User
    BY <1>0, <1>6 DEF Refresh, Logout, Live, Issued, StoresTyped, Row, Unused
  <2>2. PICK pc \in {"ask", "logout"} : Begin(p, pc, token[t].user, t)
    BY <1>6 DEF Refresh, Logout
  <2>3. /\ Fresh(pc, token[t].user, t) \in Busy
        /\ Fresh(pc, token[t].user, t).token = t /\ Fresh(pc, token[t].user, t).user = token[t].user
    BY <2>1, Began DEF Fresh
  <2> QED
    BY <1>0, <2>1, <2>2, <2>3, Began, OneRequest DEF RowsStay
<1>7. ASSUME NEW p \in Op, AskDirectory(p) PROVE RequestsTyped'
  <2>1. PICK o \in Busy : o = op[p]
    BY <1>7, Underway DEF AskDirectory, Idle
  <2>2. PICK pc \in {"revoke", "capabilities", "rotate"} : Goto(p, pc) /\ (pc = "rotate" => o.token # None)
    BY <1>7, <2>1 DEF AskDirectory
  <2> QED
    BY <1>0, <1>7, <2>1, <2>2, GoneTo, Moves DEF AskDirectory, NeedsToken, Idle, Points
<1>8. ASSUME NEW p \in Op, Rotate(p) PROVE RequestsTyped'
  BY <1>0, <1>8, GoneTo, Moves DEF Rotate, NeedsToken, Idle, Points
<1>9. ASSUME NEW p \in Op, AskCapabilities(p) PROVE RequestsTyped'
  <2>1. PICK o \in Busy : o = op[p]
    BY <1>9, Underway DEF AskCapabilities, Idle
  <2>2. PICK caps \in {Capabilities(p), {}} : op' = [op EXCEPT ![p] = [o EXCEPT !.pc = "issue", !.caps = caps]]
    BY <1>9, <2>1 DEF AskCapabilities
  <2>4. caps \subseteq Capability
    BY <1>0, <2>1, <2>2, Edits DEF Capabilities, StoresTyped
  <2>3. LET n == [o EXCEPT !.pc = "issue", !.caps = caps] IN
        n \in Busy /\ n.token = o.token /\ n.user = o.user /\ ~NeedsToken(n)
    BY <2>4 DEF Busy, NeedsToken
  <2>5. op[p] # Idle
    BY <2>1, Edits
  <2> QED
    BY <1>0, <2>1, <2>2, <2>3, <2>5, Moves
<1>10. ASSUME NEW p \in Op, Issue(p) PROVE RequestsTyped'
  <2>1. PICK o \in Busy : o = op[p]
    BY <1>10, Underway DEF Issue, Idle
  <2>2. PICK t \in Token \ Issued :
          /\ token' = [token EXCEPT ![t] = NewRow(p)]
          /\ op' = [op EXCEPT ![p] = [o EXCEPT !.pc = "session", !.token = t]]
    BY <1>10, <2>1, ZenonT(40) DEF Issue
  <2>3. LET n == [o EXCEPT !.pc = "session", !.token = t] IN
        n \in Busy /\ n.token = t /\ n.user = o.user
    BY DEF Busy
  <2>4. t \in Issued' /\ token'[t].user = o.user
    BY <1>0, <2>1, <2>2 DEF NewRow, Issued, StoresTyped, Unused
  <2> QED
    BY <1>0, <2>2, <2>3, <2>4, OneRequest
<1>11. ASSUME NEW p \in Op, SetSession(p) \/ RevokeToken(p) PROVE RequestsTyped'
  BY <1>0, <1>11, GoneTo, Underway, Moves, SessionConstants
     DEF SetSession, RevokeToken, NeedsToken, Idle, Points, Issued
<1>12. ASSUME NEW p \in Op, RevokeTokens(p) PROVE RequestsTyped'
  <2>1. PICK o \in Busy : o = op[p]
    BY <1>12, Underway DEF RevokeTokens, Idle
  <2>2. PICK keys \in SUBSET Token : op' = [op EXCEPT ![p] = [o EXCEPT !.pc = "scan", !.keys = keys]]
    BY <1>0, <1>12, <2>1, ZenonT(40) DEF RevokeTokens, StoresTyped, Issued
  <2>3. LET n == [o EXCEPT !.pc = "scan", !.keys = keys] IN
        n \in Busy /\ n.token = o.token /\ n.user = o.user /\ ~NeedsToken(n)
    BY DEF Busy, NeedsToken
  <2>4. op[p] # Idle
    BY <2>1, Edits
  <2> QED
    BY <1>0, <2>1, <2>2, <2>3, <2>4, Moves
<1>13. ASSUME NEW u \in User, Lock(u) PROVE UNCHANGED op
  BY <1>13 DEF Lock
<1>14. ASSUME NEW u \in User, NEW c \in Capability, RevokeCapability(u, c) PROVE UNCHANGED op
  BY <1>14 DEF RevokeCapability
<1>15. ASSUME NEW p \in Op, NEW t \in Token, DropSession(p, t) PROVE UNCHANGED op
  BY <1>15 DEF DropSession
<1>16. ASSUME NEW t \in Token, Expire(t) PROVE UNCHANGED op
  BY <1>16 DEF Expire
<1>17. ASSUME NEW p \in Op, Answer(p) \/ DeleteSession(p) \/ EndScan(p) \/ Stop(p)
       PROVE  op' = [op EXCEPT ![p] = Idle]
  BY <1>17 DEF Answer, DeleteSession, EndScan, Stop
<1>18. CASE UNCHANGED vars
  BY <1>3, <1>18 DEF vars
<1> QED
  BY <1>1, <1>2, <1>3, <1>4, <1>5, <1>6, <1>7, <1>8, <1>9, <1>10, <1>11, <1>12, <1>13, <1>14,
     <1>15, <1>16, <1>17, <1>18, Steps, Zenon

(* Every step keeps the type invariant.                                    *)
LEMMA TypeStep == TypeOK /\ [Next]_vars => TypeOK'
<1> SUFFICES ASSUME TypeOK, [Next]_vars PROVE TypeOK'
  OBVIOUS
<1>1. StoresTyped' /\ RequestsTyped'
  BY StoresStep, RequestsStep
<1> QED
  BY <1>1 DEF StoresTyped, RequestsTyped, TypeOK

(* The stores and all requests are well typed at all times: in particular  *)
(* no step of auth.service.ts works on a token it does not have.           *)
THEOREM TypeCorrect == Spec => []TypeOK
BY TypeInit, TypeStep, PTL DEF Spec
-----------------------------------------------------------------------------
(* What a request has been told agrees with the directory, as it is or was *)
(* since the request began.                                                *)
Told(o) ==
  o # Idle =>
    /\ ~locked[o.user] \/ o.pc \in {"rotate", "capabilities", "issue"} => o.unlocked
    /\ holds[o.user] \cup o.caps \subseteq o.held
    /\ o.pc \in {"session", "answer"} => token[o.token].caps \subseteq o.held

AllTold == \A p \in Op : Told(op[p])

(* A request that is not moved stays as well told. *)
LEMMA ToldStays ==
  ASSUME TypeOK, RowsStay, AllTold, UNCHANGED directory, NEW q \in Op, op'[q] = op[q]
  PROVE  Told(op[q])'
BY Underway DEF AllTold, Told, RowsStay, directory, NeedsToken

(* A step of one request, which learns only what is so.                    *)
LEMMA OneTold ==
  ASSUME TypeOK, RowsStay, AllTold, UNCHANGED directory,
         NEW p \in Op, NEW n \in {Idle} \cup Busy, op' = [op EXCEPT ![p] = n],
         n # Idle =>
           /\ ~locked[n.user] \/ n.pc \in {"rotate", "capabilities", "issue"} => n.unlocked
           /\ holds[n.user] \cup n.caps \subseteq n.held
           /\ n.pc \in {"session", "answer"} => token'[n.token].caps \subseteq n.held
  PROVE  AllTold'
<1>1. \A q \in Op : op'[q] = IF q = p THEN n ELSE op[q]
  BY DEF TypeOK
<1>2. Told(op[p])'
  BY <1>1 DEF Told, directory
<1> QED
  BY <1>1, <1>2, ToldStays DEF AllTold

(* A request that moves on without a new claim about the directory. *)
LEMMA ToldMoves ==
  ASSUME TypeOK, RowsStay, AllTold, UNCHANGED directory,
         NEW p \in Op, op[p] # Idle, NEW pc \in Points, Goto(p, pc),
         pc \in {"rotate", "capabilities", "issue"} => op[p].unlocked,
         pc \in {"session", "answer"} => op[p].pc \in {"session", "answer"}
  PROVE  AllTold'
<1>1. /\ op'[p] \in Busy /\ op' = [op EXCEPT ![p] = op'[p]]
      /\ op'[p].pc = pc /\ op'[p].token = op[p].token /\ op'[p].user = op[p].user
      /\ op'[p].caps = op[p].caps /\ op'[p].unlocked = op[p].unlocked /\ op'[p].held = op[p].held
  BY GoneTo
<1>2. PICK n \in Busy : n = op'[p]
  BY <1>1
<1>3. Told(op[p])
  BY DEF AllTold
<1>4. /\ ~locked[n.user] \/ n.pc \in {"rotate", "capabilities", "issue"} => n.unlocked
      /\ holds[n.user] \cup n.caps \subseteq n.held
  BY <1>1, <1>2, <1>3 DEF Told
<1>5. n.pc \in {"session", "answer"} => token'[n.token].caps \subseteq n.held
  BY <1>1, <1>2, <1>3, Underway DEF Told, NeedsToken, RowsStay
<1> QED
  BY <1>1, <1>2, <1>4, <1>5, OneTold

(* No request has been told anything at the start.                         *)
LEMMA ToldInit == Init => AllTold
BY DEF Init, AllTold, Told

(* What requests were told was so while they ran, in every step.           *)
LEMMA ToldStep == TypeOK /\ AllTold /\ [Next]_vars => AllTold'
<1> SUFFICES ASSUME TypeOK, AllTold, [Next]_vars PROVE AllTold'
  OBVIOUS
<1>0. RowsStay /\ TypeOK'
  BY StoresStep, TypeStep
<1>1. ASSUME NEW u \in User, Lock(u) PROVE AllTold'
  BY <1>1, Underway DEF Lock, AllTold, Told, stores, TypeOK
<1>2. ASSUME NEW u \in User, Unlock(u) PROVE AllTold'
  <2>1. ASSUME NEW o \in Busy
        PROVE  LET n == [o EXCEPT !.unlocked = TRUE] IN
               /\ n.pc = o.pc /\ n.token = o.token /\ n.user = o.user
               /\ n.caps = o.caps /\ n.held = o.held /\ n.unlocked = TRUE
    BY DEF Busy
  <2>2. \A q \in Op : op'[q] = IF op[q] # Idle /\ op[q].user = u THEN [op[q] EXCEPT !.unlocked = TRUE] ELSE op[q]
    BY <1>2 DEF Unlock, Concerns
  <2>3. UNCHANGED <<holds, token>> /\ \A v \in User : locked'[v] = IF v = u THEN FALSE ELSE locked[v]
    BY <1>2 DEF Unlock, stores, TypeOK
  <2>4. ASSUME NEW q \in Op PROVE Told(op[q])'
    <3>1. CASE op[q] = Idle
      BY <2>2, <3>1 DEF Told
    <3>2. CASE op[q] # Idle
      <4>1. PICK o \in Busy : o = op[q]
        BY <3>2, Underway
      <4>2. Told(o) /\ o # Idle /\ o.user \in User
        BY <4>1, Edits DEF AllTold
      <4>3. CASE o.user = u
        BY <2>1, <2>2, <2>3, <4>1, <4>2, <4>3, ZenonT(40) DEF Told
      <4>4. CASE o.user # u
        BY <2>2, <2>3, <4>1, <4>2, <4>4 DEF Told
      <4> QED
        BY <4>3, <4>4
    <3> QED
      BY <3>1, <3>2
  <2> QED
    BY <2>4 DEF AllTold
<1>3. ASSUME NEW u \in User, NEW c \in Capability, GrantCapability(u, c) PROVE AllTold'
  <2>1. ASSUME NEW o \in Busy
        PROVE  LET n == [o EXCEPT !.held = @ \cup {c}] IN
               /\ n.pc = o.pc /\ n.token = o.token /\ n.user = o.user
               /\ n.caps = o.caps /\ n.held = o.held \cup {c} /\ n.unlocked = o.unlocked
    BY DEF Busy
  <2>2. \A q \in Op : op'[q] = IF op[q] # Idle /\ op[q].user = u THEN [op[q] EXCEPT !.held = @ \cup {c}] ELSE op[q]
    BY <1>3 DEF GrantCapability, Concerns
  <2>3. UNCHANGED <<locked, token>> /\ \A v \in User : holds'[v] = IF v = u THEN holds[v] \cup {c} ELSE holds[v]
    BY <1>3 DEF GrantCapability, stores, TypeOK
  <2>4. ASSUME NEW q \in Op PROVE Told(op[q])'
    <3>1. CASE op[q] = Idle
      BY <2>2, <3>1 DEF Told
    <3>2. CASE op[q] # Idle
      <4>1. PICK o \in Busy : o = op[q]
        BY <3>2, Underway
      <4>2. Told(o) /\ o # Idle /\ o.user \in User
        BY <4>1, Edits DEF AllTold
      <4>3. CASE o.user = u
        <5>1. /\ op'[q].pc = o.pc /\ op'[q].token = o.token /\ op'[q].user = u
              /\ op'[q].caps = o.caps /\ op'[q].held = o.held \cup {c}
              /\ op'[q].unlocked = o.unlocked
          BY <2>1, <2>2, <4>1, <4>2, <4>3
        <5>2. locked'[u] = locked[u] /\ holds'[u] = holds[u] \cup {c} /\ token' = token
          BY <2>3
        <5>3. holds'[u] \cup op'[q].caps \subseteq op'[q].held
          BY <4>2, <4>3, <5>1, <5>2 DEF Told
        <5> QED
          BY <4>2, <4>3, <5>1, <5>2, <5>3 DEF Told
      <4>4. CASE o.user # u
        BY <2>2, <2>3, <4>1, <4>2, <4>4 DEF Told
      <4> QED
        BY <4>3, <4>4
    <3> QED
      BY <3>1, <3>2
  <2> QED
    BY <2>4 DEF AllTold
<1>4. ASSUME NEW u \in User, NEW c \in Capability, RevokeCapability(u, c) PROVE AllTold'
  <2>1. UNCHANGED <<locked, token, op>> /\ \A v \in User : holds'[v] \subseteq holds[v]
    BY <1>4 DEF RevokeCapability, stores, TypeOK
  <2> QED
    BY <2>1, Underway DEF AllTold, Told
<1>5. ASSUME UNCHANGED <<directory, op>> PROVE AllTold'
  BY <1>0, <1>5, ToldStays DEF AllTold
<1>6. ASSUME NEW p \in Op, UNCHANGED directory, op' = [op EXCEPT ![p] = Idle] PROVE AllTold'
  BY <1>0, <1>6, OneTold
<1>7. ASSUME NEW p \in Op, NEW pc \in {"ask", "logout", "revoke"},
             NEW u \in User, NEW t \in Token \cup {None}, Begin(p, pc, u, t)
      PROVE  AllTold'
  <2>1. Fresh(pc, u, t) \in Busy /\ op' = [op EXCEPT ![p] = Fresh(pc, u, t)]
    BY <1>7, Began
  <2>3. UNCHANGED directory
    BY <1>7 DEF Begin
  <2>2. /\ Fresh(pc, u, t).pc = pc /\ Fresh(pc, u, t).user = u /\ Fresh(pc, u, t).caps = {}
        /\ Fresh(pc, u, t).unlocked = ~locked[u] /\ Fresh(pc, u, t).held = holds[u]
    BY DEF Fresh
  <2> QED
    BY <1>0, <2>1, <2>2, <2>3, OneTold
<1>8. ASSUME NEW p \in Op, AskDirectory(p) PROVE AllTold'
  <2>1. PICK o \in Busy : o = op[p]
    BY <1>8, Underway DEF AskDirectory, Idle
  <2>2. PICK pc \in {"revoke", "capabilities", "rotate"} : Goto(p, pc) /\ (pc # "revoke" => ~locked[o.user])
    BY <1>8, <2>1 DEF AskDirectory, LockStates
  <2>3. op[p] # Idle /\ UNCHANGED directory /\ (~locked[o.user] => o.unlocked)
    BY <1>8, <2>1, Edits DEF AskDirectory, AllTold, Told
  <2> QED
    BY <1>0, <2>1, <2>2, <2>3, ToldMoves DEF Points
<1>9. ASSUME NEW p \in Op, Rotate(p) PROVE AllTold'
  <2>1. op[p] # Idle /\ UNCHANGED directory /\ Goto(p, "capabilities") /\ op[p].unlocked
    BY <1>9 DEF Rotate, AllTold, Told, Idle
  <2> QED
    BY <1>0, <2>1, ToldMoves DEF Points
<1>10. ASSUME NEW p \in Op, AskCapabilities(p) PROVE AllTold'
  <2>1. PICK o \in Busy : o = op[p]
    BY <1>10, Underway DEF AskCapabilities, Idle
  <2>2. PICK caps \in {holds[o.user], {}} : op' = [op EXCEPT ![p] = [o EXCEPT !.pc = "issue", !.caps = caps]]
    BY <1>10, <2>1 DEF AskCapabilities, Capabilities
  <2>3. caps \subseteq Capability /\ caps \subseteq o.held /\ o.unlocked /\ holds[o.user] \subseteq o.held
    BY <1>10, <2>1, <2>2, Edits DEF AskCapabilities, AllTold, Told, TypeOK
  <2>4. LET n == [o EXCEPT !.pc = "issue", !.caps = caps] IN
        /\ n \in Busy /\ n.pc = "issue" /\ n.caps = caps /\ n.user = o.user
        /\ n.unlocked = o.unlocked /\ n.held = o.held
    BY <2>3 DEF Busy
  <2>5. UNCHANGED directory
    BY <1>10 DEF AskCapabilities
  <2> QED
    BY <1>0, <2>2, <2>3, <2>4, <2>5, OneTold
<1>11. ASSUME NEW p \in Op, Issue(p) PROVE AllTold'
  <2>1. PICK o \in Busy : o = op[p]
    BY <1>11, Underway DEF Issue, Idle
  <2>2. PICK t \in Token \ Issued :
          /\ token' = [token EXCEPT ![t] = NewRow(p)]
          /\ op' = [op EXCEPT ![p] = [o EXCEPT !.pc = "session", !.token = t]]
          /\ UNCHANGED directory
    BY <1>11, <2>1 DEF Issue
  <2>3. LET n == [o EXCEPT !.pc = "session", !.token = t] IN
        /\ n \in Busy /\ n.pc = "session" /\ n.token = t /\ n.user = o.user /\ n.caps = o.caps
        /\ n.unlocked = o.unlocked /\ n.held = o.held
    BY DEF Busy
  <2>4. token'[t].caps = o.caps
    BY <2>1, <2>2 DEF NewRow, TypeOK
  <2>5. Told(o) /\ o # Idle
    BY <2>1, Edits DEF AllTold
  <2> QED
    BY <1>0, <2>2, <2>3, <2>4, <2>5, OneTold DEF Told
<1>12. ASSUME NEW p \in Op, SetSession(p) \/ RevokeToken(p) PROVE AllTold'
  <2>1. PICK pc \in {"answer", "clear"} : Goto(p, pc) /\ (pc = "answer" => op[p].pc = "session")
    BY <1>12 DEF SetSession, RevokeToken
  <2>2. op[p] # Idle /\ UNCHANGED directory
    BY <1>12 DEF SetSession, RevokeToken, Idle
  <2> QED
    BY <1>0, <2>1, <2>2, ToldMoves DEF Points
<1>13. ASSUME NEW p \in Op, RevokeTokens(p) PROVE AllTold'
  <2>1. PICK o \in Busy : o = op[p]
    BY <1>13, Underway DEF RevokeTokens, Idle
  <2>2. PICK keys \in SUBSET Token : op' = [op EXCEPT ![p] = [o EXCEPT !.pc = "scan", !.keys = keys]]
    BY <1>13, <2>1 DEF RevokeTokens, TypeOK, Issued
  <2>3. LET n == [o EXCEPT !.pc = "scan", !.keys = keys] IN
        /\ n \in Busy /\ n.pc = "scan" /\ n.user = o.user /\ n.caps = o.caps
        /\ n.unlocked = o.unlocked /\ n.held = o.held
    BY DEF Busy
  <2>4. Told(o) /\ o # Idle /\ UNCHANGED directory
    BY <1>13, <2>1, Edits DEF AllTold, RevokeTokens
  <2> QED
    BY <1>0, <2>2, <2>3, <2>4, OneTold DEF Told
<1>14. ASSUME NEW p \in Op, NEW u \in User, Login(p, u) \/ RevokeAllSessions(p, u)
       PROVE  \E pc \in {"ask", "logout", "revoke"} : Begin(p, pc, u, None)
  BY <1>14 DEF Login, RevokeAllSessions
<1>15. ASSUME NEW p \in Op, NEW t \in Token, Refresh(p, t) \/ Logout(p, t)
       PROVE  token[t].user \in User /\ \E pc \in {"ask", "logout", "revoke"} : Begin(p, pc, token[t].user, t)
  BY <1>15 DEF Refresh, Logout, Live, Issued, TypeOK, Row, Unused
<1>16. ASSUME NEW p \in Op, Answer(p) \/ DeleteSession(p) \/ EndScan(p) \/ Stop(p)
       PROVE  UNCHANGED directory /\ op' = [op EXCEPT ![p] = Idle]
  BY <1>16 DEF Answer, DeleteSession, EndScan, Stop
<1>17. ASSUME NEW t \in Token, Expire(t) \/ \E p \in Op : DropSession(p, t) PROVE UNCHANGED <<directory, op>>
  BY <1>17 DEF Expire, DropSession
<1>18. CASE UNCHANGED vars
  BY <1>5, <1>18 DEF vars
<1>19. ASSUME NEW p \in Op, NEW u \in User, Login(p, u) \/ RevokeAllSessions(p, u) PROVE AllTold'
  BY <1>7, <1>14, <1>19
<1>20. ASSUME NEW p \in Op, NEW t \in Token, Refresh(p, t) \/ Logout(p, t) PROVE AllTold'
  BY <1>7, <1>15, <1>20
<1> QED
  BY <1>1, <1>2, <1>3, <1>4, <1>5, <1>6, <1>8, <1>9, <1>10, <1>11, <1>12, <1>13, <1>16, <1>17,
     <1>18, <1>19, <1>20, Steps, Zenon

(* What requests were told was so while they ran.                          *)
LEMMA ToldAlways == Spec => [](TypeOK /\ AllTold)
<1>1. Init => TypeOK /\ AllTold
  BY TypeInit, ToldInit
<1>2. TypeOK /\ AllTold /\ [Next]_vars => (TypeOK /\ AllTold)'
  BY TypeStep, ToldStep
<1> QED
  BY <1>1, <1>2, PTL DEF Spec

(* Login and refresh never issue a pair to an account that was locked      *)
(* from before they began: the directory is always asked, and a failure to *)
(* ask ends the request.                                                   *)
THEOREM LocksAreHonoured == Spec => LockHonoured
<1>1. AllTold => \A p \in Op : Issues(p) => op[p].unlocked
  BY DEF AllTold, Told, Issues, Idle
<1>2. AllTold /\ [Next]_vars => [\A p \in Op : Issues(p) => op[p].unlocked]_vars
  BY <1>1
<1> QED
  BY <1>2, ToldAlways, PTL DEF Spec, LockHonoured

(* No access token claims a capability its owner did not hold while it was *)
(* being issued, however grants and revocations of capabilities interleave *)
(* with login and refresh.                                                 *)
THEOREM CapabilitiesAreHeld == Spec => []CapabilitiesHeld
<1>1. AllTold => CapabilitiesHeld
  BY DEF AllTold, Told, CapabilitiesHeld, Idle
<1> QED
  BY <1>1, ToldAlways, PTL
-----------------------------------------------------------------------------
(* A token that is not live never is again, and one that was exchanged or  *)
(* revoked remains so: the update of a refresh that comes too late does    *)
(* not clear revoked_at.                                                   *)
Over(t) == token[t].status \in {"spent", "revoked"}

StatusesStay == \A t \in Issued : (Over(t) => Over(t)') /\ (t \in Live' => t \in Live)

(* No step makes a token that was ended usable again.                      *)
LEMMA StatusStep == TypeOK /\ [Next]_vars => StatusesStay
<1> SUFFICES ASSUME TypeOK, [Next]_vars PROVE StatusesStay
  OBVIOUS
<1> USE DEF StatusesStay, Over, Live
<1>1. ASSUME UNCHANGED token PROVE StatusesStay
  BY <1>1 DEF Issued
<1>2. ASSUME NEW p \in Op, Rotate(p) PROVE StatusesStay
  <2>1. token[op[p].token] \in Row /\ op[p].token \in Token
    BY <1>2, Underway DEF Rotate, NeedsToken, Idle, Issued
  <2>2. PICK st \in {"spent", "revoked"} : token' = [token EXCEPT ![op[p].token].status = st]
    BY <1>2, <2>1 DEF Rotate, Row
  <2> QED
    BY <2>1, <2>2 DEF TypeOK, Row, Issued, Unused
<1>3. ASSUME NEW p \in Op, RevokeToken(p) PROVE StatusesStay
  <2>1. token[op[p].token] \in Row /\ op[p].token \in Token
    BY <1>3, Underway DEF RevokeToken, NeedsToken, Idle, Issued
  <2> QED
    BY <1>3, <2>1 DEF RevokeToken, TypeOK, Row, Issued, Unused
<1>4. ASSUME NEW p \in Op, Issue(p) PROVE StatusesStay
  BY <1>4 DEF Issue, TypeOK, Issued
<1>5. ASSUME NEW p \in Op, RevokeTokens(p) PROVE StatusesStay
  <2>1. ASSUME NEW t \in Issued
        PROVE  token'[t] = token[t] \/ token'[t] = [token[t] EXCEPT !.status = "revoked"]
    BY <1>5 DEF RevokeTokens, Issued
  <2>2. \A t \in Issued : token[t] \in Row
    BY DEF TypeOK, Issued
  <2>3. \A t \in Issued : token'[t] = token[t] \/ token'[t].status = "revoked"
    BY <2>1, <2>2 DEF Row
  <2> QED
    BY <2>3 DEF Issued
<1>6. ASSUME NEW t \in Token, Expire(t) PROVE StatusesStay
  BY <1>6 DEF Expire, TypeOK, Row, Issued
<1>7. ASSUME NEW u \in User, Lock(u) \/ Unlock(u) PROVE UNCHANGED token
  BY <1>7 DEF Lock, Unlock, stores
<1>8. ASSUME NEW u \in User, NEW c \in Capability, GrantCapability(u, c) \/ RevokeCapability(u, c)
      PROVE  UNCHANGED token
  BY <1>8 DEF GrantCapability, RevokeCapability, stores
<1>9. ASSUME NEW p \in Op, NEW u \in User, Login(p, u) \/ RevokeAllSessions(p, u) PROVE UNCHANGED token
  BY <1>9 DEF Login, RevokeAllSessions, Begin, stores
<1>10. ASSUME NEW p \in Op, NEW t \in Token, Refresh(p, t) \/ Logout(p, t) \/ DropSession(p, t)
       PROVE  UNCHANGED token
  BY <1>10 DEF Refresh, Logout, DropSession, Begin, stores
<1>11. ASSUME NEW p \in Op,
              \/ AskDirectory(p) \/ AskCapabilities(p) \/ SetSession(p) \/ Answer(p)
              \/ DeleteSession(p) \/ EndScan(p) \/ Stop(p)
       PROVE  UNCHANGED token
  BY <1>11 DEF AskDirectory, AskCapabilities, SetSession, Answer, DeleteSession, EndScan, Stop, stores
<1>12. CASE UNCHANGED vars
  BY <1>1, <1>12 DEF vars, stores
<1> QED
  BY <1>1, <1>2, <1>3, <1>4, <1>5, <1>6, <1>7, <1>8, <1>9, <1>10, <1>11, <1>12, Steps, Zenon

(* While an account counts as swept it is locked, and a request that may   *)
(* still issue to it has seen it locked throughout, so that it will not.   *)
Sweeping ==
  \A u \in swept :
    /\ locked[u]
    /\ \A q \in Op : MayIssue(q, u) => ~op[q].unlocked
    /\ Owned(u) \cap Live = {}

Issuing(o, u) ==
  o # Idle /\ o.user = u /\ o.pc \in {"ask", "rotate", "capabilities", "issue"} /\ o.unlocked

(* What it means that a sweep lasts.                                       *)
LEMMA SweepingMeans ==
  Sweeping <=>
    \A u \in swept :
      /\ locked[u]
      /\ \A q \in Op : ~Issuing(op[q], u)
      /\ \A t \in Live : token[t].user # u
<1>1. \A u : Owned(u) \cap Live = {} <=> \A t \in Live : token[t].user # u
  BY DEF Owned, Live
<1>2. \A u : \A q \in Op : (MayIssue(q, u) => ~op[q].unlocked) <=> ~Issuing(op[q], u)
  BY Zenon DEF Issuing, MayIssue, Concerns
<1> QED
  BY <1>1, <1>2, Zenon DEF Sweeping

(* A step that adds no row and no user to swept, and makes no request      *)
(* issue to a swept user.                                                  *)
LEMMA SweepingStays ==
  ASSUME RowsStay, StatusesStay, Sweeping, Issued' = Issued, swept' \subseteq swept,
         \A u \in swept' : locked'[u] /\ \A q \in Op : ~Issuing(op'[q], u)
  PROVE  Sweeping'
<1>1. \A t \in Live' : t \in Live /\ token'[t].user = token[t].user
  BY DEF RowsStay, StatusesStay, Live
<1>2. \A u \in swept' : \A t \in Live' : token'[t].user # u
  BY <1>1, SweepingMeans
<1>3. ASSUME NEW u \in swept'
      PROVE  (Owned(u) \cap Live = {})'
  BY <1>2 DEF Owned, Live
<1>4. ASSUME NEW u \in swept', NEW q \in Op
      PROVE  (MayIssue(q, u) => ~op[q].unlocked)'
  BY Zenon DEF Issuing, MayIssue, Concerns
<1> QED
  BY <1>3, <1>4, Zenon DEF Sweeping

(* A step of one request that issues to nobody who is locked.              *)
LEMMA SweepingOne ==
  ASSUME TypeOK, RowsStay, StatusesStay, Sweeping, Issued' = Issued, UNCHANGED <<locked, swept>>,
         NEW p \in Op, NEW n \in {Idle} \cup Busy, op' = [op EXCEPT ![p] = n],
         \A u \in User : Issuing(n, u) => ~locked[u] \/ Issuing(op[p], u)
  PROVE  Sweeping'
<1>1. \A q \in Op : op'[q] = IF q = p THEN n ELSE op[q]
  BY DEF TypeOK
<1>2. swept \subseteq User
  BY DEF TypeOK
<1> QED
  BY <1>1, <1>2, SweepingMeans, SweepingStays

(* Nobody is swept at the start.                                           *)
LEMMA SweepingInit == Init => Sweeping
BY DEF Init, Sweeping

(* Every step leaves swept accounts without a usable token.                *)
LEMMA SweepingStep == TypeOK /\ AllTold /\ Sweeping /\ [Next]_vars => Sweeping'
<1> SUFFICES ASSUME TypeOK, AllTold, Sweeping, [Next]_vars PROVE Sweeping'
  OBVIOUS
<1>0. RowsStay /\ StatusesStay /\ TypeOK'
  BY StoresStep, StatusStep, TypeStep
<1>1. ASSUME NEW u \in User, Lock(u) PROVE Sweeping'
  <2>1. UNCHANGED <<token, op, swept>> /\ \A v \in User : locked[v] => locked'[v]
    BY <1>1 DEF Lock, stores, history, TypeOK
  <2> QED
    BY <1>0, <2>1, SweepingMeans, SweepingStays DEF Issued, TypeOK
<1>2. ASSUME NEW u \in User, Unlock(u) PROVE Sweeping'
  <2>1. /\ UNCHANGED token /\ swept' = swept \ {u}
        /\ \A v \in User : v # u => locked'[v] = locked[v]
        /\ \A q \in Op : op'[q] = IF op[q] # Idle /\ op[q].user = u THEN [op[q] EXCEPT !.unlocked = TRUE] ELSE op[q]
    BY <1>2 DEF Unlock, Concerns, stores, TypeOK
  <2>2. ASSUME NEW v \in swept', NEW q \in Op PROVE ~Issuing(op'[q], v)
    <3>1. CASE op[q] # Idle /\ op[q].user = u
      <4>1. PICK o \in Busy : o = op[q]
        BY <3>1, Underway
      <4>2. [o EXCEPT !.unlocked = TRUE].user = o.user
        BY DEF Busy
      <4> QED
        BY <2>1, <3>1, <4>1, <4>2 DEF Issuing
    <3>2. CASE ~(op[q] # Idle /\ op[q].user = u)
      BY <2>1, <3>2, SweepingMeans
    <3> QED
      BY <3>1, <3>2
  <2>3. Issued' = Issued /\ swept' \subseteq swept /\ \A v \in swept' : locked'[v]
    BY <2>1, SweepingMeans DEF Issued, TypeOK
  <2> QED
    BY <1>0, <2>2, <2>3, SweepingStays
<1>3. ASSUME NEW u \in User, NEW c \in Capability, GrantCapability(u, c) PROVE Sweeping'
  <2>1. /\ UNCHANGED <<token, locked, swept>>
        /\ \A q \in Op : op'[q] = IF op[q] # Idle /\ op[q].user = u THEN [op[q] EXCEPT !.held = @ \cup {c}] ELSE op[q]
    BY <1>3 DEF GrantCapability, Concerns, stores, history
  <2>2. ASSUME NEW v \in swept', NEW q \in Op PROVE ~Issuing(op'[q], v)
    <3>0. ~Issuing(op[q], v)
      BY <2>1, SweepingMeans
    <3>1. CASE op[q] # Idle /\ op[q].user = u
      <4>1. PICK o \in Busy : o = op[q]
        BY <3>1, Underway
      <4>2. LET n == [o EXCEPT !.held = @ \cup {c}] IN
            n.user = o.user /\ n.pc = o.pc /\ n.unlocked = o.unlocked
        BY DEF Busy
      <4> QED
        BY <2>1, <3>0, <3>1, <4>1, <4>2 DEF Issuing
    <3>2. CASE ~(op[q] # Idle /\ op[q].user = u)
      BY <2>1, <3>0, <3>2
    <3> QED
      BY <3>1, <3>2
  <2>3. Issued' = Issued /\ swept' \subseteq swept /\ \A v \in swept' : locked'[v]
    BY <2>1, SweepingMeans DEF Issued
  <2> QED
    BY <1>0, <2>2, <2>3, SweepingStays
<1>4. ASSUME UNCHANGED <<locked, swept, op>>, Issued' = Issued PROVE Sweeping'
  BY <1>0, <1>4, SweepingMeans, SweepingStays
<1>5. ASSUME NEW p \in Op, UNCHANGED <<locked, swept>>, Issued' = Issued,
             op' = [op EXCEPT ![p] = Idle]
      PROVE  Sweeping'
  BY <1>0, <1>5, SweepingOne DEF Issuing
<1>6. ASSUME NEW p \in Op, NEW pc \in {"ask", "logout", "revoke"},
             NEW u \in User, NEW t \in Token \cup {None}, Begin(p, pc, u, t)
      PROVE  Sweeping'
  <2>1. Fresh(pc, u, t) \in Busy /\ op' = [op EXCEPT ![p] = Fresh(pc, u, t)]
    BY <1>6, Began
  <2>2. UNCHANGED <<locked, swept>> /\ Issued' = Issued
    BY <1>6 DEF Begin, directory, stores, history, Issued
  <2>3. Fresh(pc, u, t).user = u /\ (Fresh(pc, u, t).unlocked <=> ~locked[u])
    BY DEF Fresh
  <2>4. \A v \in User : Issuing(Fresh(pc, u, t), v) => ~locked[v]
    BY <2>3, Zenon DEF Issuing
  <2> QED
    BY <1>0, <2>1, <2>2, <2>4, SweepingOne
<1>7. ASSUME NEW p \in Op, op[p] # Idle, NEW pc \in Points, Goto(p, pc),
             UNCHANGED <<locked, swept>>, Issued' = Issued,
             pc \in {"rotate", "capabilities"} => op[p].pc \in {"ask", "rotate"}, pc \notin {"ask", "issue"}
      PROVE  Sweeping'
  <2>1. /\ op'[p] \in Busy /\ op' = [op EXCEPT ![p] = op'[p]]
        /\ op'[p].pc = pc /\ op'[p].user = op[p].user /\ op'[p].unlocked = op[p].unlocked
    BY <1>7, GoneTo
  <2>2. PICK n \in Busy : n = op'[p]
    BY <2>1
  <2>3. \A u \in User : Issuing(n, u) => Issuing(op[p], u)
    BY <1>7, <2>1, <2>2 DEF Issuing, Points
  <2> QED
    BY <1>0, <1>7, <2>1, <2>2, <2>3, SweepingOne
<1>8. ASSUME NEW p \in Op, AskDirectory(p) PROVE Sweeping'
  <2>1. PICK pc \in {"revoke", "capabilities", "rotate"} : Goto(p, pc)
    BY <1>8 DEF AskDirectory
  <2>2. op[p] # Idle /\ op[p].pc = "ask" /\ UNCHANGED <<locked, swept>> /\ Issued' = Issued
    BY <1>8 DEF AskDirectory, Idle, directory, stores, history, Issued
  <2> QED
    BY <2>1, <2>2, <1>7 DEF Points
<1>9. ASSUME NEW p \in Op, Rotate(p) \/ SetSession(p) \/ RevokeToken(p) PROVE Sweeping'
  <2>1. PICK pc \in {"capabilities", "answer", "clear"} : Goto(p, pc) /\ (pc = "capabilities" => op[p].pc = "rotate")
    BY <1>9 DEF Rotate, SetSession, RevokeToken
  <2>2. op[p] # Idle /\ UNCHANGED <<locked, swept>>
    BY <1>9 DEF Rotate, SetSession, RevokeToken, Idle, directory, history
  <2>3. Issued' = Issued
    <3>1. op[p].token \in Issued /\ token[op[p].token] \in Row
      BY <1>9, <2>2, Underway DEF Rotate, SetSession, RevokeToken, NeedsToken
    <3>2. Issued' \subseteq Issued
      BY <1>9, <3>1 DEF Rotate, SetSession, RevokeToken, Issued, TypeOK
    <3> QED
      BY <1>0, <3>2 DEF RowsStay
  <2> QED
    BY <2>1, <2>2, <2>3, <1>7 DEF Points
<1>10. ASSUME NEW p \in Op, AskCapabilities(p) PROVE Sweeping'
  <2>1. PICK o \in Busy : o = op[p]
    BY <1>10, Underway DEF AskCapabilities, Idle
  <2>2. PICK caps \in {Capabilities(p), {}} : op' = [op EXCEPT ![p] = [o EXCEPT !.pc = "issue", !.caps = caps]]
    BY <1>10, <2>1 DEF AskCapabilities
  <2>3. caps \subseteq Capability
    BY <2>1, <2>2, Edits DEF Capabilities, TypeOK
  <2>4. LET n == [o EXCEPT !.pc = "issue", !.caps = caps] IN
        n \in Busy /\ n.user = o.user /\ n.unlocked = o.unlocked
    BY <2>3 DEF Busy
  <2>5. UNCHANGED <<locked, swept>> /\ Issued' = Issued /\ o.pc = "capabilities" /\ o # Idle
    BY <1>10, <2>1, Edits DEF AskCapabilities, directory, stores, history, Issued
  <2>6. \A u \in User : Issuing([o EXCEPT !.pc = "issue", !.caps = caps], u) => Issuing(o, u)
    BY <2>4, <2>5 DEF Issuing
  <2> QED
    BY <1>0, <2>1, <2>2, <2>4, <2>5, <2>6, SweepingOne
<1>11. ASSUME NEW p \in Op, Issue(p) PROVE Sweeping'
  <2>1. PICK o \in Busy : o = op[p]
    BY <1>11, Underway DEF Issue, Idle
  <2>2. PICK t \in Token \ Issued :
          /\ token' = [token EXCEPT ![t] = NewRow(p)]
          /\ op' = [op EXCEPT ![p] = [o EXCEPT !.pc = "session", !.token = t]]
          /\ UNCHANGED <<locked, swept>>
    BY <1>11, <2>1 DEF Issue, directory, history
  <2>3. LET n == [o EXCEPT !.pc = "session", !.token = t] IN n.pc = "session" /\ n # Idle
    BY DEF Busy, Idle
  <2>4. o # Idle /\ o.pc = "issue" /\ o.unlocked
    BY <1>11, <2>1, Edits DEF Issue, AllTold, Told
  <2>5. \A u \in swept : o.user # u
    BY <2>1, <2>4, SweepingMeans DEF Issuing
  <2>6. ASSUME NEW u \in swept, NEW x \in Live' PROVE token'[x].user # u
    <3>1. CASE x = t
      BY <2>1, <2>2, <2>5, <3>1 DEF NewRow, TypeOK
    <3>2. CASE x # t
      BY <2>2, <3>2, SweepingMeans DEF Live, Issued, TypeOK
    <3> QED
      BY <3>1, <3>2
  <2>7. ASSUME NEW u \in swept, NEW q \in Op PROVE ~Issuing(op'[q], u)
    BY <2>2, <2>3, SweepingMeans DEF Issuing, TypeOK
  <2>8. \A u \in swept' : locked'[u]
    BY <2>2, SweepingMeans
  <2> QED
    BY <2>2, <2>6, <2>7, <2>8 DEF Sweeping, Issuing, MayIssue, Concerns, Owned, Live
<1>12. ASSUME NEW p \in Op, RevokeTokens(p) PROVE Sweeping'
  <2>1. PICK o \in Busy : o = op[p]
    BY <1>12, Underway DEF RevokeTokens, Idle
  <2>2. PICK keys : op' = [op EXCEPT ![p] = [o EXCEPT !.pc = "scan", !.keys = keys]]
    BY <1>12, <2>1 DEF RevokeTokens
  <2>3. LET n == [o EXCEPT !.pc = "scan", !.keys = keys] IN n.pc = "scan"
    BY DEF Busy
  <2>4. \A q \in Op, u \in User : Issuing(op'[q], u) => Issuing(op[q], u)
    BY <2>2, <2>3 DEF Issuing, TypeOK
  <2>5. UNCHANGED locked
    BY <1>12 DEF RevokeTokens, directory
  <2>6. Issued' \subseteq Issued
    BY <1>12 DEF RevokeTokens, Issued, Owned, Unused
  <2>7. \A t \in Live' : t \in Live /\ token'[t].user = token[t].user
    BY <1>0, <2>6 DEF RowsStay, StatusesStay, Live
  <2>8. \A t \in Live' : token[t].user # o.user
    <3>1. SUFFICES ASSUME NEW t \in Live, token[t].user = o.user PROVE t \notin Live'
      BY <2>7
    <3>2. token[t] \in Row /\ t \in Token /\ t \in Owned(o.user) /\ token[t].status = "live"
      BY <3>1 DEF Live, Issued, Owned, TypeOK
    <3>3. token'[t] = [token[t] EXCEPT !.status = "revoked"]
      BY <1>12, <2>1, <3>2 DEF RevokeTokens, Revocable
    <3> QED
      BY <3>2, <3>3 DEF Live, Row
  <2>9. ASSUME NEW u \in swept'
        PROVE  locked'[u] /\ (\A q \in Op : ~Issuing(op'[q], u)) /\ \A t \in Live' : token'[t].user # u
    <3>1. CASE u \in swept
      BY <2>4, <2>5, <2>7, <3>1, SweepingMeans DEF TypeOK
    <3>2. CASE u \notin swept
      <4>1. u = o.user /\ locked[u] /\ \A q \in Op : MayIssue(q, u) => ~op[q].unlocked
        BY <1>12, <2>1, <3>2 DEF RevokeTokens
      <4>2. u \in User /\ \A q \in Op : ~Issuing(op[q], u)
        BY <4>1, Edits DEF MayIssue, Concerns, Issuing
      <4> QED
        BY <2>4, <2>5, <2>7, <2>8, <4>1, <4>2
    <3> QED
      BY <3>1, <3>2
  <2> QED
    BY <2>9 DEF Sweeping, Issuing, MayIssue, Concerns, Owned, Live
<1>13. ASSUME NEW p \in Op, NEW u \in User, Login(p, u) \/ RevokeAllSessions(p, u)
       PROVE  \E pc \in {"ask", "logout", "revoke"} : Begin(p, pc, u, None)
  BY <1>13 DEF Login, RevokeAllSessions
<1>14. ASSUME NEW p \in Op, NEW t \in Token, Refresh(p, t) \/ Logout(p, t)
       PROVE  token[t].user \in User /\ \E pc \in {"ask", "logout", "revoke"} : Begin(p, pc, token[t].user, t)
  BY <1>14 DEF Refresh, Logout, Live, Issued, TypeOK, Row, Unused
<1>15. ASSUME NEW p \in Op, Answer(p) \/ DeleteSession(p) \/ EndScan(p) \/ Stop(p)
       PROVE  op' = [op EXCEPT ![p] = Idle] /\ UNCHANGED <<locked, swept>> /\ Issued' = Issued
  BY <1>15 DEF Answer, DeleteSession, EndScan, Stop, directory, stores, history, Issued
<1>16. ASSUME NEW u \in User, NEW c \in Capability, RevokeCapability(u, c)
       PROVE  UNCHANGED <<locked, swept, op>> /\ Issued' = Issued
  BY <1>16 DEF RevokeCapability, stores, history, Issued
<1>17. ASSUME NEW t \in Token, Expire(t) \/ \E p \in Op : DropSession(p, t)
       PROVE  UNCHANGED <<locked, swept, op>> /\ Issued' = Issued
  BY <1>17 DEF Expire, DropSession, directory, history, Issued, Live, TypeOK, Row, Unused
<1>18. CASE UNCHANGED vars
  BY <1>4, <1>18 DEF vars, directory, stores, history, Issued
<1>19. ASSUME NEW p \in Op, NEW u \in User, Login(p, u) \/ RevokeAllSessions(p, u) PROVE Sweeping'
  BY <1>6, <1>13, <1>19
<1>20. ASSUME NEW p \in Op, NEW t \in Token, Refresh(p, t) \/ Logout(p, t) PROVE Sweeping'
  BY <1>6, <1>14, <1>20
<1> QED
  BY <1>1, <1>2, <1>3, <1>4, <1>5, <1>8, <1>9, <1>10, <1>11, <1>12, <1>15, <1>16, <1>17,
     <1>18, <1>19, <1>20, Steps, Zenon

(* Once the tokens of a locked account are revoked while no request older  *)
(* than the lock is left, none of its tokens is usable until it is         *)
(* unlocked.                                                               *)
THEOREM SweepsLast == Spec => []SweptStaySwept
<1>1. Init => TypeOK /\ AllTold /\ Sweeping
  BY TypeInit, ToldInit, SweepingInit
<1>2. TypeOK /\ AllTold /\ Sweeping /\ [Next]_vars => (TypeOK /\ AllTold /\ Sweeping)'
  BY TypeStep, ToldStep, SweepingStep
<1>3. Sweeping => SweptStaySwept
  BY DEF Sweeping, SweptStaySwept
<1> QED
  BY <1>1, <1>2, <1>3, PTL DEF Spec
-----------------------------------------------------------------------------
(* A request whose pair has not reached the client. *)
Unseen(o) == o # Idle /\ o.pc \in {"session", "answer"}

(* What a request works on: a refresh goes on to ask for capabilities only *)
(* when its token is over; a logout has the token of a pair that a client  *)
(* has; a pair still to be stored is one no client has.                    *)
Proper(o) ==
  o # Idle =>
    /\ (o.pc \in {"capabilities", "issue"} /\ o.token # None) => Over(o.token)
    /\ o.pc \in {"logout", "clear"} => o.token \in given
    /\ Unseen(o) => o.token \notin given

(* Every request issues a pair of its own. *)
OwnPairs ==
  \A p, q \in Op : (p # q /\ Unseen(op[p]) /\ Unseen(op[q])) => op[p].token # op[q].token

ParentsOver ==
  \A t \in Issued : token[t].parent # None => token[t].parent \in Issued /\ Over(token[t].parent)

SpentInv ==
  /\ \A p \in Op : Proper(op[p])
  /\ OwnPairs
  /\ ParentsOver
  /\ cleared \subseteq given
  /\ cleared \cap session = {}

(* No request and no pair exists at the start.                           *)
LEMMA SpentInit == Init => SpentInv
BY DEF Init, SpentInv, Proper, OwnPairs, ParentsOver, Unseen, Idle, Issued

(* A step that issues no pair leaves every parent over. *)
LEMMA ParentsStay ==
  ASSUME RowsStay, StatusesStay, ParentsOver, Issued' = Issued
  PROVE  ParentsOver'
BY DEF RowsStay, StatusesStay, ParentsOver, Over

(* Proper as it is after the step, for a request as it is then. *)
OverNext(t) == token'[t].status \in {"spent", "revoked"}

ProperNext(o) ==
  o # Idle =>
    /\ (o.pc \in {"capabilities", "issue"} /\ o.token # None) => OverNext(o.token)
    /\ o.pc \in {"logout", "clear"} => o.token \in given'
    /\ Unseen(o) => o.token \notin given'

(* Proper after a step, request by request.                              *)
LEMMA ProperNexts ==
  ASSUME \A q \in Op : ProperNext(op'[q])
  PROVE  (\A q \in Op : Proper(op[q]))'
BY DEF Proper, ProperNext, Unseen, Over, OverNext

(* A request stays proper while its token and its point stay. *)
LEMMA ProperStays ==
  ASSUME TypeOK, RowsStay, StatusesStay, given \subseteq given',
         NEW q \in Op, Proper(op[q]),
         NEW r, r # Idle => op[q] # Idle /\ r.pc = op[q].pc /\ r.token = op[q].token,
         Unseen(op[q]) => op[q].token \notin given'
  PROVE  ProperNext(r)
<1>1. CASE r = Idle
  BY <1>1 DEF ProperNext
<1>2. CASE r # Idle
  <2>1. op[q] # Idle /\ r.pc = op[q].pc /\ r.token = op[q].token
    BY <1>2
  <2>2. (r.pc \in {"capabilities", "issue"} /\ r.token # None) => OverNext(r.token)
    <3>1. op[q].token # None => op[q].token \in Issued
      BY <2>1, Underway
    <3> QED
      BY <2>1, <3>1 DEF Proper, StatusesStay, Over, OverNext
  <2>3. r.pc \in {"logout", "clear"} => r.token \in given'
    BY <2>1 DEF Proper
  <2>4. Unseen(r) => r.token \notin given'
    BY <2>1 DEF Unseen
  <2> QED
    BY <2>2, <2>3, <2>4 DEF ProperNext
<1> QED
  BY <1>1, <1>2

(* A step in which no request moves. *)
LEMMA SpentSame ==
  ASSUME TypeOK, RowsStay, StatusesStay, SpentInv, UNCHANGED given, Issued' = Issued,
         cleared' = cleared, session' \subseteq session,
         \A q \in Op : op'[q] # Idle =>
            op[q] # Idle /\ op'[q].pc = op[q].pc /\ op'[q].token = op[q].token
  PROVE  SpentInv'
<1>1. ASSUME NEW q \in Op PROVE ProperNext(op'[q])
  <2>1. Proper(op[q]) /\ (Unseen(op[q]) => op[q].token \notin given')
    BY DEF SpentInv, Proper, Unseen
  <2> QED
    BY <2>1, ProperStays
<1>2. OwnPairs'
  BY DEF SpentInv, OwnPairs, Unseen
<1>3. (cleared \subseteq given)' /\ (cleared \cap session = {})'
  BY DEF SpentInv
<1> QED
  BY <1>1, <1>2, <1>3, ParentsStay, ProperNexts DEF SpentInv

(* A step that takes request p to n. *)
LEMMA SpentOne ==
  ASSUME TypeOK, RowsStay, StatusesStay, SpentInv, given \subseteq given',
         NEW p \in Op, NEW n \in {Idle} \cup Busy, op' = [op EXCEPT ![p] = n],
         \A q \in Op \ {p} : Unseen(op[q]) => op[q].token \notin given',
         n # Idle =>
           /\ (n.pc \in {"capabilities", "issue"} /\ n.token # None) => Over(n.token)'
           /\ n.pc \in {"logout", "clear"} => n.token \in given'
           /\ Unseen(n) => n.token \notin given'
           /\ \A q \in Op \ {p} : (Unseen(n) /\ Unseen(op[q])) => n.token # op[q].token,
         cleared' \subseteq given', cleared' \cap session' = {},
         ParentsOver'
  PROVE  SpentInv'
<1>1. \A q \in Op : op'[q] = IF q = p THEN n ELSE op[q]
  BY DEF TypeOK
<1>2. ASSUME NEW q \in Op PROVE ProperNext(op'[q])
  <2>1. CASE q = p
    BY <1>1, <2>1 DEF ProperNext, OverNext, Over
  <2>2. CASE q # p
    <3>1. Proper(op[q]) /\ (Unseen(op[q]) => op[q].token \notin given')
      BY <2>2 DEF SpentInv
    <3>2. op'[q] = op[q]
      BY <1>1, <2>2
    <3> QED
      BY <3>1, <3>2, ProperStays
  <2> QED
    BY <2>1, <2>2
<1>3. OwnPairs'
  <2>1. ASSUME NEW q1 \in Op, NEW q2 \in Op, q1 # q2, Unseen(op'[q1]), Unseen(op'[q2])
        PROVE  op'[q1].token # op'[q2].token
    BY <1>1, <2>1 DEF SpentInv, OwnPairs, Unseen
  <2> QED
    BY <2>1 DEF OwnPairs, Unseen
<1> QED
  BY <1>2, <1>3, ProperNexts DEF SpentInv

(* A request that ends, or stops, and gives no pair to a client. *)
LEMMA SpentEnds ==
  ASSUME TypeOK, RowsStay, StatusesStay, SpentInv, UNCHANGED <<given, session, cleared>>,
         Issued' = Issued, NEW p \in Op, op' = [op EXCEPT ![p] = Idle]
  PROVE  SpentInv'
<1>1. \A q \in Op : op'[q] # Idle => op'[q] = op[q]
  BY DEF TypeOK
<1> QED
  BY <1>1, SpentSame

(* A request that goes on to n with the token it has. *)
LEMMA SpentGoes ==
  ASSUME TypeOK, RowsStay, StatusesStay, SpentInv, UNCHANGED given, Issued' = Issued,
         cleared' = cleared, cleared' \cap session' = {},
         NEW p \in Op, op[p] # Idle, NEW n \in Busy, op' = [op EXCEPT ![p] = n],
         n.token = op[p].token,
         (n.pc \in {"capabilities", "issue"} /\ n.token # None) => Over(n.token)',
         n.pc \in {"logout", "clear"} => op[p].pc \in {"logout", "clear"},
         n.pc \in {"session", "answer"} => op[p].pc \in {"session", "answer"}
  PROVE  SpentInv'
<1>1. Proper(op[p])
  BY DEF SpentInv
<1>2. n.pc \in {"logout", "clear"} => n.token \in given'
  BY <1>1 DEF Proper
<1>3. Unseen(n) => Unseen(op[p]) /\ n.token \notin given'
  BY <1>1 DEF Proper, Unseen
<1>4. \A q \in Op \ {p} : (Unseen(n) /\ Unseen(op[q])) => n.token # op[q].token
  BY <1>3 DEF SpentInv, OwnPairs
<1>5. \A q \in Op \ {p} : Unseen(op[q]) => op[q].token \notin given'
  BY DEF SpentInv, Proper, Unseen
<1>6. cleared' \subseteq given'
  BY DEF SpentInv
<1>7. ParentsOver'
  BY ParentsStay DEF SpentInv
<1> QED
  BY <1>2, <1>3, <1>4, <1>5, <1>6, <1>7, SpentOne

(* Every step keeps the invariant: Rotate is what makes a token over     *)
(* before Issue makes it a parent, and Answer what gives a pair to a     *)
(* client after SetSession stored it.                                    *)
LEMMA SpentStep == TypeOK /\ SpentInv /\ [Next]_vars => SpentInv'
<1> SUFFICES ASSUME TypeOK, SpentInv, [Next]_vars PROVE SpentInv'
  OBVIOUS
<1>0. RowsStay /\ StatusesStay /\ cleared \cap session = {} /\ cleared \subseteq given
  BY StoresStep, StatusStep DEF SpentInv
<1>1. ASSUME NEW u \in User, Lock(u) \/ \E c \in Capability : RevokeCapability(u, c)
      PROVE  SpentInv'
  <2>1. UNCHANGED <<op, given, session, cleared, token>>
    BY <1>1 DEF Lock, RevokeCapability, stores, history
  <2> QED
    BY <1>0, <2>1, SpentSame DEF Issued
<1>2. ASSUME NEW u \in User, Unlock(u) PROVE SpentInv'
  <2>1. /\ UNCHANGED <<given, session, cleared, token>>
        /\ \A q \in Op : op'[q] = IF op[q] # Idle /\ op[q].user = u THEN [op[q] EXCEPT !.unlocked = TRUE] ELSE op[q]
    BY <1>2 DEF Unlock, Concerns, stores
  <2>2. ASSUME NEW o \in Busy
        PROVE  LET r == [o EXCEPT !.unlocked = TRUE] IN r.pc = o.pc /\ r.token = o.token
    BY DEF Busy
  <2>3. \A q \in Op : op'[q] # Idle =>
           op[q] # Idle /\ op'[q].pc = op[q].pc /\ op'[q].token = op[q].token
    BY <2>1, <2>2, Underway
  <2> QED
    BY <1>0, <2>1, <2>3, SpentSame DEF Issued
<1>3. ASSUME NEW u \in User, NEW c \in Capability, GrantCapability(u, c) PROVE SpentInv'
  <2>1. /\ UNCHANGED <<given, session, cleared, token>>
        /\ \A q \in Op : op'[q] = IF op[q] # Idle /\ op[q].user = u THEN [op[q] EXCEPT !.held = @ \cup {c}] ELSE op[q]
    BY <1>3 DEF GrantCapability, Concerns, stores, history
  <2>2. ASSUME NEW o \in Busy
        PROVE  LET r == [o EXCEPT !.held = @ \cup {c}] IN r.pc = o.pc /\ r.token = o.token
    BY DEF Busy
  <2>3. \A q \in Op : op'[q] # Idle =>
           op[q] # Idle /\ op'[q].pc = op[q].pc /\ op'[q].token = op[q].token
    BY <2>1, <2>2, Underway
  <2> QED
    BY <1>0, <2>1, <2>3, SpentSame DEF Issued
<1>4. ASSUME NEW p \in Op, NEW pc \in {"ask", "logout", "revoke"},
             NEW u \in User, NEW t \in Token \cup {None}, Begin(p, pc, u, t),
             pc = "logout" => t \in given
      PROVE  SpentInv'
  <2>1. Fresh(pc, u, t) \in Busy /\ op' = [op EXCEPT ![p] = Fresh(pc, u, t)]
    BY <1>4, Began
  <2>2. PICK n \in Busy : n = Fresh(pc, u, t)
    BY <2>1
  <2>3. n.pc = pc /\ n.token = t
    BY <2>2 DEF Fresh
  <2>4. UNCHANGED <<given, session, cleared, token>> /\ Issued' = Issued
    BY <1>4 DEF Begin, stores, history, Issued
  <2>5. ~Unseen(n) /\ n.pc \notin {"capabilities", "issue", "clear"}
    BY <2>3 DEF Unseen
  <2>6. \A q \in Op \ {p} : Unseen(op[q]) => op[q].token \notin given'
    BY <2>4 DEF SpentInv, Proper, Unseen
  <2>7. ParentsOver'
    BY <1>0, <2>4, ParentsStay DEF SpentInv
  <2>8. n.pc = "logout" => n.token \in given'
    BY <1>4, <2>3, <2>4
  <2> QED
    BY <1>0, <2>1, <2>2, <2>4, <2>5, <2>6, <2>7, <2>8, SpentOne
<1>5. ASSUME NEW p \in Op, NEW u \in User, Login(p, u) \/ RevokeAllSessions(p, u) PROVE SpentInv'
  BY <1>4, <1>5 DEF Login, RevokeAllSessions
<1>6. ASSUME NEW p \in Op, NEW t \in Token, Refresh(p, t) \/ Logout(p, t) PROVE SpentInv'
  <2>1. token[t].user \in User /\ t \in given
    BY <1>6 DEF Refresh, Logout, Live, Issued, TypeOK, Row, Unused
  <2>2. Begin(p, "ask", token[t].user, t) \/ Begin(p, "logout", token[t].user, t)
    BY <1>6 DEF Refresh, Logout
  <2> QED
    BY <1>4, <2>1, <2>2
<1>7. ASSUME NEW p \in Op, AskDirectory(p) PROVE SpentInv'
  <2>1. op[p] # Idle /\ op[p].pc = "ask"
    BY <1>7 DEF AskDirectory, Idle
  <2>2. PICK pc \in {"revoke", "capabilities", "rotate"} :
           Goto(p, pc) /\ (pc = "capabilities" => op[p].token = None)
    BY <1>7 DEF AskDirectory
  <2>3. UNCHANGED <<given, session, cleared, token>> /\ Issued' = Issued
    BY <1>7 DEF AskDirectory, stores, history, Issued
  <2>4. op'[p] \in Busy /\ op' = [op EXCEPT ![p] = op'[p]] /\ op'[p].pc = pc /\ op'[p].token = op[p].token
    BY <2>1, <2>2, GoneTo DEF Points
  <2> QED
    BY <1>0, <2>1, <2>2, <2>3, <2>4, SpentGoes
<1>8. ASSUME NEW p \in Op, Rotate(p) PROVE SpentInv'
  <2>1. op[p] # Idle /\ op[p].pc = "rotate" /\ Goto(p, "capabilities")
    BY <1>8 DEF Rotate, Idle
  <2>2. op[p].token \in Issued /\ token[op[p].token] \in Row
    BY <2>1, Underway DEF NeedsToken
  <2>3. Issued' = Issued /\ OverNext(op[p].token)
    <3>1. PICK st \in {"spent", "revoked"} : token' = [token EXCEPT ![op[p].token].status = st]
      BY <1>8, <2>2 DEF Rotate, Row
    <3>2. OverNext(op[p].token)
      BY <2>2, <3>1 DEF OverNext, TypeOK, Row, Issued
    <3>3. Issued' \subseteq Issued
      BY <2>2, <3>1 DEF Issued, TypeOK
    <3> QED
      BY <1>0, <3>2, <3>3 DEF RowsStay
  <2>4. op'[p] \in Busy /\ op' = [op EXCEPT ![p] = op'[p]] /\ op'[p].pc = "capabilities" /\ op'[p].token = op[p].token
    BY <2>1, GoneTo DEF Points
  <2>5. UNCHANGED <<given, session, cleared>>
    BY <1>8 DEF Rotate, history
  <2>6. PICK n \in Busy : n = op'[p]
    BY <2>4
  <2>7. Over(n.token)'
    BY <2>3, <2>4, <2>6 DEF Over, OverNext
  <2> QED
    BY <1>0, <2>1, <2>3, <2>4, <2>5, <2>6, <2>7, SpentGoes
<1>9. ASSUME NEW p \in Op, AskCapabilities(p) PROVE SpentInv'
  <2>1. PICK o \in Busy : o = op[p]
    BY <1>9, Underway DEF AskCapabilities, Idle
  <2>2. PICK caps \in {Capabilities(p), {}} : op' = [op EXCEPT ![p] = [o EXCEPT !.pc = "issue", !.caps = caps]]
    BY <1>9, <2>1 DEF AskCapabilities
  <2>3. caps \subseteq Capability
    BY <2>1, <2>2, Edits DEF Capabilities, TypeOK
  <2>4. PICK n \in Busy : n = [o EXCEPT !.pc = "issue", !.caps = caps] /\ n.pc = "issue" /\ n.token = o.token
    <3>1. LET r == [o EXCEPT !.pc = "issue", !.caps = caps] IN
          r \in Busy /\ r.pc = "issue" /\ r.token = o.token
      BY <2>3 DEF Busy
    <3> QED
      BY <3>1
  <2>5. UNCHANGED <<given, session, cleared, token>> /\ Issued' = Issued /\ o.pc = "capabilities" /\ o # Idle
    BY <1>9, <2>1, Edits DEF AskCapabilities, stores, history, Issued
  <2>6. n.token # None => Over(n.token)'
    BY <2>1, <2>4, <2>5 DEF SpentInv, Proper, Over
  <2> QED
    BY <1>0, <2>1, <2>2, <2>4, <2>5, <2>6, SpentGoes
<1>10. ASSUME NEW p \in Op, Issue(p) PROVE SpentInv'
  <2>1. PICK o \in Busy : o = op[p]
    BY <1>10, Underway DEF Issue, Idle
  <2>2. PICK t \in Token \ Issued :
          /\ token' = [token EXCEPT ![t] = NewRow(p)]
          /\ op' = [op EXCEPT ![p] = [o EXCEPT !.pc = "session", !.token = t]]
          /\ UNCHANGED <<session, given, cleared>>
    BY <1>10, <2>1, ZenonT(40) DEF Issue, history
  <2>3. PICK n \in Busy : n = [o EXCEPT !.pc = "session", !.token = t] /\ n.pc = "session" /\ n.token = t
    <3>1. LET r == [o EXCEPT !.pc = "session", !.token = t] IN
          r \in Busy /\ r.pc = "session" /\ r.token = t
      BY DEF Busy
    <3> QED
      BY <3>1
  <2>4. o # Idle /\ o.pc = "issue"
    BY <1>10, <2>1, Edits DEF Issue
  <2>5. t \notin given
    BY <2>2 DEF TypeOK
  <2>6. \A q \in Op : Unseen(op[q]) => op[q].token \in Issued
    BY Underway DEF Unseen, NeedsToken
  <2>7. \A q \in Op \ {p} : Unseen(op[q]) => op[q].token \notin given' /\ n.token # op[q].token
    BY <2>2, <2>3, <2>6 DEF SpentInv, Proper, Unseen
  <2>8. ParentsOver'
    <3>1. token'[t].parent = o.token
      BY <2>1, <2>2 DEF NewRow, TypeOK
    <3>2. o.token # None => o.token \in Issued /\ Over(o.token)
      BY <2>1, <2>4, Underway DEF SpentInv, Proper
    <3>3. Issued' \subseteq Issued \cup {t}
      BY <2>2 DEF Issued, TypeOK
    <3>4. \A x \in Issued : x \in Issued' /\ (Over(x) => Over(x)') /\ token'[x].parent = token[x].parent
      BY <1>0 DEF RowsStay, StatusesStay
    <3>5. ASSUME NEW x \in Issued', token'[x].parent # None
          PROVE  token'[x].parent \in Issued /\ Over(token'[x].parent)
      BY <3>1, <3>2, <3>3, <3>4, <3>5 DEF SpentInv, ParentsOver
    <3>6. ASSUME NEW x \in Issued', token'[x].parent # None, NEW y, y = token'[x].parent
          PROVE  y \in Issued' /\ Over(y)'
      BY <3>4, <3>5, <3>6
    <3> QED
      BY <3>6 DEF ParentsOver, Over
  <2>9. \A q \in Op \ {p} : (Unseen(n) /\ Unseen(op[q])) => n.token # op[q].token
    BY <2>7
  <2>10. cleared' \subseteq given' /\ cleared' \cap session' = {}
    BY <1>0, <2>2
  <2>11. /\ n.pc \notin {"capabilities", "issue", "logout", "clear"}
         /\ n.token \notin given' /\ given \subseteq given'
    BY <2>2, <2>3, <2>5
  <2>12. \A q \in Op \ {p} : Unseen(op[q]) => op[q].token \notin given'
    BY <2>7
  <2>13. op' = [op EXCEPT ![p] = n]
    BY <2>2, <2>3
  <2> QED
    BY <1>0, <2>8, <2>9, <2>10, <2>11, <2>12, <2>13, SpentOne
<1>11. ASSUME NEW p \in Op, SetSession(p) PROVE SpentInv'
  <2>1. op[p] # Idle /\ op[p].pc = "session" /\ Goto(p, "answer") /\ UNCHANGED <<token, given, cleared>> /\ Issued' = Issued
    BY <1>11 DEF SetSession, Idle, history, Issued
  <2>2. op'[p] \in Busy /\ op' = [op EXCEPT ![p] = op'[p]] /\ op'[p].pc = "answer" /\ op'[p].token = op[p].token
    BY <2>1, GoneTo DEF Points
  <2>3. op[p].token \notin given
    BY <2>1 DEF SpentInv, Proper, Unseen
  <2>4. cleared' \cap session' = {}
    BY <1>0, <1>11, <2>1, <2>3 DEF SetSession
  <2> QED
    BY <1>0, <2>1, <2>2, <2>4, SpentGoes
<1>12. ASSUME NEW p \in Op, Answer(p) PROVE SpentInv'
  <2>1. op' = [op EXCEPT ![p] = Idle] /\ given' = given \cup {op[p].token} /\ UNCHANGED <<token, session, cleared>>
    BY <1>12 DEF Answer, stores, history
  <2>2. op[p] # Idle /\ Unseen(op[p])
    BY <1>12 DEF Answer, Idle, Unseen
  <2>3. ASSUME NEW q \in Op \ {p}, Unseen(op[q]) PROVE op[q].token \notin given'
    <3>1. op[q].token # op[p].token
      BY <2>2, <2>3 DEF SpentInv, OwnPairs
    <3>2. op[q].token \notin given
      BY <2>3 DEF SpentInv, Proper, Unseen
    <3> QED
      BY <2>1, <3>1, <3>2
  <2>4. ParentsOver'
    BY <1>0, <2>1, ParentsStay DEF SpentInv, Issued
  <2>5. cleared' \subseteq given' /\ cleared' \cap session' = {}
    BY <1>0, <2>1
  <2> QED
    BY <1>0, <2>1, <2>3, <2>4, <2>5, SpentOne
<1>13. ASSUME NEW p \in Op, RevokeToken(p) PROVE SpentInv'
  <2>1. op[p] # Idle /\ op[p].pc = "logout" /\ Goto(p, "clear") /\ UNCHANGED <<session, given, cleared>>
    BY <1>13 DEF RevokeToken, Idle, history
  <2>2. op'[p] \in Busy /\ op' = [op EXCEPT ![p] = op'[p]] /\ op'[p].pc = "clear" /\ op'[p].token = op[p].token
    BY <2>1, GoneTo DEF Points
  <2>3. op[p].token \in Issued
    BY <2>1, Underway DEF NeedsToken
  <2>4. Issued' \subseteq Issued
    BY <1>13, <2>3 DEF RevokeToken, Issued, TypeOK
  <2>5. Issued' = Issued
    BY <1>0, <2>4 DEF RowsStay
  <2> QED
    BY <1>0, <2>1, <2>2, <2>5, SpentGoes
<1>14. ASSUME NEW p \in Op, DeleteSession(p) PROVE SpentInv'
  <2>1. /\ op' = [op EXCEPT ![p] = Idle] /\ UNCHANGED <<token, given>>
        /\ session' = session \ {op[p].token} /\ cleared' = cleared \cup {op[p].token}
    BY <1>14 DEF DeleteSession
  <2>2. op[p].token \in given
    BY <1>14 DEF DeleteSession, SpentInv, Proper, Idle
  <2>3. \A q \in Op \ {p} : Unseen(op[q]) => op[q].token \notin given'
    BY <2>1 DEF SpentInv, Proper, Unseen
  <2>4. ParentsOver'
    BY <1>0, <2>1, ParentsStay DEF SpentInv, Issued
  <2>5. cleared' \subseteq given' /\ cleared' \cap session' = {}
    BY <1>0, <2>1, <2>2
  <2> QED
    BY <1>0, <2>1, <2>3, <2>4, <2>5, SpentOne
<1>15. ASSUME NEW p \in Op, RevokeTokens(p) PROVE SpentInv'
  <2>1. PICK o \in Busy : o = op[p]
    BY <1>15, Underway DEF RevokeTokens, Idle
  <2>2. PICK keys \in SUBSET Token : op' = [op EXCEPT ![p] = [o EXCEPT !.pc = "scan", !.keys = keys]]
    BY <1>15, <2>1, ZenonT(40) DEF RevokeTokens, TypeOK, Issued
  <2>3. PICK n \in Busy : n = [o EXCEPT !.pc = "scan", !.keys = keys] /\ n.pc = "scan" /\ n.token = o.token
    <3>1. LET r == [o EXCEPT !.pc = "scan", !.keys = keys] IN
          r \in Busy /\ r.pc = "scan" /\ r.token = o.token
      BY DEF Busy
    <3> QED
      BY <3>1
  <2>4. Issued' \subseteq Issued
    BY <1>15 DEF RevokeTokens, Issued, Owned, Unused
  <2>5. UNCHANGED <<session, given, cleared>> /\ Issued' = Issued
    BY <1>0, <1>15, <2>4 DEF RevokeTokens, RowsStay
  <2>6. o # Idle
    BY Edits
  <2> QED
    BY <1>0, <2>1, <2>2, <2>3, <2>5, <2>6, SpentGoes
<1>16. ASSUME NEW p \in Op, EndScan(p) \/ Stop(p) PROVE SpentInv'
  <2>1. op' = [op EXCEPT ![p] = Idle] /\ UNCHANGED <<token, session, given, cleared>>
    BY <1>16 DEF EndScan, Stop, stores, history
  <2> QED
    BY <1>0, <2>1, SpentEnds DEF Issued
<1>17. ASSUME NEW t \in Token, Expire(t) \/ \E p \in Op : DropSession(p, t) PROVE SpentInv'
  <2>1. UNCHANGED <<op, given, cleared>> /\ session' \subseteq session
    BY <1>17 DEF Expire, DropSession, directory, history
  <2>2. Issued' = Issued
    BY <1>17 DEF Expire, DropSession, Issued, Live, TypeOK, Row, Unused
  <2> QED
    BY <1>0, <2>1, <2>2, SpentSame
<1>18. CASE UNCHANGED vars
  <2>1. UNCHANGED <<op, given, session, cleared, token>>
    BY <1>18 DEF vars, stores, history
  <2> QED
    BY <1>0, <2>1, SpentSame DEF Issued
<1> QED
  BY <1>1, <1>2, <1>3, <1>5, <1>6, <1>7, <1>8, <1>9, <1>10, <1>11, <1>12, <1>13, <1>14, <1>15,
     <1>16, <1>17, <1>18, Steps, Zenon

(* A token that was exchanged is over for good, however refreshes of it    *)
(* run together or stop half-way, and the session that a logout deleted    *)
(* is never stored again: a pair reaches the client, which alone can log   *)
(* out of it, after its session is stored.                                 *)
THEOREM RotatedStaysSpent == Spec => []SpentStaysSpent
<1>1. Init => TypeOK /\ SpentInv
  BY TypeInit, SpentInit
<1>2. TypeOK /\ SpentInv /\ [Next]_vars => (TypeOK /\ SpentInv)'
  BY TypeStep, SpentStep
<1>3. SpentInv => SpentStaysSpent
  BY DEF SpentInv, ParentsOver, Over, SpentStaysSpent, RotationSpends, ClearedStaysCleared
<1> QED
  BY <1>1, <1>2, <1>3, PTL DEF Spec
=============================================================================
