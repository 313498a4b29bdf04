-------------------------- MODULE DocumentsProofs --------------------------
(***************************************************************************)
(* Theorems about TaskDocuments, RecordTransfer, Disposal and              *)
(* DocumentStore, as MCDocuments puts them together, for any number of     *)
(* requests, users, files, packages, holds, documents, versions and keys.  *)
(***************************************************************************)
EXTENDS MCDocuments, Sequences, TLAPS

(* The run explores one part at a time: each of its behaviours is one of   *)
(* every part, so that what is proved of a part holds in the run.          *)
THEOREM PartsBehave == SpecOfOne => T!Spec /\ R!Spec /\ D!Spec /\ S!Spec
<1>1. InitOfAll => T!Init /\ R!Init /\ D!Init /\ S!Init
  BY DEF InitOfAll
<1>2. [NextOfOne]_<<part, tasks, access, records, disposals, store>> =>
        /\ [T!Next]_T!vars /\ [R!Next]_R!transfer /\ [D!Next]_D!disposal /\ [S!Next]_S!store
  <2>1. UNCHANGED tasks => UNCHANGED T!vars
    BY DEF tasks, T!vars, T!tables
  <2>2. UNCHANGED records => UNCHANGED R!transfer
    BY DEF records, R!transfer
  <2>3. UNCHANGED disposals => UNCHANGED D!disposal
    BY DEF disposals, D!disposal
  <2>4. UNCHANGED store => UNCHANGED S!store
    BY DEF store, S!store
  <2>. QED
    BY <2>1, <2>2, <2>3, <2>4 DEF NextOfOne
<1>. QED
  BY <1>1, <1>2, PTL DEF SpecOfOne, T!Spec, R!Spec, D!Spec, S!Spec

(* What the parts of the Document Service call NoUser is nobody in each. *)
LEMMA Bounds ==
  /\ R!NoUser \notin User /\ D!NoUser \notin User /\ T!NoUser \notin User
  /\ {TaskRequests, RecordRequests, DisposalRequests, MaxCalls} \subseteq Nat
  /\ {MaxPackages, MaxHolds, MaxRequests, MaxLate} \subseteq Nat
BY DocumentAssumption, DocumentsAssumption DEF NoUser, R!NoUser, D!NoUser, T!NoUser
-----------------------------------------------------------------------------
(* TaskDocuments: the association of a document and its grants.            *)
LEMMA NoCallIs == T!NoCall.step = "none" /\ T!NoCall.do = "none" /\ T!NoCall.who = {}
                  /\ T!NoCall \notin T!Call
BY DEF T!NoCall, T!Call

(* What a request is that does nothing. *)
LEMMA NotBusyIs == T!Idle \in T!Request /\ T!Idle.pc = "idle" /\ T!Idle.call = T!NoCall
                   /\ T!Idle.made = FALSE /\ T!Idle.todo = {}
BY DEF T!Idle, T!Request

(* What a call is that was just sent. *)
LEMMA SendIs ==
  ASSUME NEW do \in {"grant", "revoke", "remove"}, NEW who \in SUBSET User
  PROVE  /\ T!Send(do, who) \in T!Call /\ T!Send(do, who).do = do /\ T!Send(do, who).who = who
         /\ T!Send(do, who).step = "sent"
BY DEF T!Send, T!Call

(* One step of the Permission Service, by the kind of call and how far it  *)
(* has come.                                                               *)
LEMMA ProgressIs ==
  ASSUME NEW c \in T!Call, ~T!Ended(c), granted \subseteq User
  PROVE  /\ T!Progress(c) \in T!Call /\ T!Progress(c).do = c.do
         /\ T!Progress(c).step \in {"read", "done", "refused"}
         /\ c.step = "sent" /\ c.do = "revoke" =>
              T!Progress(c).step = "read" /\ T!Progress(c).who = granted
         /\ ~(c.step = "sent" /\ c.do = "revoke") => T!Progress(c).who = c.who
         /\ c.step = "sent" /\ c.do = "grant" =>
              T!Progress(c).step = (IF attached \/ c.who \subseteq granted THEN "read" ELSE "refused")
         /\ c.step = "read" \/ c.do = "remove" => T!Progress(c).step = "done"
         /\ T!Result(c) \subseteq User
         /\ c.step = "read" /\ c.do = "grant" => T!Result(c) = granted \cup c.who
         /\ c.step = "read" /\ c.do = "revoke" => T!Result(c) = granted \ c.who
         /\ c.step = "sent" /\ c.do = "remove" => T!Result(c) = granted \ c.who
         /\ c.step = "sent" /\ c.do # "remove" => T!Result(c) = granted
         /\ ~(c.step = "read" /\ c.do = "grant") => T!Result(c) \subseteq granted
<1>1. c.do \in {"grant", "revoke", "remove"} /\ c.step \in {"sent", "read"} /\ c.who \in SUBSET User
  BY DEF T!Call, T!Ended
<1>2. CASE c.step = "sent" /\ c.do = "grant"
  <2>1. T!Progress(c) =
          [c EXCEPT !.step = IF attached \/ c.who \subseteq granted THEN "read" ELSE "refused"]
    BY <1>2 DEF T!Progress
  <2>2. T!Result(c) = granted
    BY <1>2 DEF T!Result
  <2>. QED
    BY <1>1, <1>2, <2>1, <2>2 DEF T!Call
<1>3. CASE c.step = "sent" /\ c.do = "revoke"
  <2>1. T!Progress(c) = [c EXCEPT !.step = "read", !.who = granted]
    BY <1>3 DEF T!Progress
  <2>2. T!Result(c) = granted
    BY <1>3 DEF T!Result
  <2>. QED
    BY <1>1, <1>3, <2>1, <2>2 DEF T!Call
<1>4. CASE c.step = "sent" /\ c.do = "remove"
  <2>1. T!Progress(c) = [c EXCEPT !.step = "done"]
    BY <1>4 DEF T!Progress
  <2>2. T!Result(c) = granted \ c.who
    BY <1>4 DEF T!Result
  <2>. QED
    BY <1>1, <1>4, <2>1, <2>2 DEF T!Call
<1>5. CASE c.step = "read"
  <2>1. T!Progress(c) = [c EXCEPT !.step = "done"]
    BY <1>5 DEF T!Progress
  <2>2. /\ c.do = "grant" => T!Result(c) = granted \cup c.who
        /\ c.do = "revoke" => T!Result(c) = granted \ c.who
        /\ c.do = "remove" => T!Result(c) = granted
    BY <1>5 DEF T!Result
  <2>. QED
    BY <1>1, <1>5, <2>1, <2>2 DEF T!Call
<1>. QED
  BY <1>1, <1>2, <1>3, <1>4, <1>5

(* Awaited, one implication for each place where a call is awaited. *)
LEMMA AwaitedIs ==
  ASSUME NEW o \in T!Request
  PROVE  T!Awaited(o) <=>
           /\ o.pc \in {"idle", "attach", "undo", "detach"} => o.call = T!NoCall
           /\ o.pc = "granting" => o.call = T!NoCall \/ o.call.do = "grant"
           /\ o.pc \in {"revoke", "detached"} => o.call.do = "revoke"
           /\ o.pc = "add" => o.call.do = "grant"
           /\ o.pc = "remove" => o.call.do = "remove"
<1>1. o.pc \in {"idle", "attach", "granting", "revoke", "undo", "detach", "detached", "add", "remove"}
  BY DEF T!Request
<1>2. CASE o.pc \in {"idle", "attach", "undo", "detach"}
  BY <1>2 DEF T!Awaited
<1>3. CASE o.pc = "granting"
  BY <1>3 DEF T!Awaited
<1>4. CASE o.pc \in {"revoke", "detached"}
  BY <1>4 DEF T!Awaited
<1>5. CASE o.pc = "add"
  BY <1>5 DEF T!Awaited
<1>6. CASE o.pc = "remove"
  BY <1>6 DEF T!Awaited
<1>. QED
  BY <1>1, <1>2, <1>3, <1>4, <1>5, <1>6
-----------------------------------------------------------------------------
(* The two tables agree about a user for whom nothing is in doubt; while a *)
(* request is under way, where it has come is all that stands between.     *)
Agree(u) == u \in granted <=> u \in named

Doing(o, u) ==
  /\ o.pc = "idle" => o = T!Idle
  /\ o.pc \in {"attach", "detach"} => Agree(u)
  /\ o.pc \in {"granting", "detach", "add", "remove"} => attached
  /\ o.pc = "granting" =>
       /\ u \in named <=> u \in granted \/ u \in o.todo \/ u \in o.call.who
       /\ o.call.step = "done" /\ u \in o.call.who => u \in granted
       /\ ~o.made /\ u \in granted => o.call.step = "done" /\ u \in o.call.who
  /\ o.pc \in {"revoke", "detached"} =>
       /\ o.call.step = "read" => (u \in o.call.who <=> u \in granted)
       /\ o.call.step \in {"done", "refused"} => u \notin granted
  /\ o.pc = "detached" => ~attached
  /\ o.pc = "undo" => u \notin granted
  /\ o.pc = "add" =>
       (u \in granted <=> u \in named \/ (o.call.step = "done" /\ u \in o.call.who))
  /\ o.pc = "remove" =>
       /\ o.call.step # "read"
       /\ u \in granted <=> u \in named /\ ~(o.call.step = "done" /\ u \in o.call.who)

(* No late call may still change what the user has. *)
Spared(u) == \A c \in late : c.do # "revoke" /\ u \notin c.who

Clear(u) ==
  /\ Spared(u)
  /\ \A g, h \in Handler : T!Busy(g) /\ T!Busy(h) => g = h
  /\ \A h \in Handler : Doing(op[h], u)
  /\ (\A h \in Handler : ~T!Busy(h)) => Agree(u)

TablesInv ==
  /\ T!TypeOK
  /\ ~attached => named = {}
  /\ \A u \in User \ doubt : Clear(u)

(* A request that does nothing stands between no tables. *)
LEMMA IdleDoing == \A u : Doing(T!Idle, u)
BY NotBusyIs DEF Doing

(* Every initial state satisfies the invariant. *)
LEMMA TablesInit == T!Init => TablesInv
<1>. SUFFICES ASSUME T!Init PROVE TablesInv
  OBVIOUS
<1>1. op \in [Handler -> T!Request] /\ \A h \in Handler : op[h] = T!Idle
  BY NotBusyIs DEF T!Init
<1>2. \A h \in Handler : T!Awaited(op[h])
  BY <1>1, NotBusyIs, AwaitedIs
<1>3. requests \in 0 .. TaskRequests
  BY Bounds DEF T!Init
<1>4. T!TypeOK
  BY <1>1, <1>2, <1>3 DEF T!TypeOK, T!Init
<1>5. \A u \in User : Clear(u)
  BY <1>1, IdleDoing DEF T!Init, T!Busy, Clear, Spared, Agree
<1>. QED
  BY <1>4, <1>5 DEF TablesInv, T!Init

(* The rows that no step of a request touches otherwise. *)
Rows == /\ attached \in BOOLEAN /\ granted \subseteq User /\ named \subseteq User
        /\ late \subseteq {c \in T!Call : ~T!Ended(c)}
        /\ requests \in 0 .. TaskRequests /\ doubt \subseteq User
        /\ ~attached => named = {}

(* A request under way takes a step: what is left to show is that the      *)
(* tables keep their types and, for each user who is not in doubt then,    *)
(* what Doing says of where it has come.                                   *)
LEMMA RequestStep ==
  ASSUME TablesInv, NEW h \in Handler, T!Busy(h), NEW o \in T!Request, T!Awaited(o),
         op' = [op EXCEPT ![h] = o], Rows',
         \A u \in User : u \notin doubt' =>
           /\ u \notin doubt \/ \A g \in Handler \ {h} : op[g] = T!Idle
           /\ Spared(u)' /\ Doing(o, u)' /\ (o = T!Idle => Agree(u)')
  PROVE  TablesInv'
<1>1. /\ op' \in [Handler -> T!Request]
      /\ \A g \in Handler : op'[g] = IF g = h THEN o ELSE op[g]
  BY DEF TablesInv, T!TypeOK
<1>2. T!TypeOK' /\ (~attached => named = {})'
  BY <1>1 DEF TablesInv, T!TypeOK, Rows, T!Awaited
<1>3. ASSUME NEW u \in User, u \notin doubt' PROVE Clear(u)'
  <2>1. \A g \in Handler : g # h => op[g] = T!Idle
    <3>1. CASE u \notin doubt
      BY <3>1 DEF TablesInv, T!Busy, Clear
    <3>. QED
      BY <1>3, <3>1
  <2>2. Doing(T!Idle, u)'
    BY NotBusyIs DEF Doing
  <2>3. \A g, k \in Handler : T!Busy(g)' /\ T!Busy(k)' => g = k
    BY <1>1, <2>1 DEF T!Busy
  <2>4. \A g \in Handler : Doing(op[g], u)'
    <3>1. TAKE g \in Handler
    <3>2. PICK p : p = op'[g]
      OBVIOUS
    <3>3. p = o \/ p = T!Idle
      BY <1>1, <2>1, <3>2
    <3>4. Doing(p, u)'
      BY <1>3, <2>2, <3>3
    <3>. QED
      BY <3>2, <3>4 DEF Doing
  <2>5. (\A g \in Handler : ~T!Busy(g)') => Agree(u)'
    BY <1>1, <1>3 DEF T!Busy
  <2>. QED
    BY <1>3, <2>3, <2>4, <2>5 DEF Clear
<1>. QED
  BY <1>2, <1>3 DEF TablesInv

(* A request that begins: if another is under way, everybody is in doubt. *)
LEMMA BeginTables ==
  ASSUME TablesInv, NEW h \in Handler, NEW o \in T!Request, T!Awaited(o), T!Begin(h, o),
         o # T!Idle, \A u \in User : Agree(u) => Doing(o, u)
  PROVE  TablesInv'
<1>1. /\ op' \in [Handler -> T!Request]
      /\ \A g \in Handler : op'[g] = IF g = h THEN o ELSE op[g]
  BY DEF TablesInv, T!TypeOK, T!Begin, T!Become
<1>2. requests' \in 0 .. TaskRequests /\ doubt' \subseteq User
  BY Bounds DEF TablesInv, T!TypeOK, T!Begin
<1>3. UNCHANGED <<attached, granted, late, named>>
  BY DEF T!Begin, T!tables
<1>4. T!TypeOK' /\ (~attached => named = {})'
  BY <1>1, <1>2, <1>3 DEF TablesInv, T!TypeOK, T!Awaited
<1>5. ASSUME NEW u \in User, u \notin doubt' PROVE Clear(u)'
  <2>1. u \notin doubt /\ \A g \in Handler : op[g] = T!Idle
    BY <1>5 DEF T!Begin, T!Busy
  <2>2. Agree(u) /\ Spared(u)
    BY <2>1 DEF TablesInv, Clear, T!Busy
  <2>3. Doing(o, u)' /\ Spared(u)'
    BY <1>3, <2>2 DEF Doing, Agree, Spared
  <2>4. Doing(T!Idle, u)'
    BY NotBusyIs DEF Doing
  <2>5. \A g, k \in Handler : T!Busy(g)' /\ T!Busy(k)' => g = k
    BY <1>1, <2>1 DEF T!Busy
  <2>6. \A g \in Handler : Doing(op[g], u)'
    <3>1. TAKE g \in Handler
    <3>2. PICK p : p = op'[g]
      OBVIOUS
    <3>3. p = o \/ p = T!Idle
      BY <1>1, <2>1, <3>2
    <3>4. Doing(p, u)'
      BY <2>3, <2>4, <3>3
    <3>. QED
      BY <3>2, <3>4 DEF Doing
  <2>7. T!Busy(h)'
    BY <1>1 DEF T!Busy
  <2>. QED
    BY <2>3, <2>5, <2>6, <2>7 DEF Clear
<1>. QED
  BY <1>4, <1>5 DEF TablesInv

(* attach, detach, addGrant and revokeGrant begin. *)
LEMMA StartTables ==
  ASSUME TablesInv, NEW h \in Handler,
         T!Attach(h) \/ T!Detach(h) \/ T!AddGrant(h) \/ T!RevokeGrant(h)
  PROVE  TablesInv'
<1>1. CASE T!Attach(h)
  <2>1. PICK who \in SUBSET User : T!Begin(h, [T!Idle EXCEPT !.pc = "attach", !.todo = who])
    BY <1>1 DEF T!Attach
  <2>. DEFINE o == [T!Idle EXCEPT !.pc = "attach", !.todo = who]
  <2>2. o \in T!Request /\ o.pc = "attach" /\ o.call = T!NoCall
    BY NotBusyIs DEF T!Request
  <2>3. T!Awaited(o) /\ o # T!Idle /\ \A u \in User : Agree(u) => Doing(o, u)
    BY <2>2, NotBusyIs, AwaitedIs DEF Doing
  <2>. HIDE DEF o
  <2>. QED
    BY <2>1, <2>2, <2>3, BeginTables DEF o
<1>2. CASE T!Detach(h)
  <2>. DEFINE o == [T!Idle EXCEPT !.pc = "detach"]
  <2>1. o \in T!Request /\ o.pc = "detach" /\ o.call = T!NoCall
    BY NotBusyIs DEF T!Request
  <2>2. T!Begin(h, o) /\ attached
    BY <1>2 DEF T!Detach
  <2>3. T!Awaited(o) /\ o # T!Idle /\ \A u \in User : Agree(u) => Doing(o, u)
    BY <2>1, <2>2, NotBusyIs, AwaitedIs DEF Doing
  <2>. HIDE DEF o
  <2>. QED
    BY <2>1, <2>2, <2>3, BeginTables
<1>3. CASE T!AddGrant(h) \/ T!RevokeGrant(h)
  <2>1. PICK v \in User, pc \in {"add", "remove"} :
          /\ attached
          /\ T!Begin(h, [T!Idle EXCEPT !.pc = pc,
                           !.call = T!Send(IF pc = "add" THEN "grant" ELSE "remove", {v})])
    BY <1>3 DEF T!AddGrant, T!RevokeGrant
  <2>. DEFINE do == IF pc = "add" THEN "grant" ELSE "remove"
              o == [T!Idle EXCEPT !.pc = pc, !.call = T!Send(do, {v})]
  <2>2. /\ T!Send(do, {v}) \in T!Call /\ T!Send(do, {v}).do = do
        /\ T!Send(do, {v}).step = "sent"
    BY SendIs
  <2>3. o \in T!Request /\ o.pc = pc /\ o.call = T!Send(do, {v})
    BY <2>2, NotBusyIs DEF T!Request
  <2>4. T!Awaited(o) /\ o # T!Idle /\ \A u \in User : Agree(u) => Doing(o, u)
    BY <2>1, <2>2, <2>3, NotBusyIs, AwaitedIs DEF Doing, Agree
  <2>. HIDE DEF o
  <2>. QED
    BY <2>1, <2>3, <2>4, BeginTables DEF o
<1>. QED
  BY <1>1, <1>2, <1>3

(* The rows are typed in every state of the invariant. *)
LEMMA RowsOf == TablesInv => Rows
BY DEF TablesInv, T!TypeOK, Rows

(* What a state says of the request that takes a step. *)
LEMMA RequestIs ==
  ASSUME TablesInv, NEW h \in Handler, op[h].pc # "idle"
  PROVE  /\ T!Busy(h) /\ op[h] \in T!Request /\ T!Awaited(op[h]) /\ Rows
         /\ \A u \in User : u \notin doubt => Spared(u) /\ Doing(op[h], u)
BY NotBusyIs, RowsOf DEF TablesInv, T!TypeOK, T!Busy, Clear

(* A request takes a step that puts nothing in doubt, sends no call into   *)
(* the night, and leaves of each user what Doing says of where it comes.   *)
LEMMA PlainStep ==
  ASSUME TablesInv, NEW h \in Handler, T!Busy(h), NEW o \in T!Request, T!Awaited(o),
         op' = [op EXCEPT ![h] = o], Rows', UNCHANGED <<late, doubt>>,
         \A u \in User : u \notin doubt => Doing(o, u)' /\ (o = T!Idle => Agree(u)')
  PROVE  TablesInv'
<1>1. ASSUME NEW u \in User, u \notin doubt' PROVE u \notin doubt /\ Spared(u)'
  BY <1>1 DEF TablesInv, Clear, Spared
<1>. QED
  BY <1>1, RequestStep

(* attach: the association, then one grant after another. *)
LEMMA AttachStep ==
  ASSUME TablesInv, NEW h \in Handler,
         \/ T!AttachDocument(h) \/ T!AlreadyAttached(h) \/ T!CreateGrant(h) \/ T!GrantCreated(h)
         \/ T!AttachEnds(h)
  PROVE  TablesInv'
<1>1. op[h].pc \in {"attach", "granting"}
  BY DEF T!AttachDocument, T!AlreadyAttached, T!CreateGrant, T!GrantCreated, T!AttachEnds
<1>2. /\ T!Busy(h) /\ op[h] \in T!Request /\ T!Awaited(op[h]) /\ Rows
      /\ \A u \in User : u \notin doubt => Spared(u) /\ Doing(op[h], u)
  BY <1>1, RequestIs
<1>3. CASE T!AttachDocument(h)
  <2>1. PICK o \in T!Request :
          /\ op' = [op EXCEPT ![h] = o] /\ o.pc = "granting" /\ o.call = op[h].call
          /\ o.todo = op[h].todo
    <3>. DEFINE o == [op[h] EXCEPT !.pc = "granting"]
    <3>1. o \in T!Request /\ o.pc = "granting" /\ o.call = op[h].call /\ o.todo = op[h].todo
      BY <1>2 DEF T!Request
    <3>. QED
      BY <1>3, <3>1 DEF T!AttachDocument, T!Become
  <2>2. op[h].call = T!NoCall /\ op[h].todo \in SUBSET User
    BY <1>2, <1>3, AwaitedIs DEF T!AttachDocument, T!Request
  <2>3. T!Awaited(o)
    BY <2>1, <2>2, AwaitedIs
  <2>4. /\ ~attached /\ attached' /\ named' = op[h].todo
        /\ UNCHANGED <<granted, late, requests, doubt>>
    BY <1>3 DEF T!AttachDocument
  <2>5. Rows'
    BY <1>2, <1>3, <2>2 DEF Rows, T!AttachDocument
  <2>6. ASSUME NEW u \in User, u \notin doubt PROVE Doing(o, u)'
    <3>1. u \notin granted
      BY <1>2, <1>3, <2>4, <2>6 DEF Rows, Doing, Agree, T!AttachDocument
    <3>. QED
      BY <2>1, <2>2, <2>4, <3>1, NoCallIs DEF Doing
  <2>7. o # T!Idle
    BY <2>1, NotBusyIs
  <2>. QED
    BY <1>2, <2>1, <2>3, <2>4, <2>5, <2>6, <2>7, PlainStep
<1>4. CASE T!AlreadyAttached(h)
  <2>1. /\ op' = [op EXCEPT ![h] = T!Idle]
        /\ UNCHANGED <<attached, granted, late, requests, named, doubt>>
    BY <1>4 DEF T!AlreadyAttached, T!Become, T!tables
  <2>2. Rows' /\ T!Awaited(T!Idle)
    BY <1>2, <2>1, NotBusyIs, AwaitedIs DEF Rows
  <2>3. ASSUME NEW u \in User, u \notin doubt PROVE Doing(T!Idle, u)' /\ Agree(u)'
    BY <1>2, <1>4, <2>1, <2>3, NotBusyIs DEF Doing, Agree, T!AlreadyAttached
  <2>. QED
    BY <1>2, <2>1, <2>2, <2>3, NotBusyIs, PlainStep
<1>5. CASE T!CreateGrant(h)
  <2>1. PICK v \in op[h].todo :
          op' = [op EXCEPT ![h] = [op[h] EXCEPT !.todo = @ \ {v}, !.call = T!Send("grant", {v})]]
    BY <1>5 DEF T!CreateGrant, T!Become
  <2>2. v \in User /\ op[h].call = T!NoCall /\ op[h].pc = "granting"
    BY <1>2, <1>5 DEF T!Request, T!CreateGrant
  <2>3. /\ T!Send("grant", {v}) \in T!Call /\ T!Send("grant", {v}).do = "grant"
        /\ T!Send("grant", {v}).who = {v} /\ T!Send("grant", {v}).step = "sent"
    BY <2>2, SendIs
  <2>4. PICK o \in T!Request :
          /\ op' = [op EXCEPT ![h] = o] /\ o.pc = "granting" /\ o.call = T!Send("grant", {v})
          /\ o.todo = op[h].todo \ {v} /\ o.made = op[h].made
    <3>. DEFINE o == [op[h] EXCEPT !.todo = @ \ {v}, !.call = T!Send("grant", {v})]
    <3>1. /\ o \in T!Request /\ o.pc = "granting" /\ o.call = T!Send("grant", {v})
          /\ o.todo = op[h].todo \ {v} /\ o.made = op[h].made
      BY <1>2, <2>2, <2>3 DEF T!Request
    <3>. QED
      BY <2>1, <3>1
  <2>5. UNCHANGED <<attached, granted, late, requests, named, doubt>>
    BY <1>5 DEF T!CreateGrant, T!tables
  <2>6. Rows' /\ T!Awaited(o) /\ o # T!Idle
    BY <1>2, <2>3, <2>4, <2>5, NotBusyIs, AwaitedIs DEF Rows
  <2>7. ASSUME NEW u \in User, u \notin doubt PROVE Doing(o, u)'
    BY <1>2, <2>2, <2>3, <2>4, <2>5, <2>7, NoCallIs DEF Doing
  <2>. QED
    BY <1>2, <2>4, <2>5, <2>6, <2>7, PlainStep
<1>6. CASE T!GrantCreated(h)
  <2>1. PICK o \in T!Request :
          /\ op' = [op EXCEPT ![h] = o] /\ o.pc = "granting" /\ o.call = T!NoCall
          /\ o.todo = op[h].todo /\ o.made = TRUE
    <3>. DEFINE o == [op[h] EXCEPT !.made = TRUE, !.call = T!NoCall]
    <3>1. /\ o \in T!Request /\ o.pc = "granting" /\ o.call = T!NoCall /\ o.todo = op[h].todo
          /\ o.made = TRUE
      BY <1>2, <1>6 DEF T!Request, T!GrantCreated
    <3>. QED
      BY <1>6, <3>1 DEF T!GrantCreated, T!Become
  <2>2. UNCHANGED <<attached, granted, late, requests, named, doubt>>
    BY <1>6 DEF T!GrantCreated, T!tables
  <2>3. Rows' /\ T!Awaited(o) /\ o # T!Idle
    BY <1>2, <2>1, <2>2, NotBusyIs, AwaitedIs DEF Rows
  <2>4. ASSUME NEW u \in User, u \notin doubt PROVE Doing(o, u)'
    BY <1>2, <1>6, <2>1, <2>2, <2>4, NoCallIs DEF Doing, T!GrantCreated
  <2>. QED
    BY <1>2, <2>1, <2>2, <2>3, <2>4, PlainStep
<1>7. CASE T!AttachEnds(h)
  <2>1. /\ op' = [op EXCEPT ![h] = T!Idle]
        /\ UNCHANGED <<attached, granted, late, requests, named, doubt>>
    BY <1>7 DEF T!AttachEnds, T!Become, T!tables
  <2>2. Rows' /\ T!Awaited(T!Idle)
    BY <1>2, <2>1, NotBusyIs, AwaitedIs DEF Rows
  <2>3. ASSUME NEW u \in User, u \notin doubt PROVE Doing(T!Idle, u)' /\ Agree(u)'
    BY <1>2, <1>7, <2>1, <2>3, NotBusyIs, NoCallIs DEF Doing, Agree, T!AttachEnds
  <2>. QED
    BY <1>2, <2>1, <2>2, <2>3, NotBusyIs, PlainStep
<1>. QED
  BY <1>3, <1>4, <1>5, <1>6, <1>7

(* compensateAttach: revoke if a grant was made, then detach. *)
LEMMA CompensationStep ==
  ASSUME TablesInv, NEW h \in Handler,
         T!GrantFailed(h) \/ T!CompensationRevoked(h) \/ T!CompensationDetached(h)
  PROVE  TablesInv'
<1>1. op[h].pc \in {"granting", "revoke", "undo"}
  BY DEF T!GrantFailed, T!CompensationRevoked, T!CompensationDetached
<1>2. /\ T!Busy(h) /\ op[h] \in T!Request /\ T!Awaited(op[h]) /\ Rows
      /\ \A u \in User : u \notin doubt => Spared(u) /\ Doing(op[h], u)
  BY <1>1, RequestIs
<1>3. PICK undo \in T!Request : undo = [T!Idle EXCEPT !.pc = "undo"] /\ undo.pc = "undo"
                                /\ undo.call = T!NoCall
  <2>. DEFINE o == [T!Idle EXCEPT !.pc = "undo"]
  <2>1. o \in T!Request /\ o.pc = "undo" /\ o.call = T!NoCall
    BY NotBusyIs DEF T!Request
  <2>. QED
    BY <2>1
<1>4. T!Awaited(undo) /\ undo # T!Idle
  BY <1>3, NotBusyIs, AwaitedIs
<1>5. ASSUME op' = [op EXCEPT ![h] = undo], \A u \in User : u \notin doubt => u \notin granted,
             UNCHANGED <<attached, granted, late, requests, named, doubt>>
      PROVE  TablesInv'
  <2>1. Rows'
    BY <1>2, <1>5 DEF Rows
  <2>2. ASSUME NEW u \in User, u \notin doubt PROVE Doing(undo, u)'
    BY <1>3, <1>5, <2>2 DEF Doing
  <2>. QED
    BY <1>2, <1>4, <1>5, <2>1, <2>2, PlainStep
<1>6. CASE T!GrantFailed(h)
  <2>1. UNCHANGED <<attached, granted, late, requests, named, doubt>>
    BY <1>6 DEF T!GrantFailed, T!tables
  <2>2. CASE op[h].made
    <3>1. T!Send("revoke", {}) \in T!Call /\ T!Send("revoke", {}).do = "revoke"
          /\ T!Send("revoke", {}).step = "sent"
      BY SendIs
    <3>2. PICK o \in T!Request :
            /\ op' = [op EXCEPT ![h] = o] /\ o.pc = "revoke" /\ o.call = T!Send("revoke", {})
      <4>. DEFINE o == [T!Idle EXCEPT !.pc = "revoke", !.call = T!Send("revoke", {})]
      <4>1. o \in T!Request /\ o.pc = "revoke" /\ o.call = T!Send("revoke", {})
        BY <3>1, NotBusyIs DEF T!Request
      <4>. QED
        BY <1>6, <2>2, <4>1 DEF T!GrantFailed, T!Become
    <3>3. Rows' /\ T!Awaited(o) /\ o # T!Idle /\ \A u \in User : Doing(o, u)'
      BY <1>2, <2>1, <3>1, <3>2, NotBusyIs, AwaitedIs DEF Rows, Doing
    <3>. QED
      BY <1>2, <2>1, <3>2, <3>3, PlainStep
  <2>3. CASE ~op[h].made
    <3>1. \A u \in User : u \notin doubt => u \notin granted
      BY <1>2, <1>6, <2>3 DEF Doing, T!GrantFailed
    <3>2. op' = [op EXCEPT ![h] = undo]
      BY <1>3, <1>6, <2>3 DEF T!GrantFailed, T!Become
    <3>. QED
      BY <1>5, <2>1, <3>1, <3>2
  <2>. QED
    BY <2>2, <2>3
<1>7. CASE T!CompensationRevoked(h)
  <2>1. UNCHANGED <<attached, granted, late, requests, named, doubt>>
        /\ op' = [op EXCEPT ![h] = undo]
    BY <1>3, <1>7 DEF T!CompensationRevoked, T!tables, T!Become
  <2>2. \A u \in User : u \notin doubt => u \notin granted
    BY <1>2, <1>7 DEF Doing, T!CompensationRevoked, T!Ended
  <2>. QED
    BY <1>5, <2>1, <2>2
<1>8. CASE T!CompensationDetached(h)
  <2>1. /\ op' = [op EXCEPT ![h] = T!Idle] /\ ~attached' /\ named' = {} /\ attached' \in BOOLEAN
        /\ UNCHANGED <<granted, late, requests, doubt>>
    BY <1>8 DEF T!CompensationDetached, T!Become
  <2>2. Rows' /\ T!Awaited(T!Idle)
    BY <1>2, <2>1, NotBusyIs, AwaitedIs DEF Rows
  <2>3. ASSUME NEW u \in User, u \notin doubt PROVE Doing(T!Idle, u)' /\ Agree(u)'
    BY <1>2, <1>8, <2>1, <2>3, NotBusyIs DEF Doing, Agree, T!CompensationDetached
  <2>. QED
    BY <1>2, <2>1, <2>2, <2>3, NotBusyIs, PlainStep
<1>. QED
  BY <1>6, <1>7, <1>8

(* detach: the association goes, then the grants.  If no other request is  *)
(* under way and no call late, nothing is in doubt any more.               *)
LEMMA DetachStep ==
  ASSUME TablesInv, NEW h \in Handler, T!DetachDocument(h) \/ T!DetachEnds(h)
  PROVE  TablesInv'
<1>1. op[h].pc \in {"detach", "detached"}
  BY DEF T!DetachDocument, T!DetachEnds
<1>2. /\ T!Busy(h) /\ op[h] \in T!Request /\ T!Awaited(op[h]) /\ Rows
      /\ \A u \in User : u \notin doubt => Spared(u) /\ Doing(op[h], u)
  BY <1>1, RequestIs
<1>3. CASE T!DetachDocument(h)
  <2>1. /\ ~attached' /\ attached' \in BOOLEAN /\ named' = {} /\ doubt' \in SUBSET User
        /\ UNCHANGED <<granted, late, requests>>
        /\ \/ doubt' = doubt
           \/ late = {} /\ \A g \in Handler \ {h} : op[g] = T!Idle
    BY <1>2, <1>3 DEF T!DetachDocument, T!Busy, Rows
  <2>2. Rows'
    BY <1>2, <2>1 DEF Rows
  <2>3. ASSUME NEW u \in User, u \notin doubt'
        PROVE  /\ u \notin doubt \/ \A g \in Handler \ {h} : op[g] = T!Idle
               /\ Spared(u)'
    BY <1>2, <2>1, <2>3 DEF Spared
  <2>4. CASE attached
    <3>1. T!Send("revoke", {}) \in T!Call /\ T!Send("revoke", {}).do = "revoke"
          /\ T!Send("revoke", {}).step = "sent"
      BY SendIs
    <3>2. PICK o \in T!Request :
            /\ op' = [op EXCEPT ![h] = o] /\ o.pc = "detached" /\ o.call = T!Send("revoke", {})
      <4>. DEFINE o == [T!Idle EXCEPT !.pc = "detached", !.call = T!Send("revoke", {})]
      <4>1. o \in T!Request /\ o.pc = "detached" /\ o.call = T!Send("revoke", {})
        BY <3>1, NotBusyIs DEF T!Request
      <4>. QED
        BY <1>3, <2>4, <4>1 DEF T!DetachDocument, T!Become
    <3>3. T!Awaited(o) /\ o # T!Idle /\ \A u \in User : Doing(o, u)'
      BY <2>1, <3>1, <3>2, NotBusyIs, AwaitedIs DEF Doing
    <3>. QED
      BY <1>2, <2>2, <2>3, <3>2, <3>3, RequestStep
  <2>5. CASE ~attached
    <3>1. op' = [op EXCEPT ![h] = T!Idle] /\ UNCHANGED <<late, doubt>>
      BY <1>3, <2>5 DEF T!DetachDocument, T!Become
    <3>2. ASSUME NEW u \in User, u \notin doubt PROVE FALSE
      BY <1>2, <1>3, <2>5, <3>2 DEF Doing, T!DetachDocument
    <3>3. T!Awaited(T!Idle)
      BY NotBusyIs, AwaitedIs
    <3>. QED
      BY <1>2, <2>2, <3>1, <3>2, <3>3, NotBusyIs, PlainStep
  <2>. QED
    BY <2>4, <2>5
<1>4. CASE T!DetachEnds(h)
  <2>1. /\ op' = [op EXCEPT ![h] = T!Idle]
        /\ UNCHANGED <<attached, granted, late, requests, named, doubt>>
    BY <1>4 DEF T!DetachEnds, T!Become, T!tables
  <2>2. Rows' /\ T!Awaited(T!Idle)
    BY <1>2, <2>1, NotBusyIs, AwaitedIs DEF Rows
  <2>3. ASSUME NEW u \in User, u \notin doubt PROVE Doing(T!Idle, u)' /\ Agree(u)'
    BY <1>2, <1>4, <2>1, <2>3, NotBusyIs DEF Doing, Agree, Rows, T!DetachEnds, T!Ended
  <2>. QED
    BY <1>2, <2>1, <2>2, <2>3, NotBusyIs, PlainStep
<1>. QED
  BY <1>3, <1>4

(* addGrant and revokeGrant end, and what they did is remembered. *)
LEMMA NamingStep ==
  ASSUME TablesInv, NEW h \in Handler, T!AddGrantEnds(h) \/ T!RevokeGrantEnds(h)
  PROVE  TablesInv'
<1>1. op[h].pc \in {"add", "remove"}
  BY DEF T!AddGrantEnds, T!RevokeGrantEnds
<1>2. /\ T!Busy(h) /\ op[h] \in T!Request /\ T!Awaited(op[h]) /\ Rows
      /\ \A u \in User : u \notin doubt => Spared(u) /\ Doing(op[h], u)
  BY <1>1, RequestIs
<1>3. op[h].call \in T!Call /\ op[h].call.who \subseteq User
  BY <1>1, <1>2, AwaitedIs, NoCallIs DEF T!Request, T!Call
<1>4. /\ op' = [op EXCEPT ![h] = T!Idle] /\ named' \subseteq User
      /\ ~attached => named' = {}
      /\ UNCHANGED <<attached, granted, late, requests, doubt>>
  BY <1>2, <1>3 DEF T!AddGrantEnds, T!RevokeGrantEnds, T!Become, T!tables, Rows
<1>5. Rows' /\ T!Awaited(T!Idle)
  BY <1>2, <1>4, NotBusyIs, AwaitedIs DEF Rows
<1>6. ASSUME NEW u \in User, u \notin doubt PROVE Agree(u)'
  <2>1. attached /\ Doing(op[h], u)
    BY <1>1, <1>2, <1>6 DEF Doing
  <2>2. CASE T!AddGrantEnds(h)
    BY <1>4, <2>1, <2>2 DEF T!AddGrantEnds, Doing, Agree
  <2>3. CASE T!RevokeGrantEnds(h)
    BY <1>4, <2>1, <2>3 DEF T!RevokeGrantEnds, Doing, Agree
  <2>. QED
    BY <2>2, <2>3
<1>7. \A u \in User : Doing(T!Idle, u)'
  BY NotBusyIs DEF Doing
<1>. QED
  BY <1>2, <1>4, <1>5, <1>6, <1>7, NotBusyIs, PlainStep

(* A request whose call has come further, or been given up. *)
LEMMA CallIs ==
  ASSUME TablesInv, NEW h \in Handler, op[h].call # T!NoCall
  PROVE  /\ op[h].pc \in {"granting", "revoke", "detached", "add", "remove"}
         /\ op[h].call \in T!Call /\ op[h].call.who \subseteq User
         /\ \A c \in T!Call : c.do = op[h].call.do =>
              \E o \in T!Request :
                /\ o = [op[h] EXCEPT !.call = c] /\ o.pc = op[h].pc /\ o.call = c
                /\ o.todo = op[h].todo /\ o.made = op[h].made /\ T!Awaited(o) /\ o # T!Idle
<1>1. op[h] \in T!Request /\ T!Awaited(op[h])
  BY DEF TablesInv, T!TypeOK
<1>2. op[h].pc \in {"granting", "revoke", "detached", "add", "remove"}
  BY <1>1, AwaitedIs DEF T!Request
<1>3. op[h].call \in T!Call /\ op[h].call.who \subseteq User
  BY <1>1 DEF T!Request, T!Call
<1>4. ASSUME NEW c \in T!Call, c.do = op[h].call.do
      PROVE  \E o \in T!Request :
               /\ o = [op[h] EXCEPT !.call = c] /\ o.pc = op[h].pc /\ o.call = c
               /\ o.todo = op[h].todo /\ o.made = op[h].made /\ T!Awaited(o) /\ o # T!Idle
  <2>. DEFINE o == [op[h] EXCEPT !.call = c]
  <2>1. /\ o \in T!Request /\ o.pc = op[h].pc /\ o.call = c
        /\ o.todo = op[h].todo /\ o.made = op[h].made
    BY <1>1 DEF T!Request
  <2>2. c # T!NoCall
    BY NoCallIs
  <2>. HIDE DEF o
  <2>3. T!Awaited(o) /\ o # T!Idle
    BY <1>1, <1>2, <1>4, <2>1, <2>2, NotBusyIs, AwaitedIs
  <2>. QED
    BY <2>1, <2>3 DEF o
<1>. QED
  BY <1>2, <1>3, <1>4

(* The Permission Service takes a step of the call that a request waits    *)
(* for.                                                                    *)
LEMMA ServeStep ==
  ASSUME TablesInv, NEW h \in Handler, T!Serve(h)
  PROVE  TablesInv'
<1>. DEFINE c == op[h].call
            d == T!Progress(c)
<1>1. c # T!NoCall /\ ~T!Ended(c)
  BY DEF T!Serve
<1>2. c \in T!Call /\ op[h].pc \in {"granting", "revoke", "detached", "add", "remove"}
  BY <1>1, CallIs
<1>3. /\ T!Busy(h) /\ op[h] \in T!Request /\ T!Awaited(op[h]) /\ Rows
      /\ \A u \in User : u \notin doubt => Spared(u) /\ Doing(op[h], u)
  BY <1>2, RequestIs
<1>4. granted \subseteq User
  BY <1>3 DEF Rows
<1>5. /\ d \in T!Call /\ d.do = c.do
      /\ op' = [op EXCEPT ![h] = [op[h] EXCEPT !.call = d]]
  BY <1>1, <1>2, <1>3, <1>4, ProgressIs DEF T!Serve, TablesInv, T!TypeOK
<1>6. PICK o \in T!Request :
        /\ op' = [op EXCEPT ![h] = o] /\ o.pc = op[h].pc /\ o.call = d
        /\ o.todo = op[h].todo /\ o.made = op[h].made /\ T!Awaited(o) /\ o # T!Idle
  BY <1>1, <1>5, CallIs
<1>7. granted' = T!Result(c) /\ UNCHANGED <<attached, late, requests, named, doubt>>
  BY DEF T!Serve
<1>8. Rows'
  BY <1>1, <1>2, <1>3, <1>4, <1>7, ProgressIs DEF Rows
<1>9. ASSUME NEW u \in User, u \notin doubt PROVE Doing(o, u)'
  <2>0. Doing(op[h], u)
    BY <1>3, <1>9
  <2>1. PICK q : q = d /\ q.step \in {"read", "done", "refused"} /\ o.call = q
    BY <1>1, <1>2, <1>4, <1>6, ProgressIs
  <2>2. c.step \in {"sent", "read"}
    BY <1>1, <1>2 DEF T!Call, T!Ended
  <2>3. CASE op[h].pc = "granting"
    <3>1. /\ c.do = "grant" /\ attached
          /\ u \in named <=> u \in granted \/ u \in op[h].todo \/ u \in c.who
          /\ ~op[h].made => u \notin granted
      BY <1>1, <1>3, <2>0, <2>2, <2>3, AwaitedIs DEF Doing
    <3>2. CASE c.step = "sent"
      <4>1. q.step = "read" /\ q.who = c.who /\ granted' = granted
        BY <1>1, <1>2, <1>4, <1>7, <2>1, <3>1, <3>2, ProgressIs
      <4>. QED
        BY <1>6, <1>7, <2>1, <2>3, <3>1, <4>1 DEF Doing
    <3>3. CASE c.step = "read"
      <4>1. q.step = "done" /\ q.who = c.who /\ granted' = granted \cup c.who
        BY <1>1, <1>2, <1>4, <1>7, <2>1, <3>1, <3>3, ProgressIs
      <4>. QED
        BY <1>6, <1>7, <2>1, <2>3, <3>1, <4>1 DEF Doing
    <3>. QED
      BY <2>2, <3>2, <3>3
  <2>4. CASE op[h].pc \in {"revoke", "detached"}
    <3>1. /\ c.do = "revoke" /\ (op[h].pc = "detached" => ~attached)
          /\ c.step = "read" => (u \in c.who <=> u \in granted)
      BY <1>3, <2>0, <2>4, AwaitedIs DEF Doing
    <3>2. CASE c.step = "sent"
      <4>1. q.step = "read" /\ q.who = granted /\ granted' = granted
        BY <1>1, <1>2, <1>4, <1>7, <2>1, <3>1, <3>2, ProgressIs
      <4>. QED
        BY <1>6, <1>7, <2>1, <2>4, <3>1, <4>1 DEF Doing
    <3>3. CASE c.step = "read"
      <4>1. q.step = "done" /\ granted' = granted \ c.who
        BY <1>1, <1>2, <1>4, <1>7, <2>1, <3>1, <3>3, ProgressIs
      <4>2. u \notin granted'
        BY <3>1, <3>3, <4>1
      <4>. QED
        BY <1>6, <1>7, <2>1, <2>4, <3>1, <4>1, <4>2 DEF Doing
    <3>. QED
      BY <2>2, <3>2, <3>3
  <2>5. CASE op[h].pc = "add"
    <3>1. c.do = "grant" /\ attached /\ (u \in granted <=> u \in named)
      BY <1>3, <2>0, <2>2, <2>5, AwaitedIs DEF Doing
    <3>2. CASE c.step = "sent"
      <4>1. q.step = "read" /\ granted' = granted
        BY <1>1, <1>2, <1>4, <1>7, <2>1, <3>1, <3>2, ProgressIs
      <4>. QED
        BY <1>6, <1>7, <2>1, <2>5, <3>1, <4>1 DEF Doing
    <3>3. CASE c.step = "read"
      <4>1. q.step = "done" /\ q.who = c.who /\ granted' = granted \cup c.who
        BY <1>1, <1>2, <1>4, <1>7, <2>1, <3>1, <3>3, ProgressIs
      <4>. QED
        BY <1>6, <1>7, <2>1, <2>5, <3>1, <4>1 DEF Doing
    <3>. QED
      BY <2>2, <3>2, <3>3
  <2>6. CASE op[h].pc = "remove"
    <3>1. c.do = "remove" /\ c.step = "sent" /\ attached /\ (u \in granted <=> u \in named)
      BY <1>3, <2>0, <2>2, <2>6, AwaitedIs DEF Doing
    <3>2. q.step = "done" /\ q.who = c.who
      BY <1>1, <1>2, <1>4, <2>1, <3>1, ProgressIs
    <3>3. granted' = granted \ c.who
      BY <1>1, <1>2, <1>4, <1>7, <2>2, <3>1, ProgressIs
    <3>. QED
      BY <1>6, <1>7, <2>1, <2>6, <3>1, <3>2, <3>3 DEF Doing
  <2>. QED
    BY <1>2, <2>3, <2>4, <2>5, <2>6
<1>. HIDE DEF c, d
<1>. QED
  BY <1>3, <1>6, <1>7, <1>8, <1>9, PlainStep

(* A call is refused, or its caller times out. *)
LEMMA RefusalStep ==
  ASSUME TablesInv, NEW h \in Handler, T!Refuse(h) \/ T!Timeout(h)
  PROVE  TablesInv'
<1>. DEFINE c == op[h].call
<1>1. c # T!NoCall
  BY NoCallIs DEF T!Refuse, T!Timeout
<1>2. c \in T!Call /\ op[h].pc \in {"granting", "revoke", "detached", "add", "remove"}
  BY <1>1, CallIs
<1>3. /\ T!Busy(h) /\ op[h] \in T!Request /\ T!Awaited(op[h]) /\ Rows
      /\ \A u \in User : u \notin doubt => Spared(u) /\ Doing(op[h], u)
  BY <1>2, RequestIs
<1>4. PICK d \in T!Call : /\ d = [c EXCEPT !.step = "refused"]
                          /\ d.do = c.do /\ d.who = c.who /\ d.step = "refused"
  <2>. DEFINE d == [c EXCEPT !.step = "refused"]
  <2>1. d \in T!Call /\ d.do = c.do /\ d.who = c.who /\ d.step = "refused"
    BY <1>2 DEF T!Call
  <2>. QED
    BY <2>1
<1>5. op' = [op EXCEPT ![h] = [op[h] EXCEPT !.call = d]]
  BY <1>2, <1>3, <1>4 DEF T!Refuse, T!Timeout, TablesInv, T!TypeOK, T!Request
<1>6. PICK o \in T!Request :
        /\ op' = [op EXCEPT ![h] = o] /\ o.pc = op[h].pc /\ o.call = d
        /\ o.todo = op[h].todo /\ o.made = op[h].made /\ T!Awaited(o) /\ o # T!Idle
  BY <1>1, <1>4, <1>5, CallIs
<1>7. UNCHANGED <<attached, granted, requests, named>>
  BY DEF T!Refuse, T!Timeout, T!tables
<1>8. /\ c.do = "revoke" <=> op[h].pc \in {"revoke", "detached"}
      /\ c.who \subseteq User /\ c.do \in {"grant", "revoke", "remove"}
      /\ c.step \in {"sent", "read", "done", "refused"}
  BY <1>1, <1>2, <1>3, AwaitedIs DEF T!Call
<1>9. CASE T!Refuse(h)
  <2>1. c.step = "sent" /\ late' = late
        /\ doubt' = IF c.do = "revoke" THEN doubt \cup granted ELSE doubt
    BY <1>9 DEF T!Refuse
  <2>2. Rows'
    BY <1>3, <1>7, <2>1 DEF Rows
  <2>3. ASSUME NEW u \in User, u \notin doubt'
        PROVE  u \notin doubt /\ Spared(u)' /\ Doing(o, u)'
    <3>1. u \notin doubt /\ (c.do = "revoke" => u \notin granted)
      BY <2>1, <2>3
    <3>2. Spared(u) /\ Doing(op[h], u)
      BY <1>3, <3>1
    <3>3. Doing(o, u)'
      BY <1>2, <1>4, <1>6, <1>7, <1>8, <2>1, <3>1, <3>2 DEF Doing
    <3>. QED
      BY <2>1, <3>1, <3>2, <3>3 DEF Spared
  <2>. HIDE DEF c
  <2>. QED
    BY <1>3, <1>6, <2>2, <2>3, RequestStep
<1>10. CASE T!Timeout(h)
  <2>1. /\ c.step # "refused" /\ late' = late \cup {q \in {c} : ~T!Ended(q)}
        /\ doubt' = doubt \cup T!Concerned(c)
    BY <1>10 DEF T!Timeout
  <2>2. T!Concerned(c) = IF c.do = "revoke" THEN User ELSE c.who
    BY DEF T!Concerned
  <2>3. Rows'
    BY <1>2, <1>3, <1>7, <1>8, <2>1, <2>2 DEF Rows
  <2>4. ASSUME NEW u \in User, u \notin doubt'
        PROVE  u \notin doubt /\ Spared(u)' /\ Doing(o, u)'
    <3>1. u \notin doubt /\ c.do # "revoke" /\ u \notin c.who
      BY <2>1, <2>2, <2>4
    <3>2. Spared(u) /\ Doing(op[h], u)
      BY <1>3, <3>1
    <3>3. Doing(o, u)'
      BY <1>2, <1>4, <1>6, <1>7, <1>8, <3>1, <3>2 DEF Doing
    <3>. QED
      BY <2>1, <3>1, <3>2, <3>3 DEF Spared
  <2>. HIDE DEF c
  <2>. QED
    BY <1>3, <1>6, <2>3, <2>4, RequestStep
<1>. QED
  BY <1>9, <1>10

(* A crash: those are in doubt for whom the request had still something to *)
(* do, or who are named and lose the association with their grants gone.   *)
LEMMA CrashStep ==
  ASSUME TablesInv, NEW h \in Handler, T!Crash(h)
  PROVE  TablesInv'
<1>. DEFINE c == op[h].call
<1>1. /\ T!Busy(h) /\ op' = [op EXCEPT ![h] = T!Idle]
      /\ late' = late \cup {q \in {c} : q # T!NoCall /\ ~T!Ended(q)}
      /\ doubt' = doubt \cup op[h].todo \cup T!Concerned(c)
                   \cup (IF op[h].pc = "undo" THEN named ELSE {})
      /\ UNCHANGED <<attached, granted, requests, named>>
  BY DEF T!Crash, T!tables, T!Unsettled
<1>2. /\ op[h] \in T!Request /\ T!Awaited(op[h]) /\ Rows /\ op[h].todo \subseteq User
      /\ c \in T!Call \cup {T!NoCall}
  BY RowsOf DEF TablesInv, T!TypeOK, T!Request
<1>3. /\ c.who \subseteq User
      /\ T!Concerned(c) = IF c.do = "revoke" THEN User ELSE c.who
  BY <1>2, NoCallIs DEF T!Concerned, T!Call
<1>4. Rows'
  BY <1>1, <1>2, <1>3 DEF Rows
<1>5. ASSUME NEW u \in User, u \notin doubt'
      PROVE  u \notin doubt /\ Spared(u)' /\ Doing(T!Idle, u)' /\ Agree(u)'
  <2>1. /\ u \notin doubt /\ u \notin op[h].todo /\ c.do # "revoke" /\ u \notin c.who
        /\ op[h].pc = "undo" => u \notin named
    BY <1>1, <1>3, <1>5
  <2>2. Spared(u) /\ Doing(op[h], u)
    BY <2>1 DEF TablesInv, Clear
  <2>3. op[h].pc \in {"attach", "granting", "undo", "detach", "add", "remove"}
    <3>1. op[h].pc # "idle"
      BY <1>1, <2>2 DEF T!Busy, Doing
    <3>. QED
      BY <1>2, <2>1, <3>1, AwaitedIs DEF T!Request
  <2>4. Agree(u)
    BY <2>1, <2>2, <2>3 DEF Doing, Agree
  <2>5. Spared(u)'
    BY <1>1, <2>1, <2>2 DEF Spared
  <2>6. Doing(T!Idle, u)'
    BY NotBusyIs DEF Doing
  <2>. QED
    BY <1>1, <2>1, <2>4, <2>5, <2>6 DEF Agree
<1>6. T!Awaited(T!Idle)
  BY NotBusyIs, AwaitedIs
<1>. HIDE DEF c
<1>. QED
  BY <1>1, <1>4, <1>5, <1>6, NotBusyIs, RequestStep

(* A call nobody waits for is carried out or lost: those whom it concerns  *)
(* are in doubt, and of the others it changes nothing.                     *)
LEMMA LateStep ==
  ASSUME TablesInv, NEW c \in late, T!ServeLate(c) \/ T!LoseLate(c)
  PROVE  TablesInv'
<1>1. c \in T!Call /\ ~T!Ended(c) /\ granted \subseteq User
  BY DEF TablesInv, T!TypeOK
<1>2. T!Progress(c) \in T!Call /\ T!Result(c) \subseteq User
  BY <1>1, ProgressIs
<1>3. /\ granted' \subseteq User /\ late' \subseteq {q \in T!Call : ~T!Ended(q)}
      /\ late' \subseteq late \cup {T!Progress(c)}
      /\ granted' \in {granted, T!Result(c)}
      /\ UNCHANGED <<attached, op, requests, named, doubt>>
  BY <1>1, <1>2 DEF T!ServeLate, T!LoseLate, TablesInv, T!TypeOK, T!tables
<1>4. T!TypeOK' /\ (~attached => named = {})'
  BY <1>3 DEF TablesInv, T!TypeOK, T!Awaited
<1>5. ASSUME NEW u \in User, u \notin doubt PROVE Clear(u)'
  <2>1. Clear(u) /\ c.do # "revoke" /\ u \notin c.who
    BY <1>5 DEF TablesInv, Clear, Spared
  <2>2. T!Progress(c).do = c.do /\ T!Progress(c).who = c.who
    BY <1>1, <2>1, ProgressIs
  <2>3. u \in T!Result(c) <=> u \in granted
    <3>1. /\ c.do \in {"grant", "remove"} /\ c.step \in {"sent", "read"}
          /\ c.do = "remove" /\ c.step = "read" => T!Result(c) = granted
      BY <1>1, <2>1 DEF T!Call, T!Ended, T!Result
    <3>. QED
      BY <1>1, <2>1, <3>1, ProgressIs
  <2>4. u \in granted' <=> u \in granted
    BY <1>3, <2>3
  <2>5. Spared(u)'
    BY <1>3, <2>1, <2>2 DEF Clear, Spared
  <2>6. \A h \in Handler : Doing(op[h], u)'
    <3>1. TAKE h \in Handler
    <3>2. Doing(op[h], u)
      BY <2>1 DEF Clear
    <3>. QED
      BY <1>3, <2>4, <3>2 DEF Doing, Agree
  <2>7. (\A h \in Handler : ~T!Busy(h)') => Agree(u)'
    BY <1>3, <2>1, <2>4 DEF Clear, Agree, T!Busy
  <2>8. \A g, h \in Handler : T!Busy(g)' /\ T!Busy(h)' => g = h
    BY <1>3, <2>1 DEF Clear, T!Busy
  <2>. QED
    BY <2>5, <2>6, <2>7, <2>8 DEF Clear
<1>. QED
  BY <1>3, <1>4, <1>5 DEF TablesInv

(* Every step keeps the invariant. *)
LEMMA TablesStep == TablesInv /\ [T!Next]_T!vars => TablesInv'
<1>. SUFFICES ASSUME TablesInv, [T!Next]_T!vars PROVE TablesInv'
  OBVIOUS
<1>1. CASE T!Next
  BY <1>1, StartTables, AttachStep, CompensationStep, DetachStep, NamingStep, ServeStep,
     RefusalStep, CrashStep, LateStep DEF T!Next
<1>2. CASE UNCHANGED T!vars
  <2>1. UNCHANGED <<attached, granted, op, late, requests, named, doubt>>
    BY <1>2 DEF T!vars, T!tables
  <2>. QED
    <3>1. T!TypeOK' /\ (~attached => named = {})'
      BY <2>1 DEF TablesInv, T!TypeOK, T!Awaited
    <3>2. ASSUME NEW u \in User, u \notin doubt PROVE Clear(u)'
      <4>1. Clear(u)
        BY <3>2 DEF TablesInv
      <4>. QED
        BY <2>1, <4>1 DEF Clear, Spared, Doing, Agree, T!Busy
    <3>. QED
      BY <2>1, <3>1, <3>2 DEF TablesInv
<1>. QED
  BY <1>1, <1>2

(* TaskDocuments: the invariant holds in every reachable state. *)
LEMMA TablesAlways == T!Spec => []TablesInv
BY TablesInit, TablesStep, PTL DEF T!Spec

(* attach, detach, addGrant and revokeGrant: whenever no request is under  *)
(* way, the associations of the Document Service and the grants of the     *)
(* Permission Service agree about everybody except those whom a lost call, *)
(* a failed revocation, a crash or an overlap put in doubt since the last  *)
(* detach that was alone; whatever was refused and compensated on the way. *)
THEOREM TablesStayInAgreement == T!Spec => []TablesAgree
<1>1. ASSUME TablesInv PROVE TablesAgree
  <2>1. ASSUME \A h \in Handler : ~T!Busy(h) PROVE granted \ doubt = named \ doubt
    <3>1. \A u \in User \ doubt : u \in granted <=> u \in named
      BY <1>1, <2>1 DEF TablesInv, Clear, Agree
    <3>. QED
      BY <1>1, <3>1 DEF TablesInv, T!TypeOK
  <2>2. ~attached => named = {}
    BY <1>1 DEF TablesInv
  <2>. QED
    BY <2>1, <2>2 DEF TablesAgree, T!TablesAgree
<1>. QED
  BY <1>1, TablesAlways, PTL
-----------------------------------------------------------------------------
(* RecordTransfer: a record and its packages.                              *)
LEMMA PackageRows ==
  /\ R!NoPackage \in R!PackageType /\ R!NoPackage.status = "none" /\ R!NoPackage.archivist = R!NoUser
  /\ R!NoPackage.receipt = R!NoReceipt
  /\ R!Free \in R!ClerkType /\ R!Free.pc = "free"
<1>1. R!NoPackage = [status |-> "none", submitter |-> R!NoUser, archivist |-> R!NoUser, files |-> {},
                   receipt |-> R!NoReceipt]
  BY DEF R!NoPackage, R!NewPackage
<1>2. R!NoReceipt \in [by: User \cup {R!NoUser}, accepted: BOOLEAN]
  BY DEF R!NoReceipt
<1>3. R!NoPackage \in R!PackageType
  BY <1>1, <1>2 DEF R!PackageType
<1>4. R!Free \in R!ClerkType /\ R!Free.pc = "free"
  BY Bounds DEF R!Free, R!ClerkType
<1>. QED
  BY <1>1, <1>3, <1>4

(* What a request holds that has read a package. *)
LEMMA HoldingType ==
  ASSUME NEW pc \in {"add", "seal", "create", "insert", "submit", "submitted", "receive",
                     "accept", "accepted", "reject", "archive"},
         NEW u \in User \cup {R!NoUser}, NEW p \in 0 .. MaxPackages, NEW f \in SUBSET File
  PROVE  /\ R!Holding(pc, u, p, f) \in R!ClerkType
         /\ R!Holding(pc, u, p, f).pc = pc /\ R!Holding(pc, u, p, f).user = u
         /\ R!Holding(pc, u, p, f).on = p /\ R!Holding(pc, u, p, f).files = f
BY DEF R!Holding, R!ClerkType

(* A request that holds a package: its row exists, and a request that will *)
(* receive or decide on it is not its submitter's, nor early.              *)
OnPackage == {"submit", "submitted", "receive", "accept", "accepted", "reject", "archive"}

HandsOf(c) ==
  /\ c.pc \in OnPackage => c.on \in R!Package /\ package[c.on] # R!NoPackage
  /\ c.pc \in {"receive", "accept", "accepted", "reject"} =>
       c.user \in User /\ c.user # package[c.on].submitter
  /\ c.pc \in {"accept", "accepted", "reject"} => package[c.on].archivist \in User

(* A row whose archivist and receipt are in order. *)
InOrder(parcel) ==
  /\ parcel.archivist \in User => parcel.archivist # parcel.submitter
  /\ parcel.status = "RECEIVED_CHECKING" => parcel.archivist \in User
  /\ parcel.receipt # R!NoReceipt =>
       parcel.receipt.by \in User \ {parcel.submitter} /\ parcel.archivist \in User

TransferInv ==
  /\ R!TypeOK
  /\ \A p \in R!Package : InOrder(package[p])
  /\ \A h \in Handler : HandsOf(clerk[h])

RecordType == [status: {"DRAFT", "SEALED", "TRANSFERRED", "ARCHIVED"}, files: SUBSET File]

(* Every initial state satisfies the invariant. *)
LEMMA TransferInit == R!Init => TransferInv
<1>. SUFFICES ASSUME R!Init PROVE TransferInv
  OBVIOUS
<1>1. record \in RecordType
  BY DEF R!Init, RecordType
<1>2. /\ package \in [R!Package -> R!PackageType]
      /\ \A p \in R!Package : package[p] = R!NoPackage
  BY PackageRows DEF R!Init
<1>3. /\ clerk \in [Handler -> R!ClerkType]
      /\ \A h \in Handler : clerk[h].pc = "free"
  BY PackageRows DEF R!Init
<1>4. \A p \in R!Package : InOrder(package[p])
  BY <1>2, PackageRows, Bounds DEF InOrder
<1>5. \A h \in Handler : HandsOf(clerk[h])
  BY <1>3 DEF HandsOf, OnPackage
<1>6. overlapped \in BOOLEAN
  BY DEF R!Init
<1>7. RecordRequests \in Nat
  BY Bounds
<1>8. asked \in 0 .. RecordRequests
  BY <1>7 DEF R!Init
<1>9. R!TypeOK
  BY <1>1, <1>2, <1>3, <1>6, <1>8 DEF R!TypeOK, RecordType
<1>. QED
  BY <1>4, <1>5, <1>9 DEF TransferInv
-----------------------------------------------------------------------------
(* A request that begins, or goes on, with what HandsOf asks of it. *)
LEMMA ClerkBecomes ==
  ASSUME TransferInv, NEW h \in Handler, NEW c \in R!ClerkType, HandsOf(c), R!Become(h, c),
         UNCHANGED <<record, package>>, asked' \in 0 .. RecordRequests, overlapped' \in BOOLEAN
  PROVE  TransferInv'
<1>1. /\ clerk' \in [Handler -> R!ClerkType]
      /\ \A g \in Handler : clerk'[g] = IF g = h THEN c ELSE clerk[g]
  BY DEF TransferInv, R!TypeOK, R!Become
<1>2. \A g \in Handler : HandsOf(clerk[g])'
  BY <1>1 DEF TransferInv, HandsOf
<1>3. \A p \in R!Package : InOrder(package[p])'
  BY DEF TransferInv, InOrder
<1>. QED
  BY <1>1, <1>2, <1>3 DEF TransferInv, R!TypeOK, HandsOf, OnPackage

(* A request that begins with what HandsOf asks of it. *)
LEMMA ClerkBegins ==
  ASSUME TransferInv, NEW h \in Handler, NEW c \in R!ClerkType, HandsOf(c), R!Begin(h, c)
  PROVE  TransferInv'
<1>1. asked' \in 0 .. RecordRequests /\ overlapped' \in BOOLEAN
  BY Bounds DEF TransferInv, R!TypeOK, R!Begin
<1>. QED
  BY <1>1, ClerkBecomes DEF R!Begin

(* A request whose check succeeded goes on with what it has read. *)
LEMMA ClerkGoes ==
  ASSUME TransferInv, NEW h \in Handler,
         NEW from, NEW to,
         <<from, to>> \in {<<"create", "insert">>, <<"submit", "submitted">>, <<"accept", "accepted">>},
         R!Goes(h, from, to)
  PROVE  TransferInv'
<1>. DEFINE c == [clerk[h] EXCEPT !.pc = to]
<1>1. clerk[h] \in R!ClerkType /\ clerk[h].pc = from /\ HandsOf(clerk[h])
  BY DEF TransferInv, R!TypeOK, R!Goes
<1>2. c \in R!ClerkType /\ c.pc = to /\ c.user = clerk[h].user /\ c.on = clerk[h].on
  BY <1>1 DEF R!ClerkType
<1>3. HandsOf(c)
  BY <1>1, <1>2 DEF HandsOf, OnPackage
<1>. QED
  BY <1>2, <1>3, ClerkBecomes DEF R!Goes, TransferInv, R!TypeOK

(* A request that ends and leaves the packages, or gives one a row that is *)
(* in order and takes nothing away from those who work on it.              *)
LEMMA ClerkEnds ==
  ASSUME TransferInv, NEW h \in Handler, NEW pc, R!Ends(h, pc), package' = package,
         record' \in RecordType
  PROVE  TransferInv'
<1>1. /\ clerk' \in [Handler -> R!ClerkType]
      /\ \A g \in Handler : clerk'[g] = IF g = h THEN R!Free ELSE clerk[g]
  BY PackageRows DEF TransferInv, R!TypeOK, R!Ends, R!Become
<1>2. \A g \in Handler : HandsOf(clerk[g])'
  BY <1>1, PackageRows DEF TransferInv, HandsOf, OnPackage
<1>3. \A p \in R!Package : InOrder(package[p])'
  BY DEF TransferInv, InOrder
<1>. QED
  BY <1>1, <1>2, <1>3 DEF TransferInv, R!TypeOK, HandsOf, OnPackage, R!Ends, RecordType

(* A request that ends and gives a package a row in order. *)
LEMMA PackageRewritten ==
  ASSUME TransferInv, NEW h \in Handler, NEW pc, R!Ends(h, pc), record' \in RecordType,
         NEW p \in R!Package, NEW parcel \in R!PackageType, parcel.status # "none", InOrder(parcel),
         package' = [package EXCEPT ![p] = parcel],
         \/ package[p] = R!NoPackage
         \/ /\ parcel.submitter = package[p].submitter
            /\ package[p].archivist \in User => parcel.archivist \in User
  PROVE  TransferInv'
<1>1. /\ clerk' \in [Handler -> R!ClerkType]
      /\ \A g \in Handler : clerk'[g] = IF g = h THEN R!Free ELSE clerk[g]
  BY PackageRows DEF TransferInv, R!TypeOK, R!Ends, R!Become
<1>2. /\ package' \in [R!Package -> R!PackageType]
      /\ \A q \in R!Package : package'[q] = IF q = p THEN parcel ELSE package[q]
  BY DEF TransferInv, R!TypeOK
<1>3. parcel # R!NoPackage
  BY PackageRows
<1>4. \A q \in R!Package : InOrder(package[q])'
  BY <1>2 DEF TransferInv, InOrder
<1>5. ASSUME NEW g \in Handler PROVE HandsOf(clerk[g])'
  <2>1. CASE g = h
    BY <2>1, <1>1, PackageRows DEF HandsOf, OnPackage
  <2>2. CASE g # h
    <3>1. clerk'[g] = clerk[g] /\ HandsOf(clerk[g])
      BY <2>2, <1>1 DEF TransferInv
    <3>2. CASE clerk[g].pc \in OnPackage
      BY <3>1, <3>2, <1>2, <1>3 DEF HandsOf, OnPackage
    <3>3. CASE clerk[g].pc \notin OnPackage
      BY <3>1, <3>3 DEF HandsOf, OnPackage
    <3>. QED
      BY <3>2, <3>3
  <2>. QED
    BY <2>1, <2>2
<1>. QED
  BY <1>1, <1>2, <1>4, <1>5 DEF TransferInv, R!TypeOK, HandsOf, OnPackage, R!Ends, RecordType

(* What a request that works on a package knows of it. *)
LEMMA HeldPackage ==
  ASSUME TransferInv, NEW h \in Handler, clerk[h].pc \in OnPackage
  PROVE  /\ clerk[h].on \in R!Package /\ package[clerk[h].on] \in R!PackageType
         /\ package[clerk[h].on] # R!NoPackage /\ InOrder(package[clerk[h].on])
         /\ clerk[h].user \in User \cup {R!NoUser}
BY DEF TransferInv, R!TypeOK, HandsOf, R!ClerkType
-----------------------------------------------------------------------------
(* addDocumentToRecord and sealRecord. *)
LEMMA EntryStep ==
  ASSUME TransferInv, NEW h \in Handler,
         R!AddEntry(h) \/ R!InsertEntry(h) \/ R!SealRecord(h) \/ R!WriteSealed(h)
  PROVE  TransferInv'
<1>1. record \in RecordType /\ clerk[h] \in R!ClerkType
  BY DEF TransferInv, R!TypeOK, RecordType
<1>2. CASE R!AddEntry(h)
  <2>1. PICK f \in File : R!Begin(h, R!Holding("add", R!NoUser, 0, {f}))
    BY <1>2 DEF R!AddEntry
  <2>2. HandsOf(R!Holding("add", R!NoUser, 0, {f}))
        /\ R!Holding("add", R!NoUser, 0, {f}) \in R!ClerkType
    BY HoldingType, Bounds DEF HandsOf, OnPackage
  <2>. QED
    BY <2>1, <2>2, ClerkBegins
<1>3. CASE R!InsertEntry(h)
  <2>1. record' \in RecordType
    BY <1>1, <1>3 DEF R!InsertEntry, RecordType, R!ClerkType
  <2>. QED
    BY <1>3, <2>1, ClerkEnds DEF R!InsertEntry
<1>4. CASE R!SealRecord(h)
  <2>1. HandsOf(R!Holding("seal", R!NoUser, 0, {}))
        /\ R!Holding("seal", R!NoUser, 0, {}) \in R!ClerkType
    BY HoldingType, Bounds DEF HandsOf, OnPackage
  <2>. QED
    BY <1>4, <2>1, ClerkBegins DEF R!SealRecord
<1>5. CASE R!WriteSealed(h)
  <2>1. record' \in RecordType
    BY <1>1, <1>5 DEF R!WriteSealed, RecordType
  <2>. QED
    BY <1>5, <2>1, ClerkEnds DEF R!WriteSealed
<1>. QED
  BY <1>2, <1>3, <1>4, <1>5

(* createTransferPackage and submitTransferPackage. *)
LEMMA SubmissionStep ==
  ASSUME TransferInv, NEW h \in Handler,
         \/ R!CreatePackage(h) \/ R!FindNoActive(h) \/ R!InsertPackage(h)
         \/ R!SubmitPackage(h) \/ R!FindSealed(h) \/ R!WriteSubmitted(h)
  PROVE  TransferInv'
<1>1. /\ record \in RecordType /\ clerk[h] \in R!ClerkType
      /\ package \in [R!Package -> R!PackageType]
  BY DEF TransferInv, R!TypeOK, RecordType
<1>2. CASE R!CreatePackage(h)
  <2>1. PICK u \in User : R!Begin(h, R!Holding("create", u, 0, record.files))
    BY <1>2 DEF R!CreatePackage
  <2>2. /\ HandsOf(R!Holding("create", u, 0, record.files))
        /\ R!Holding("create", u, 0, record.files) \in R!ClerkType
    BY <1>1, HoldingType, Bounds DEF HandsOf, OnPackage, RecordType
  <2>. QED
    BY <2>1, <2>2, ClerkBegins
<1>3. CASE R!FindNoActive(h) \/ R!FindSealed(h)
  BY <1>3, ClerkGoes DEF R!FindNoActive, R!FindSealed
<1>4. CASE R!InsertPackage(h)
  <2>. DEFINE parcel == R!NewPackage(clerk[h].user, clerk[h].files)
  <2>1. PICK p \in R!Package :
          /\ package[p] = R!NoPackage /\ R!Ends(h, "insert")
          /\ package' = [package EXCEPT ![p] = parcel]
          /\ record' = record
    BY <1>4 DEF R!InsertPackage
  <2>2. /\ parcel \in R!PackageType /\ parcel.status = "DRAFT" /\ parcel.archivist = R!NoUser
        /\ parcel.receipt = R!NoReceipt
    BY <1>1 DEF R!NewPackage, R!PackageType, R!NoReceipt, R!ClerkType
  <2>3. InOrder(parcel)
    BY <2>2, Bounds DEF InOrder
  <2>4. parcel.status # "none" /\ record' \in RecordType
    BY <2>1, <2>2, <1>1
  <2>. QED
    BY <2>1, <2>2, <2>3, <2>4, PackageRewritten
<1>5. CASE R!SubmitPackage(h)
  <2>1. PICK p \in R!Package :
          package[p].status = "DRAFT" /\ R!Begin(h, R!Holding("submit", package[p].submitter, p, {}))
    BY <1>5 DEF R!SubmitPackage
  <2>. DEFINE c == R!Holding("submit", package[p].submitter, p, {})
  <2>2. c \in R!ClerkType /\ c.pc = "submit" /\ c.on = p
    BY <1>1, HoldingType, Bounds DEF R!Package, R!PackageType
  <2>3. HandsOf(c)
    BY <2>1, <2>2, PackageRows DEF HandsOf, OnPackage
  <2>. QED
    BY <2>1, <2>2, <2>3, ClerkBegins
<1>6. CASE R!WriteSubmitted(h)
  <2>. DEFINE p == clerk[h].on
              parcel == [package[p] EXCEPT !.status = "SUBMITTED"]
  <2>1. R!Ends(h, "submitted") /\ clerk[h].pc = "submitted"
    BY <1>6 DEF R!WriteSubmitted, R!Ends
  <2>2. p \in R!Package /\ package[p] \in R!PackageType /\ InOrder(package[p])
    BY <2>1, HeldPackage DEF OnPackage
  <2>3. /\ parcel \in R!PackageType /\ parcel.status = "SUBMITTED"
        /\ parcel.archivist = package[p].archivist
        /\ parcel.submitter = package[p].submitter /\ parcel.receipt = package[p].receipt
    BY <2>2 DEF R!PackageType
  <2>4. InOrder(parcel) /\ parcel.status # "none"
    BY <2>2, <2>3 DEF InOrder
  <2>5. package' = [package EXCEPT ![p] = parcel] /\ record' \in RecordType
    BY <1>1, <1>6 DEF R!WriteSubmitted
  <2>. QED
    BY <2>1, <2>2, <2>3, <2>4, <2>5, PackageRewritten
<1>. QED
  BY <1>2, <1>3, <1>4, <1>5, <1>6

(* receiveTransferPackage. *)
LEMMA ReceptionStep ==
  ASSUME TransferInv, NEW h \in Handler, R!ReceivePackage(h) \/ R!WriteReceived(h)
  PROVE  TransferInv'
<1>1. /\ record \in RecordType /\ clerk[h] \in R!ClerkType
      /\ package \in [R!Package -> R!PackageType]
  BY DEF TransferInv, R!TypeOK, RecordType
<1>2. CASE R!ReceivePackage(h)
  <2>1. PICK p \in R!Package, u \in User :
          R!Receivable(package[p], u) /\ R!Begin(h, R!Holding("receive", u, p, {}))
    BY <1>2 DEF R!ReceivePackage
  <2>. DEFINE c == R!Holding("receive", u, p, {})
  <2>2. c \in R!ClerkType /\ c.pc = "receive" /\ c.on = p /\ c.user = u
    BY HoldingType, Bounds DEF R!Package
  <2>3. HandsOf(c)
    BY <2>1, <2>2, PackageRows DEF HandsOf, OnPackage, R!Receivable
  <2>. QED
    BY <2>1, <2>2, <2>3, ClerkBegins
<1>3. CASE R!WriteReceived(h)
  <2>. DEFINE p == clerk[h].on
              parcel == [package[p] EXCEPT !.status = "RECEIVED_CHECKING", !.archivist = clerk[h].user]
  <2>1. R!Ends(h, "receive") /\ clerk[h].pc = "receive"
    BY <1>3 DEF R!WriteReceived, R!Ends
  <2>2. p \in R!Package /\ package[p] \in R!PackageType /\ InOrder(package[p])
    BY <2>1, HeldPackage DEF OnPackage
  <2>3. clerk[h].user \in User /\ clerk[h].user # package[p].submitter
    BY <2>1 DEF TransferInv, HandsOf
  <2>4. /\ parcel \in R!PackageType /\ parcel.status = "RECEIVED_CHECKING"
        /\ parcel.archivist = clerk[h].user
        /\ parcel.submitter = package[p].submitter /\ parcel.receipt = package[p].receipt
    BY <2>2, <2>3 DEF R!PackageType
  <2>5. InOrder(parcel) /\ parcel.status # "none"
    BY <2>2, <2>3, <2>4 DEF InOrder
  <2>6. package' = [package EXCEPT ![p] = parcel] /\ record' \in RecordType
    BY <1>1, <1>3 DEF R!WriteReceived
  <2>. QED
    BY <2>1, <2>2, <2>3, <2>4, <2>5, <2>6, PackageRewritten
<1>. QED
  BY <1>2, <1>3

(* acceptTransferPackage and rejectTransferPackage, until they write. *)
LEMMA DecisionBegins ==
  ASSUME TransferInv, NEW h \in Handler,
         R!AcceptPackage(h) \/ R!ValidatePackage(h) \/ R!RejectPackage(h)
  PROVE  TransferInv'
<1>1. package \in [R!Package -> R!PackageType] /\ \A p \in R!Package : InOrder(package[p])
  BY DEF TransferInv, R!TypeOK
<1>2. ASSUME NEW p \in R!Package, package[p].status = "RECEIVED_CHECKING",
             NEW pc \in {"accept", "reject"}, NEW f \in SUBSET File,
             R!Begin(h, R!Holding(pc, package[p].archivist, p, f))
      PROVE  TransferInv'
  <2>. DEFINE c == R!Holding(pc, package[p].archivist, p, f)
  <2>1. package[p].archivist \in User /\ package[p].archivist # package[p].submitter
    BY <1>1, <1>2 DEF InOrder
  <2>2. c \in R!ClerkType /\ c.pc = pc /\ c.on = p /\ c.user = package[p].archivist
    BY <2>1, HoldingType, Bounds DEF R!Package
  <2>3. HandsOf(c)
    BY <1>2, <2>1, <2>2, PackageRows DEF HandsOf, OnPackage
  <2>. QED
    BY <1>2, <2>2, <2>3, ClerkBegins
<1>3. \A p \in R!Package : package[p].files \in SUBSET File
  BY <1>1 DEF R!PackageType
<1>4. CASE R!AcceptPackage(h)
  BY <1>2, <1>3, <1>4 DEF R!AcceptPackage
<1>5. CASE R!RejectPackage(h)
  BY <1>2, <1>5 DEF R!RejectPackage
<1>6. CASE R!ValidatePackage(h)
  BY <1>6, ClerkGoes DEF R!ValidatePackage
<1>. QED
  BY <1>4, <1>5, <1>6

(* acceptTransferPackage and rejectTransferPackage write. *)
LEMMA DecisionStep ==
  ASSUME TransferInv, NEW h \in Handler, R!WriteAccepted(h) \/ R!WriteRejected(h)
  PROVE  TransferInv'
<1>. DEFINE p == clerk[h].on
            Row(s, yes) == [package[p] EXCEPT !.status = s, !.receipt = R!Receipt(clerk[h].user, yes)]
<1>1. /\ clerk[h].pc \in {"accepted", "reject"} /\ R!Ends(h, clerk[h].pc)
  BY DEF R!WriteAccepted, R!WriteRejected, R!Ends
<1>2. p \in R!Package /\ package[p] \in R!PackageType /\ InOrder(package[p])
  BY <1>1, HeldPackage DEF OnPackage
<1>3. /\ clerk[h].user \in User /\ clerk[h].user # package[p].submitter
      /\ package[p].archivist \in User
  BY <1>1 DEF TransferInv, HandsOf
<1>4. record \in RecordType /\ record' \in RecordType
  BY DEF TransferInv, R!TypeOK, RecordType, R!WriteAccepted, R!WriteRejected
<1>5. PICK s \in {"ACCEPTED", "REJECTED"}, yes \in BOOLEAN :
        package' = [package EXCEPT ![p] = Row(s, yes)]
  BY <1>2 DEF R!WriteAccepted, R!WriteRejected
<1>6. /\ Row(s, yes) \in R!PackageType /\ Row(s, yes).status = s
      /\ Row(s, yes).archivist = package[p].archivist
      /\ Row(s, yes).submitter = package[p].submitter
      /\ Row(s, yes).receipt.by = clerk[h].user
  BY <1>2, <1>3 DEF R!PackageType, R!Receipt
<1>7. InOrder(Row(s, yes)) /\ Row(s, yes).status # "none"
  BY <1>2, <1>3, <1>6 DEF InOrder
<1>. HIDE DEF Row
<1>. QED
  BY <1>1, <1>2, <1>3, <1>4, <1>5, <1>6, <1>7, PackageRewritten

(* archiveTransferPackage. *)
LEMMA ArchivalStep ==
  ASSUME TransferInv, NEW h \in Handler, R!ArchivePackage(h) \/ R!WriteArchived(h)
  PROVE  TransferInv'
<1>1. /\ record \in RecordType /\ clerk[h] \in R!ClerkType
      /\ package \in [R!Package -> R!PackageType]
  BY DEF TransferInv, R!TypeOK, RecordType
<1>2. CASE R!ArchivePackage(h)
  <2>1. PICK p \in R!Package :
          package[p].status = "ACCEPTED" /\ R!Begin(h, R!Holding("archive", R!NoUser, p, {}))
    BY <1>2 DEF R!ArchivePackage
  <2>. DEFINE c == R!Holding("archive", R!NoUser, p, {})
  <2>2. c \in R!ClerkType /\ c.pc = "archive" /\ c.on = p
    BY HoldingType, Bounds DEF R!Package
  <2>3. HandsOf(c)
    BY <2>1, <2>2, PackageRows DEF HandsOf, OnPackage
  <2>. QED
    BY <2>1, <2>2, <2>3, ClerkBegins
<1>3. CASE R!WriteArchived(h)
  <2>. DEFINE p == clerk[h].on
              parcel == [package[p] EXCEPT !.status = "ARCHIVED"]
  <2>1. R!Ends(h, "archive") /\ clerk[h].pc = "archive"
    BY <1>3 DEF R!WriteArchived, R!Ends
  <2>2. p \in R!Package /\ package[p] \in R!PackageType /\ InOrder(package[p])
    BY <2>1, HeldPackage DEF OnPackage
  <2>3. /\ parcel \in R!PackageType /\ parcel.status = "ARCHIVED"
        /\ parcel.archivist = package[p].archivist
        /\ parcel.submitter = package[p].submitter /\ parcel.receipt = package[p].receipt
    BY <2>2 DEF R!PackageType
  <2>4. InOrder(parcel) /\ parcel.status # "none"
    BY <2>2, <2>3 DEF InOrder
  <2>5. package' = [package EXCEPT ![p] = parcel] /\ record' \in RecordType
    BY <1>1, <1>3 DEF R!WriteArchived, RecordType
  <2>. QED
    BY <2>1, <2>2, <2>3, <2>4, <2>5, PackageRewritten
<1>. QED
  BY <1>2, <1>3

(* A request that is refused, fails or stops with the process. *)
LEMMA ClerkStops ==
  ASSUME TransferInv, NEW h \in Handler, R!Stop(h)
  PROVE  TransferInv'
<1>1. R!Ends(h, clerk[h].pc) /\ package' = package /\ record' \in RecordType
  BY DEF R!Stop, TransferInv, R!TypeOK, RecordType
<1>. QED
  BY <1>1, ClerkEnds
-----------------------------------------------------------------------------
(* Every step keeps the invariant. *)
LEMMA TransferStep == TransferInv /\ [R!Next]_R!transfer => TransferInv'
<1>. SUFFICES ASSUME TransferInv, [R!Next]_R!transfer PROVE TransferInv'
  OBVIOUS
<1>1. CASE R!Next
  BY <1>1, EntryStep, SubmissionStep, ReceptionStep, DecisionBegins, DecisionStep, ArchivalStep,
     ClerkStops DEF R!Next
<1>2. CASE UNCHANGED R!transfer
  BY <1>2 DEF R!transfer, TransferInv, R!TypeOK, InOrder, HandsOf
<1>. QED
  BY <1>1, <1>2

(* RecordTransfer: the invariant holds in every reachable state. *)
LEMMA TransferAlways == R!Spec => []TransferInv
BY TransferInit, TransferStep, PTL DEF R!Spec

(* receiveTransferPackage compares the caller with the submitter it has    *)
(* just read, and accept and reject take the archivist from the package    *)
(* they read: whatever requests overwrite each other's decisions, nobody   *)
(* receives or decides on a package of their own.                          *)
THEOREM HandsStaySeparate == R!Spec => []R!SeparateHands
<1>1. TransferInv => R!SeparateHands
  BY DEF TransferInv, InOrder, R!SeparateHands
<1>. QED
  BY <1>1, TransferAlways, PTL
-----------------------------------------------------------------------------
(* As long as requests come one at a time, what the request under way has  *)
(* read is still so, and the story of the record and its packages is the   *)
(* one CustodyAgrees tells.                                                *)
Told(p) ==
  /\ package[p].status \in {"ACCEPTED", "ARCHIVED"} <=> package[p].receipt.accepted
  /\ package[p].receipt.accepted =>
       package[p].receipt.by = package[p].archivist /\ package[p].files = record.files
  /\ package[p].status = "ACCEPTED" => record.status = "TRANSFERRED"
  /\ package[p].status = "ARCHIVED" => record.status = "ARCHIVED"

Story ==
  /\ \A p, q \in R!Package : R!OnItsWay(p) /\ R!OnItsWay(q) => p = q
  /\ \A p \in R!Package : Told(p)
  /\ record.status \in {"TRANSFERRED", "ARCHIVED"} =>
       \E p \in R!Package : package[p].receipt.accepted

InHand(c) ==
  /\ c.pc \in {"add", "seal"} => record.status = "DRAFT"
  /\ c.pc \in {"create", "insert"} => record.status = "SEALED"
  /\ c.pc = "insert" => \A p \in R!Package : ~R!IsActive(package[p])
  /\ c.pc \in {"submit", "submitted"} => package[c.on].status = "DRAFT"
  /\ c.pc = "receive" => package[c.on].status = "SUBMITTED"
  /\ c.pc \in {"accept", "accepted", "reject"} =>
       package[c.on].status = "RECEIVED_CHECKING" /\ package[c.on].archivist = c.user
  /\ c.pc \in {"accept", "accepted"} => package[c.on].files = c.files
  /\ c.pc = "accepted" => c.files = record.files
  /\ c.pc = "archive" => package[c.on].status = "ACCEPTED"

CustodyInv ==
  ~overlapped =>
    /\ Story
    /\ \A h \in Handler : InHand(clerk[h])
    /\ \A g, h \in Handler : clerk[g] # R!Free /\ clerk[h] # R!Free => g = h

(* A clerk who does nothing has read nothing. *)
LEMMA FreeInHand == InHand(R!Free)
BY PackageRows DEF InHand

(* Every initial state satisfies the invariant. *)
LEMMA CustodyInit == R!Init => CustodyInv
<1>. SUFFICES ASSUME R!Init PROVE CustodyInv
  OBVIOUS
<1>1. /\ \A h \in Handler : clerk[h] = R!Free
      /\ \A p \in R!Package : package[p] = R!NoPackage
      /\ record.status = "DRAFT"
  BY DEF R!Init
<1>2. R!NoReceipt.accepted = FALSE
  BY DEF R!NoReceipt
<1>3. Story
  BY <1>1, <1>2, PackageRows DEF Story, Told, R!OnItsWay
<1>. QED
  BY <1>1, <1>3, FreeInHand DEF CustodyInv

(* A request that begins alone has read the present. *)
LEMMA CustodyBegins ==
  ASSUME TransferInv, CustodyInv, NEW h \in Handler, NEW c \in R!ClerkType, R!Begin(h, c), InHand(c)
  PROVE  CustodyInv'
<1>. SUFFICES ASSUME ~overlapped' PROVE CustodyInv'
  BY DEF CustodyInv
<1>1. ~overlapped /\ \A g \in Handler : clerk[g] = R!Free
  BY DEF R!Begin, TransferInv, R!TypeOK
<1>2. /\ record' = record /\ package' = package
      /\ \A g \in Handler : clerk'[g] = IF g = h THEN c ELSE R!Free
  BY <1>1 DEF R!Begin, R!Become, TransferInv, R!TypeOK
<1>3. Story'
  BY <1>1, <1>2 DEF CustodyInv, Story, Told, R!OnItsWay
<1>4. \A g \in Handler : InHand(clerk[g])'
  BY <1>2, FreeInHand DEF InHand
<1>. QED
  BY <1>2, <1>3, <1>4 DEF CustodyInv

(* A request that goes on has the present still before it. *)
LEMMA CustodyGoes ==
  ASSUME TransferInv, CustodyInv, NEW h \in Handler, NEW c \in R!ClerkType, R!Become(h, c),
         clerk[h] # R!Free, UNCHANGED <<record, package, asked, overlapped>>, InHand(c)
  PROVE  CustodyInv'
<1>. SUFFICES ASSUME ~overlapped' PROVE CustodyInv'
  BY DEF CustodyInv
<1>1. \A g \in Handler : clerk'[g] = IF g = h THEN c ELSE clerk[g]
  BY DEF R!Become, TransferInv, R!TypeOK
<1>2. Story'
  BY DEF CustodyInv, Story, Told, R!OnItsWay
<1>3. \A g \in Handler : InHand(clerk[g])'
  BY <1>1 DEF CustodyInv, InHand
<1>4. \A g, k \in Handler : clerk'[g] # R!Free /\ clerk'[k] # R!Free => g = k
  BY <1>1 DEF CustodyInv
<1>. QED
  BY <1>2, <1>3, <1>4 DEF CustodyInv

(* A request that ends leaves nobody under way: only the story is left to  *)
(* show.                                                                   *)
LEMMA CustodyEnds ==
  ASSUME TransferInv, CustodyInv, NEW h \in Handler, NEW pc, pc # "free", R!Ends(h, pc),
         ~overlapped => Story'
  PROVE  CustodyInv'
<1>. SUFFICES ASSUME ~overlapped' PROVE CustodyInv'
  BY DEF CustodyInv
<1>1. ~overlapped /\ clerk[h] # R!Free
  BY PackageRows DEF R!Ends
<1>2. \A g \in Handler : clerk'[g] = R!Free
  BY <1>1 DEF R!Ends, R!Become, TransferInv, R!TypeOK, CustodyInv
<1>3. InHand(R!Free)'
  BY PackageRows DEF InHand
<1>. QED
  BY <1>1, <1>2, <1>3 DEF CustodyInv

(* addDocumentToRecord and sealRecord. *)
LEMMA EntryCustody ==
  ASSUME TransferInv, CustodyInv, NEW h \in Handler,
         R!AddEntry(h) \/ R!InsertEntry(h) \/ R!SealRecord(h) \/ R!WriteSealed(h)
  PROVE  CustodyInv'
<1>1. record \in RecordType
  BY DEF TransferInv, R!TypeOK, RecordType
<1>2. CASE R!AddEntry(h)
  <2>1. PICK f \in File : R!Begin(h, R!Holding("add", R!NoUser, 0, {f})) /\ record.status = "DRAFT"
    BY <1>2 DEF R!AddEntry
  <2>. DEFINE c == R!Holding("add", R!NoUser, 0, {f})
  <2>2. c \in R!ClerkType /\ c.pc = "add"
    BY HoldingType, Bounds
  <2>. HIDE DEF c
  <2>3. InHand(c)
    BY <2>1, <2>2 DEF InHand
  <2>. QED
    BY <2>1, <2>2, <2>3, CustodyBegins DEF c
<1>3. CASE R!SealRecord(h)
  <2>. DEFINE c == R!Holding("seal", R!NoUser, 0, {})
  <2>1. c \in R!ClerkType /\ c.pc = "seal"
    BY HoldingType, Bounds
  <2>2. R!Begin(h, c) /\ record.status = "DRAFT"
    BY <1>3 DEF R!SealRecord
  <2>. HIDE DEF c
  <2>3. InHand(c)
    BY <2>1, <2>2 DEF InHand
  <2>. QED
    BY <2>1, <2>2, <2>3, CustodyBegins
<1>4. ASSUME NEW pc \in {"add", "seal"}, R!Ends(h, pc), package' = package,
             record'.status \in {"DRAFT", "SEALED"}
      PROVE  CustodyInv'
  <2>1. ASSUME ~overlapped PROVE Story'
    <3>1. record.status = "DRAFT" /\ Story
      BY <1>4, <2>1 DEF CustodyInv, InHand, R!Ends
    <3>. QED
      BY <1>4, <3>1 DEF Story, Told, R!OnItsWay
  <2>. QED
    BY <1>4, <2>1, CustodyEnds
<1>5. CASE R!InsertEntry(h)
  <2>1. record'.status = record.status
    BY <1>1, <1>5 DEF R!InsertEntry, RecordType
  <2>2. CASE overlapped
    BY <2>2, <1>5 DEF R!InsertEntry, R!Ends, CustodyInv
  <2>3. CASE ~overlapped
    <3>1. record.status = "DRAFT"
      BY <1>5, <2>3 DEF CustodyInv, InHand, R!InsertEntry, R!Ends
    <3>. QED
      BY <1>4, <1>5, <2>1, <3>1 DEF R!InsertEntry
  <2>. QED
    BY <2>2, <2>3
<1>6. CASE R!WriteSealed(h)
  <2>1. record'.status = "SEALED"
    BY <1>1, <1>6 DEF R!WriteSealed, RecordType
  <2>. QED
    BY <1>4, <1>6, <2>1 DEF R!WriteSealed
<1>. QED
  BY <1>2, <1>3, <1>5, <1>6

(* The operations on packages begin. *)
LEMMA StartsCustody ==
  ASSUME TransferInv, CustodyInv, NEW h \in Handler,
         \/ R!CreatePackage(h) \/ R!SubmitPackage(h) \/ R!ReceivePackage(h)
         \/ R!AcceptPackage(h) \/ R!RejectPackage(h) \/ R!ArchivePackage(h)
  PROVE  CustodyInv'
<1>1. /\ record \in RecordType /\ package \in [R!Package -> R!PackageType]
      /\ R!Package \subseteq 0 .. MaxPackages
  BY Bounds DEF TransferInv, R!TypeOK, RecordType, R!Package
<1>2. ASSUME NEW pc \in {"create", "submit", "receive", "accept", "reject", "archive"},
             NEW u \in User \cup {R!NoUser}, NEW p \in 0 .. MaxPackages, NEW f \in SUBSET File,
             R!Begin(h, R!Holding(pc, u, p, f)),
             pc = "create" => record.status = "SEALED",
             pc = "submit" => package[p].status = "DRAFT",
             pc = "receive" => package[p].status = "SUBMITTED",
             pc \in {"accept", "reject"} =>
               package[p].status = "RECEIVED_CHECKING" /\ package[p].archivist = u,
             pc = "accept" => package[p].files = f,
             pc = "archive" => package[p].status = "ACCEPTED"
      PROVE  CustodyInv'
  <2>. DEFINE c == R!Holding(pc, u, p, f)
  <2>1. c \in R!ClerkType /\ c.pc = pc /\ c.user = u /\ c.on = p /\ c.files = f
    BY HoldingType
  <2>2. R!Begin(h, c)
    BY <1>2
  <2>. HIDE DEF c
  <2>3. InHand(c)
    BY <1>2, <2>1 DEF InHand
  <2>. QED
    BY <2>1, <2>2, <2>3, CustodyBegins
<1>3. \A p \in R!Package : /\ package[p].submitter \in User \cup {R!NoUser}
                           /\ package[p].archivist \in User \cup {R!NoUser}
                           /\ package[p].files \in SUBSET File
  BY <1>1 DEF R!PackageType
<1>4. record.files \in SUBSET File
  BY <1>1 DEF RecordType
<1>5. CASE R!CreatePackage(h)
  BY <1>1, <1>2, <1>4, <1>5, Bounds DEF R!CreatePackage
<1>6. CASE R!SubmitPackage(h)
  BY <1>1, <1>2, <1>3, <1>6 DEF R!SubmitPackage
<1>7. CASE R!ReceivePackage(h)
  BY <1>1, <1>2, <1>7 DEF R!ReceivePackage, R!Receivable
<1>8. CASE R!AcceptPackage(h)
  BY <1>1, <1>2, <1>3, <1>8 DEF R!AcceptPackage
<1>9. CASE R!RejectPackage(h)
  BY <1>1, <1>2, <1>3, <1>9 DEF R!RejectPackage
<1>10. CASE R!ArchivePackage(h)
  BY <1>1, <1>2, <1>10 DEF R!ArchivePackage
<1>. QED
  BY <1>5, <1>6, <1>7, <1>8, <1>9, <1>10

(* The checks that come between a read and a write. *)
LEMMA GoesCustody ==
  ASSUME TransferInv, CustodyInv, NEW h \in Handler,
         R!FindNoActive(h) \/ R!FindSealed(h) \/ R!ValidatePackage(h)
  PROVE  CustodyInv'
<1>1. PICK pc \in {"insert", "submitted", "accepted"} :
        /\ R!Become(h, [clerk[h] EXCEPT !.pc = pc])
        /\ UNCHANGED <<record, package, asked, overlapped>>
        /\ <<clerk[h].pc, pc>> \in {<<"create", "insert">>, <<"submit", "submitted">>,
                                    <<"accept", "accepted">>}
        /\ pc = "insert" => \A p \in R!Package : ~R!IsActive(package[p])
        /\ pc = "accepted" => clerk[h].files = record.files
  BY DEF R!FindNoActive, R!FindSealed, R!ValidatePackage, R!Goes
<1>. DEFINE c == [clerk[h] EXCEPT !.pc = pc]
<1>2. clerk[h] \in R!ClerkType
  BY DEF TransferInv, R!TypeOK
<1>3. /\ c \in R!ClerkType /\ c.pc = pc /\ c.user = clerk[h].user /\ c.on = clerk[h].on
      /\ c.files = clerk[h].files
  BY <1>2 DEF R!ClerkType
<1>4. R!Become(h, c) /\ clerk[h] # R!Free
  BY <1>1, PackageRows
<1>. HIDE DEF c
<1>5. CASE overlapped
  BY <1>1, <1>5 DEF CustodyInv
<1>6. CASE ~overlapped
  <2>1. InHand(c)
    BY <1>1, <1>3, <1>6 DEF CustodyInv, InHand
  <2>. QED
    BY <1>1, <1>3, <1>4, <2>1, CustodyGoes
<1>. QED
  BY <1>5, <1>6

(* A package that is on its way is rewritten, and the record with it when  *)
(* it is accepted or archived.                                             *)
LEMMA StoryRewritten ==
  ASSUME TransferInv, Story, NEW p \in R!Package, NEW parcel \in R!PackageType,
         package' = [package EXCEPT ![p] = parcel],
         R!OnItsWay(p) \/ \A q \in R!Package : ~R!OnItsWay(q),
         package[p].receipt.accepted => parcel.receipt.accepted,
         parcel.status \in {"ACCEPTED", "ARCHIVED"} <=> parcel.receipt.accepted,
         parcel.receipt.accepted => parcel.receipt.by = parcel.archivist /\ parcel.files = record.files,
         record'.files = record.files,
         record'.status = (IF parcel.status = "ACCEPTED" THEN "TRANSFERRED"
                           ELSE IF parcel.status = "ARCHIVED" THEN "ARCHIVED" ELSE record.status)
  PROVE  Story'
<1>1. \A q \in R!Package : package'[q] = IF q = p THEN parcel ELSE package[q]
  BY DEF TransferInv, R!TypeOK
<1>2. \A q \in R!Package : q # p => ~R!OnItsWay(q)
  BY DEF Story
<1>3. \A q \in R!Package : q # p => ~R!OnItsWay(q)'
  BY <1>1, <1>2 DEF R!OnItsWay
<1>4. ASSUME NEW q \in R!Package PROVE Told(q)'
  <2>1. CASE q = p
    BY <2>1, <1>1 DEF Told
  <2>2. CASE q # p
    <3>1. ~R!OnItsWay(q) /\ package'[q] = package[q] /\ Told(q)
      BY <2>2, <1>1, <1>2 DEF Story
    <3>. QED
      BY <3>1 DEF Told, R!OnItsWay
  <2>. QED
    BY <2>1, <2>2
<1>5. record'.status \in {"TRANSFERRED", "ARCHIVED"} =>
        \E q \in R!Package : package'[q].receipt.accepted
  <2>1. CASE parcel.receipt.accepted
    BY <2>1, <1>1
  <2>2. CASE ~parcel.receipt.accepted
    BY <2>2, <1>1 DEF Story
  <2>. QED
    BY <2>1, <2>2
<1>. QED
  BY <1>3, <1>4, <1>5 DEF Story

(* The operations on packages write. *)
LEMMA WritesCustody ==
  ASSUME TransferInv, CustodyInv, NEW h \in Handler,
         \/ R!WriteSubmitted(h) \/ R!WriteReceived(h) \/ R!WriteAccepted(h)
         \/ R!WriteRejected(h) \/ R!WriteArchived(h)
  PROVE  CustodyInv'
<1>. DEFINE p == clerk[h].on
<1>1. PICK pc \in {"submitted", "receive", "accepted", "reject", "archive"} : R!Ends(h, pc)
  BY DEF R!WriteSubmitted, R!WriteReceived, R!WriteAccepted, R!WriteRejected, R!WriteArchived
<1>2. clerk[h].pc = pc
  BY <1>1 DEF R!Ends
<1>3. p \in R!Package /\ package[p] \in R!PackageType /\ record \in RecordType
      /\ clerk[h].user \in User \cup {R!NoUser}
  BY <1>2, HeldPackage DEF OnPackage, TransferInv, R!TypeOK, RecordType
<1>4. ASSUME ~overlapped PROVE Story'
  <2>1. Story /\ InHand(clerk[h]) /\ Told(p)
    BY <1>3, <1>4 DEF CustodyInv, Story
  <2>2. CASE R!WriteSubmitted(h)
    <3>. DEFINE parcel == [package[p] EXCEPT !.status = "SUBMITTED"]
    <3>1. package[p].status = "DRAFT"
      BY <2>1, <2>2 DEF R!WriteSubmitted, R!Ends, InHand
    <3>2. /\ parcel \in R!PackageType /\ parcel.status = "SUBMITTED"
          /\ parcel.receipt = package[p].receipt
      BY <1>3 DEF R!PackageType
    <3>3. package' = [package EXCEPT ![p] = parcel] /\ record' = record
      BY <2>2 DEF R!WriteSubmitted
    <3>. HIDE DEF parcel, p
    <3>. QED
      BY <1>3, <2>1, <3>1, <3>2, <3>3, StoryRewritten DEF Told, R!OnItsWay
  <2>3. CASE R!WriteReceived(h)
    <3>. DEFINE parcel == [package[p] EXCEPT !.status = "RECEIVED_CHECKING",
                                        !.archivist = clerk[h].user]
    <3>1. package[p].status = "SUBMITTED"
      BY <2>1, <2>3 DEF R!WriteReceived, R!Ends, InHand
    <3>2. /\ parcel \in R!PackageType /\ parcel.status = "RECEIVED_CHECKING"
          /\ parcel.receipt = package[p].receipt
      BY <1>3 DEF R!PackageType
    <3>3. package' = [package EXCEPT ![p] = parcel] /\ record' = record
      BY <1>3, <2>3 DEF R!WriteReceived
    <3>. HIDE DEF parcel, p
    <3>. QED
      BY <1>3, <2>1, <3>1, <3>2, <3>3, StoryRewritten DEF Told, R!OnItsWay
  <2>4. CASE R!WriteAccepted(h)
    <3>. DEFINE parcel == [package[p] EXCEPT !.status = "ACCEPTED",
                                             !.receipt = R!Receipt(clerk[h].user, TRUE)]
    <3>1. /\ package[p].status = "RECEIVED_CHECKING" /\ package[p].archivist = clerk[h].user
          /\ package[p].files = record.files
      BY <2>1, <2>4 DEF R!WriteAccepted, R!Ends, InHand
    <3>2. R!Receipt(clerk[h].user, TRUE) \in [by: User \cup {R!NoUser}, accepted: BOOLEAN]
          /\ R!Receipt(clerk[h].user, TRUE).by = clerk[h].user
          /\ R!Receipt(clerk[h].user, TRUE).accepted
      BY <1>3 DEF R!Receipt
    <3>3. /\ parcel \in R!PackageType /\ parcel.status = "ACCEPTED"
          /\ parcel.receipt = R!Receipt(clerk[h].user, TRUE)
          /\ parcel.archivist = package[p].archivist /\ parcel.files = package[p].files
      BY <1>3, <3>2 DEF R!PackageType
    <3>4. package' = [package EXCEPT ![p] = parcel]
      BY <1>3, <2>4 DEF R!WriteAccepted
    <3>5. record'.files = record.files /\ record'.status = "TRANSFERRED"
      BY <1>3, <2>4 DEF R!WriteAccepted, RecordType
    <3>. HIDE DEF parcel, p
    <3>. QED
      BY <1>3, <2>1, <3>1, <3>2, <3>3, <3>4, <3>5, StoryRewritten DEF Told, R!OnItsWay
  <2>5. CASE R!WriteRejected(h)
    <3>. DEFINE parcel == [package[p] EXCEPT !.status = "REJECTED",
                                             !.receipt = R!Receipt(clerk[h].user, FALSE)]
    <3>1. package[p].status = "RECEIVED_CHECKING"
      BY <2>1, <2>5 DEF R!WriteRejected, R!Ends, InHand
    <3>2. R!Receipt(clerk[h].user, FALSE) \in [by: User \cup {R!NoUser}, accepted: BOOLEAN]
          /\ ~R!Receipt(clerk[h].user, FALSE).accepted
      BY <1>3 DEF R!Receipt
    <3>3. /\ parcel \in R!PackageType /\ parcel.status = "REJECTED"
          /\ parcel.receipt = R!Receipt(clerk[h].user, FALSE)
      BY <1>3, <3>2 DEF R!PackageType
    <3>4. package' = [package EXCEPT ![p] = parcel] /\ record' = record
      BY <1>3, <2>5 DEF R!WriteRejected
    <3>. HIDE DEF parcel, p
    <3>. QED
      BY <1>3, <2>1, <3>1, <3>2, <3>3, <3>4, StoryRewritten DEF Told, R!OnItsWay
  <2>6. CASE R!WriteArchived(h)
    <3>. DEFINE parcel == [package[p] EXCEPT !.status = "ARCHIVED"]
    <3>1. package[p].status = "ACCEPTED"
      BY <2>1, <2>6 DEF R!WriteArchived, R!Ends, InHand
    <3>2. /\ parcel \in R!PackageType /\ parcel.status = "ARCHIVED"
          /\ parcel.receipt = package[p].receipt /\ parcel.files = package[p].files
          /\ parcel.archivist = package[p].archivist
      BY <1>3 DEF R!PackageType
    <3>3. package' = [package EXCEPT ![p] = parcel]
      BY <2>6 DEF R!WriteArchived
    <3>4. record'.files = record.files /\ record'.status = "ARCHIVED"
      BY <1>3, <2>6 DEF R!WriteArchived, RecordType
    <3>. HIDE DEF parcel, p
    <3>. QED
      BY <1>3, <2>1, <3>1, <3>2, <3>3, <3>4, StoryRewritten DEF Told, R!OnItsWay
  <2>. QED
    BY <2>2, <2>3, <2>4, <2>5, <2>6
<1>. QED
  BY <1>1, <1>4, CustodyEnds

(* createTransferPackage writes. *)
LEMMA InsertCustody ==
  ASSUME TransferInv, CustodyInv, NEW h \in Handler, R!InsertPackage(h)
  PROVE  CustodyInv'
<1>. DEFINE parcel == R!NewPackage(clerk[h].user, clerk[h].files)
<1>1. PICK p \in R!Package :
        /\ R!Ends(h, "insert") /\ package' = [package EXCEPT ![p] = parcel] /\ record' = record
  BY DEF R!InsertPackage
<1>2. clerk[h] \in R!ClerkType
  BY DEF TransferInv, R!TypeOK
<1>3. parcel \in R!PackageType /\ parcel.status = "DRAFT" /\ ~parcel.receipt.accepted
  BY <1>2 DEF R!NewPackage, R!PackageType, R!NoReceipt, R!ClerkType
<1>4. ASSUME ~overlapped PROVE Story'
  <2>1. Story /\ InHand(clerk[h]) /\ clerk[h].pc = "insert"
    BY <1>1, <1>4 DEF CustodyInv, R!Ends
  <2>2. \A q \in R!Package : ~R!OnItsWay(q) /\ ~package[q].receipt.accepted
    BY <2>1 DEF InHand, Story, Told, R!OnItsWay, R!IsActive, TransferInv, R!TypeOK, R!PackageType
  <2>. HIDE DEF parcel
  <2>. QED
    BY <1>1, <1>3, <2>1, <2>2, StoryRewritten
<1>. QED
  BY <1>1, <1>4, CustodyEnds

(* A request that is refused, fails or stops with the process. *)
LEMMA StopCustody ==
  ASSUME TransferInv, CustodyInv, NEW h \in Handler, R!Stop(h)
  PROVE  CustodyInv'
<1>. SUFFICES ASSUME ~overlapped' PROVE CustodyInv'
  BY DEF CustodyInv
<1>1. ~overlapped /\ clerk[h] # R!Free /\ record' = record /\ package' = package
  BY DEF R!Stop, R!Ends
<1>2. \A g \in Handler : clerk'[g] = R!Free
  BY <1>1 DEF R!Stop, R!Ends, R!Become, TransferInv, R!TypeOK, CustodyInv
<1>3. InHand(R!Free)'
  BY PackageRows DEF InHand
<1>4. Story'
  BY <1>1 DEF CustodyInv, Story, Told, R!OnItsWay
<1>. QED
  BY <1>2, <1>3, <1>4 DEF CustodyInv

(* Every step keeps the invariant. *)
LEMMA CustodyStep == TransferInv /\ CustodyInv /\ [R!Next]_R!transfer => CustodyInv'
<1>. SUFFICES ASSUME TransferInv, CustodyInv, [R!Next]_R!transfer PROVE CustodyInv'
  OBVIOUS
<1>1. CASE R!Next
  BY <1>1, EntryCustody, StartsCustody, GoesCustody, WritesCustody, InsertCustody, StopCustody
  DEF R!Next
<1>2. CASE UNCHANGED R!transfer
  BY <1>2 DEF R!transfer, CustodyInv, Story, Told, R!OnItsWay, InHand
<1>. QED
  BY <1>1, <1>2

(* What it takes for a receipt to be one of acceptance by a given          *)
(* archivist.                                                              *)
LEMMA ReceiptIs ==
  ASSUME NEW A, NEW r \in [by: A, accepted: BOOLEAN], NEW u
  PROVE  r = [by |-> u, accepted |-> TRUE] <=> r.accepted /\ r.by = u
OBVIOUS

(* As long as requests come one at a time, a record has at most one        *)
(* package on its way, and record, package and receipt agree.              *)
THEOREM CustodyIsKept == R!Spec => []CustodyAgrees
<1>1. TransferInv /\ CustodyInv => CustodyAgrees
  <2>1. ASSUME TransferInv, Story, NEW p \in R!Package
        PROVE  /\ package[p].status \in {"ACCEPTED", "ARCHIVED"} <=>
                    package[p].receipt = R!Receipt(package[p].archivist, TRUE)
               /\ package[p].status = "ACCEPTED" => record.status = "TRANSFERRED"
               /\ package[p].status = "ARCHIVED" => record.status = "ARCHIVED"
               /\ package[p].receipt.accepted => package[p].files = record.files
    <3>1. package[p].receipt \in [by: User \cup {R!NoUser}, accepted: BOOLEAN]
      BY <2>1 DEF TransferInv, R!TypeOK, R!PackageType
    <3>2. package[p].receipt = R!Receipt(package[p].archivist, TRUE) <=>
            package[p].receipt.accepted /\ package[p].receipt.by = package[p].archivist
      BY <3>1, ReceiptIs DEF R!Receipt
    <3>. QED
      BY <2>1, <3>2 DEF Story, Told
  <2>. QED
    BY <2>1 DEF CustodyInv, Story, CustodyAgrees, R!CustodyAgrees
<1>2. R!Spec => []CustodyInv
  BY CustodyInit, CustodyStep, TransferAlways, PTL DEF R!Spec
<1>. QED
  BY <1>1, <1>2, TransferAlways, PTL
-----------------------------------------------------------------------------
(* Disposal: approvals, holds and the objects of a document.               *)
LEMMA AwayIs ==
  /\ D!Away \in D!OperatorType /\ D!Away.pc = "away" /\ D!Away.found = {}
  /\ D!Away.user = D!NoUser /\ D!Away.failed = FALSE /\ D!Away.left = {} /\ D!Away.row = {}
BY DocumentAssumption DEF D!Away, D!OperatorType

Placed == {k \in D!Hold : holds[k].by # D!NoUser}

(* What is left of the versions in the store was added late. *)
Gone == \A v \in DOMAIN versions \ tardy : versions[v] \notin objects

Executing == {"execute", "approved", "delete", "remove"}

Diligent(o) ==
  /\ o.pc = "release" => o.hold \in D!Hold
  /\ o.pc \in {"place", "hold"} => o.user \in User
  /\ o.pc \in {"check", "eligible"} \cup Executing => document.due
  /\ o.pc \in Executing \ {"execute"} => document.approved
  /\ o.pc \in Executing /\ ~o.failed =>
       \A v \in DOMAIN versions \ tardy : v \in o.left \/ versions[v] \notin objects
  /\ o.left \cup o.row \subseteq DOMAIN versions
  /\ o.found \subseteq Placed
  /\ o.pc \in {"delete", "remove"} => o.found \cap D!Active = {}

DisposalInv ==
  /\ D!TypeOK
  /\ D!Active \subseteq Placed
  /\ document.status # "null" => document.due
  /\ document.status = "DISPOSED" => Gone
  /\ \A h \in Handler : Diligent(operator[h])

(* Every initial state satisfies the invariant. *)
LEMMA DisposalInit == D!Init => DisposalInv
<1>. SUFFICES ASSUME D!Init PROVE DisposalInv
  OBVIOUS
<1>1. \A k \in D!Hold : holds[k].by = D!NoUser /\ holds[k].active = FALSE
  BY DEF D!Init
<1>2. /\ operator \in [Handler -> D!OperatorType]
      /\ \A h \in Handler : operator[h] = D!Away
  BY AwayIs DEF D!Init
<1>3. \A h \in Handler : Diligent(operator[h])
  BY <1>2, AwayIs DEF Diligent, Executing
<1>4. holds \in [D!Hold -> [by: User \cup {D!NoUser}, active: BOOLEAN]]
  BY DEF D!Init
<1>5. document \in [due: BOOLEAN, status: {"null", "DISPOSED_ELIGIBLE", "DISPOSED"}, approved: BOOLEAN]
  BY DEF D!Init
<1>6. opened \in 0 .. DisposalRequests
  BY DocumentsAssumption DEF D!Init
<1>7. D!TypeOK
  <2>1. \/ versions = <<>>
        \/ \E f \in File : versions = <<f>>
    BY DEF D!Init
  <2>2. versions \in Seq(File) /\ Len(versions) \in {0, 1}
    <3>1. CASE versions = <<>>
      BY <3>1
    <3>2. ASSUME NEW f \in File, versions = <<f>> PROVE versions \in Seq(File) /\ Len(versions) = 1
      BY <3>2
    <3>. QED
      BY <2>1, <3>1, <3>2
  <2>3. MaxVersion \in Nat /\ MaxVersion # 0
    BY DocumentsAssumption
  <2>4. Len(versions) <= MaxVersion
    BY <2>2, <2>3
  <2>. QED
    BY <1>2, <1>4, <1>5, <1>6, <2>2, <2>4, AwayIs DEF D!TypeOK, D!Init
<1>8. D!Active \subseteq Placed
  BY <1>1 DEF D!Active, Placed
<1>9. document.status = "null"
  BY DEF D!Init
<1>. QED
  BY <1>3, <1>7, <1>8, <1>9 DEF DisposalInv

(* A request that changes only what it is doing. *)
LEMMA DisposalOwnStep ==
  ASSUME DisposalInv, NEW h \in Handler, NEW r \in D!OperatorType, Diligent(r),
         D!Become(h, r), UNCHANGED <<document, versions, objects, holds, tardy>>,
         opened' \in 0 .. DisposalRequests
  PROVE  DisposalInv'
<1>1. /\ operator' \in [Handler -> D!OperatorType]
      /\ \A g \in Handler : operator'[g] = IF g = h THEN r ELSE operator[g]
  BY DEF DisposalInv, D!TypeOK, D!Become
<1>2. D!Active' = D!Active /\ Placed' = Placed
  BY DEF D!Active, Placed
<1>3. \A g \in Handler : Diligent(operator[g])'
  BY <1>1, <1>2 DEF DisposalInv, Diligent
<1>4. D!TypeOK'
  BY <1>1, <1>3 DEF DisposalInv, D!TypeOK, Diligent
<1>. QED
  BY <1>2, <1>3, <1>4 DEF DisposalInv, Gone

DocumentType == [due: BOOLEAN, status: {"null", "DISPOSED_ELIGIBLE", "DISPOSED"}, approved: BOOLEAN]

(* A request that ends by writing the document, or nothing. *)
LEMMA DisposalEndStep ==
  ASSUME DisposalInv, NEW h \in Handler, NEW pc, D!Ends(h, pc), document' \in DocumentType,
         document.due => document'.due, document.approved => document'.approved,
         document'.status # "null" => document'.due,
         document'.status = "DISPOSED" => Gone,
         holds' = holds
  PROVE  DisposalInv'
<1>1. /\ operator' \in [Handler -> D!OperatorType]
      /\ \A g \in Handler : operator'[g] = IF g = h THEN D!Away ELSE operator[g]
  BY AwayIs DEF DisposalInv, D!TypeOK, D!Ends, D!Become
<1>2. D!Active' = D!Active /\ Placed' = Placed
  BY DEF D!Active, Placed
<1>3. objects' = objects /\ versions' = versions /\ tardy' = tardy /\ opened' = opened
  BY DEF D!Ends
<1>4. Diligent(D!Away)'
  BY AwayIs DEF Diligent, Executing
<1>5. \A g \in Handler : Diligent(operator[g]) => Diligent(operator[g])' \/ g = h
  BY <1>1, <1>2, <1>3 DEF Diligent
<1>6. \A g \in Handler : Diligent(operator[g])'
  BY <1>1, <1>4, <1>5 DEF DisposalInv, Diligent
<1>7. D!TypeOK'
  BY <1>1, <1>3, <1>6 DEF DisposalInv, D!TypeOK, Diligent, DocumentType
<1>8. (document.status = "DISPOSED" => Gone)'
  BY <1>3 DEF Gone
<1>. QED
  BY <1>2, <1>6, <1>7, <1>8 DEF DisposalInv

(* What a request that goes on may do: as its own step says. *)
LEMMA BeginsIs ==
  ASSUME DisposalInv, NEW h \in Handler, NEW r \in D!OperatorType, D!Begin(h, r),
         r.pc \notin {"delete", "remove"},
         r.pc = "release" => r.hold \in D!Hold, r.pc = "place" => r.user \in User, r.pc # "hold",
         r.pc \in {"check", "eligible"} \cup Executing => document.due,
         r.pc # "approved",
         r.pc = "execute" => r.left = DOMAIN versions,
         r.left \cup r.row \subseteq DOMAIN versions
  PROVE  DisposalInv'
<1>. DEFINE q == [r EXCEPT !.found = D!Active]
<1>1. /\ q \in D!OperatorType /\ q.pc = r.pc /\ q.hold = r.hold /\ q.user = r.user
      /\ q.left = r.left /\ q.row = r.row /\ q.failed = r.failed /\ q.found = D!Active
  BY DEF D!OperatorType, D!Active
<1>2. Diligent(q)
  BY <1>1 DEF Diligent, Executing, DisposalInv
<1>3. D!Become(h, q) /\ opened' \in 0 .. DisposalRequests
  BY DocumentsAssumption DEF D!Begin, DisposalInv, D!TypeOK
<1>. QED
  BY <1>1, <1>2, <1>3, DisposalOwnStep DEF D!Begin

(* A request that goes on with what Diligent asks of it. *)
LEMMA GoesIs ==
  ASSUME DisposalInv, NEW h \in Handler, NEW r \in D!OperatorType, D!Goes(h, r), Diligent(r)
  PROVE  DisposalInv'
<1>1. opened' \in 0 .. DisposalRequests
  BY DEF D!Goes, DisposalInv, D!TypeOK
<1>. QED
  BY <1>1, DisposalOwnStep DEF D!Goes

(* A request has found no active hold; whatever was active when it began   *)
(* is released.                                                            *)
LEMMA LookStep ==
  ASSUME DisposalInv, NEW h \in Handler, D!FindNoHold(h)
  PROVE  DisposalInv'
<1>1. operator[h] \in D!OperatorType /\ Diligent(operator[h])
  BY DEF DisposalInv, D!TypeOK
<1>2. PICK pc \in {"eligible", "approval", "delete", "hold"} :
        /\ D!Goes(h, [operator[h] EXCEPT !.pc = pc]) /\ D!Active = {}
        /\ <<operator[h].pc, pc>> \in {<<"check", "eligible">>, <<"approve", "approval">>,
                                       <<"approved", "delete">>, <<"place", "hold">>}
  <2>1. operator[h].pc \in {"check", "approve", "approved", "place"}
    BY DEF D!FindNoHold, D!AfterLook
  <2>2. D!Goes(h, [operator[h] EXCEPT !.pc = D!AfterLook[operator[h].pc]]) /\ D!Active = {}
    BY <1>1 DEF D!FindNoHold, D!OperatorType
  <2>. QED
    BY <2>1, <2>2 DEF D!AfterLook
<1>. DEFINE q == [operator[h] EXCEPT !.pc = pc]
<1>3. /\ q \in D!OperatorType /\ q.pc = pc /\ q.hold = operator[h].hold /\ q.user = operator[h].user
      /\ q.left = operator[h].left /\ q.row = operator[h].row
      /\ q.failed = operator[h].failed /\ q.found = operator[h].found
  BY <1>1 DEF D!OperatorType
<1>4. Diligent(q)
  BY <1>1, <1>2, <1>3 DEF Diligent, Executing
<1>. QED
  BY <1>2, <1>3, <1>4, GoesIs

(* The five operations begin. *)
LEMMA AskingStep ==
  ASSUME DisposalInv, NEW h \in Handler,
         D!CheckEligibility(h) \/ D!ApproveDisposal(h) \/ D!ExecuteDisposal(h)
           \/ D!PlaceHold(h) \/ D!ReleaseHold(h)
  PROVE  DisposalInv'
<1>1. \A pc \in {"check", "approve"} :
        /\ [D!Away EXCEPT !.pc = pc] \in D!OperatorType
        /\ [D!Away EXCEPT !.pc = pc].pc = pc
        /\ [D!Away EXCEPT !.pc = pc].left = {} /\ [D!Away EXCEPT !.pc = pc].row = {}
  BY AwayIs DEF D!OperatorType
<1>2. CASE D!CheckEligibility(h)
  BY <1>1, <1>2, BeginsIs DEF D!CheckEligibility, Executing
<1>3. CASE D!ApproveDisposal(h)
  BY <1>1, <1>3, BeginsIs DEF D!ApproveDisposal, Executing
<1>4. CASE D!ExecuteDisposal(h)
  <2>. DEFINE r == [D!Away EXCEPT !.pc = "execute", !.left = DOMAIN versions]
  <2>1. DOMAIN versions \subseteq 1 .. MaxVersion
    BY DocumentsAssumption DEF DisposalInv, D!TypeOK
  <2>2. r \in D!OperatorType /\ r.pc = "execute" /\ r.left = DOMAIN versions /\ r.row = {}
    BY <2>1, AwayIs DEF D!OperatorType
  <2>3. D!Begin(h, r) /\ document.due
    BY <1>4 DEF D!ExecuteDisposal, DisposalInv
  <2>. QED
    BY <2>1, <2>2, <2>3, BeginsIs DEF Executing
<1>5. CASE D!PlaceHold(h)
  <2>1. PICK u \in User : D!Begin(h, [D!Away EXCEPT !.pc = "place", !.user = u])
    BY <1>5 DEF D!PlaceHold
  <2>. DEFINE r == [D!Away EXCEPT !.pc = "place", !.user = u]
  <2>2. r \in D!OperatorType /\ r.pc = "place" /\ r.user = u /\ r.left = {} /\ r.row = {}
    BY AwayIs DEF D!OperatorType
  <2>. QED
    BY <2>1, <2>2, BeginsIs DEF Executing
<1>6. CASE D!ReleaseHold(h)
  <2>1. PICK k \in D!Active :
          D!Begin(h, [D!Away EXCEPT !.pc = "release", !.user = holds[k].by, !.hold = k])
    BY <1>6 DEF D!ReleaseHold
  <2>. DEFINE r == [D!Away EXCEPT !.pc = "release", !.user = holds[k].by, !.hold = k]
  <2>2. k \in D!Hold /\ holds[k].by \in User \cup {D!NoUser}
    BY DEF D!Active, DisposalInv, D!TypeOK
  <2>3. k \in 0 .. MaxHolds
    BY <2>2, DocumentAssumption DEF D!Hold
  <2>4. r \in D!OperatorType /\ r.pc = "release" /\ r.hold = k /\ r.left = {} /\ r.row = {}
    BY <2>2, <2>3, AwayIs DEF D!OperatorType
  <2>. QED
    BY <2>1, <2>2, <2>4, BeginsIs DEF Executing
<1>. QED
  BY <1>2, <1>3, <1>4, <1>5, <1>6

(* checkRetentionEligibility, approveDisposal and executeDisposal write. *)
LEMMA ApprovalStep ==
  ASSUME DisposalInv, NEW h \in Handler,
         \/ D!WriteEligible(h) \/ D!InsertApproval(h) \/ D!WriteDisposed(h)
         \/ D!AnswerDeletionFailed(h) \/ D!Stop(h)
  PROVE  DisposalInv'
<1>1. /\ document \in DocumentType /\ Diligent(operator[h])
      /\ document.status # "null" => document.due
      /\ document.status = "DISPOSED" => Gone
  BY DEF DisposalInv, D!TypeOK, DocumentType
<1>2. CASE D!WriteEligible(h)
  <2>1. D!Ends(h, "eligible") /\ document.due /\ holds' = holds
    BY <1>1, <1>2 DEF D!WriteEligible, D!Ends, Diligent
  <2>2. /\ document' \in DocumentType /\ document'.due = document.due
        /\ document'.approved = document.approved /\ document'.status = "DISPOSED_ELIGIBLE"
    BY <1>1, <1>2 DEF D!WriteEligible, DocumentType
  <2>. QED
    BY <2>1, <2>2, DisposalEndStep
<1>3. CASE D!InsertApproval(h)
  <2>1. D!Ends(h, "approval") /\ holds' = holds
    BY <1>3 DEF D!InsertApproval
  <2>2. /\ document' \in DocumentType /\ document'.due = document.due
        /\ document'.approved /\ document'.status = document.status
    BY <1>1, <1>3 DEF D!InsertApproval, DocumentType
  <2>. QED
    BY <1>1, <2>1, <2>2, DisposalEndStep
<1>4. CASE D!WriteDisposed(h)
  <2>1. D!Ends(h, "delete") /\ holds' = holds /\ document.due /\ Gone
    BY <1>1, <1>4 DEF D!WriteDisposed, D!Ends, Diligent, Executing, Gone
  <2>2. /\ document' \in DocumentType /\ document'.due = document.due
        /\ document'.approved = document.approved
    BY <1>1, <1>4 DEF D!WriteDisposed, DocumentType
  <2>. QED
    BY <2>1, <2>2, DisposalEndStep
<1>5. CASE D!AnswerDeletionFailed(h)
  BY <1>1, <1>5, DisposalEndStep DEF D!AnswerDeletionFailed
<1>6. CASE D!Stop(h)
  BY <1>1, <1>6, DisposalEndStep DEF D!Stop
<1>. QED
  BY <1>2, <1>3, <1>4, <1>5, <1>6

(* executeDisposal until it removes an object, or fails to. *)
LEMMA ExecutionStep ==
  ASSUME DisposalInv, NEW h \in Handler,
         D!FindApproval(h) \/ D!StatObject(h) \/ D!DeletionFails(h)
  PROVE  DisposalInv'
<1>1. operator[h] \in D!OperatorType /\ Diligent(operator[h])
  BY DEF DisposalInv, D!TypeOK
<1>2. CASE D!FindApproval(h)
  <2>. DEFINE q == [operator[h] EXCEPT !.pc = "approved"]
  <2>1. /\ q \in D!OperatorType /\ q.pc = "approved" /\ q.left = operator[h].left
        /\ q.row = operator[h].row
        /\ q.failed = operator[h].failed /\ q.found = operator[h].found
    BY <1>1 DEF D!OperatorType
  <2>2. Diligent(q) /\ D!Goes(h, q)
    BY <1>1, <1>2, <2>1 DEF Diligent, Executing, D!FindApproval
  <2>. QED
    BY <2>1, <2>2, GoesIs
<1>3. CASE D!StatObject(h)
  <2>1. PICK v \in operator[h].left : D!Goes(h, [operator[h] EXCEPT !.pc = "remove", !.row = {v}])
    BY <1>3 DEF D!StatObject
  <2>. DEFINE q == [operator[h] EXCEPT !.pc = "remove", !.row = {v}]
  <2>2. /\ q \in D!OperatorType /\ q.pc = "remove" /\ q.left = operator[h].left /\ q.row = {v}
        /\ q.failed = operator[h].failed /\ q.found = operator[h].found
    BY <1>1 DEF D!OperatorType
  <2>3. Diligent(q)
    BY <1>1, <1>3, <2>2 DEF Diligent, Executing, D!StatObject
  <2>. QED
    BY <2>1, <2>2, <2>3, GoesIs
<1>4. CASE D!DeletionFails(h)
  <2>1. PICK q \in D!OperatorType :
          /\ q.pc = "delete" /\ q.failed /\ q.found = operator[h].found /\ D!Goes(h, q)
          /\ q.left \cup q.row \subseteq operator[h].left \cup operator[h].row
    <3>1. ASSUME operator[h].pc = "delete", NEW v \in operator[h].left,
                 D!Goes(h, [operator[h] EXCEPT !.left = @ \ {v}, !.failed = TRUE])
          PROVE  \E q \in D!OperatorType :
                   /\ q.pc = "delete" /\ q.failed /\ q.found = operator[h].found /\ D!Goes(h, q)
                   /\ q.left \cup q.row \subseteq operator[h].left \cup operator[h].row
      <4>. DEFINE q == [operator[h] EXCEPT !.left = @ \ {v}, !.failed = TRUE]
      <4>1. /\ q \in D!OperatorType /\ q.pc = "delete" /\ q.failed /\ q.found = operator[h].found
            /\ q.left = operator[h].left \ {v} /\ q.row = operator[h].row
        BY <1>1, <3>1 DEF D!OperatorType
      <4>. QED
        BY <3>1, <4>1
    <3>2. ASSUME operator[h].pc = "remove",
                 D!Goes(h, [operator[h] EXCEPT !.pc = "delete", !.left = @ \ operator[h].row,
                                               !.row = {}, !.failed = TRUE])
          PROVE  \E q \in D!OperatorType :
                   /\ q.pc = "delete" /\ q.failed /\ q.found = operator[h].found /\ D!Goes(h, q)
                   /\ q.left \cup q.row \subseteq operator[h].left \cup operator[h].row
      <4>. DEFINE q == [operator[h] EXCEPT !.pc = "delete", !.left = @ \ operator[h].row,
                                           !.row = {}, !.failed = TRUE]
      <4>1. /\ q \in D!OperatorType /\ q.pc = "delete" /\ q.failed /\ q.found = operator[h].found
            /\ q.left = operator[h].left \ operator[h].row /\ q.row = {}
        BY <1>1 DEF D!OperatorType
      <4>. QED
        BY <3>2, <4>1
    <3>. QED
      BY <1>4, <3>1, <3>2 DEF D!DeletionFails
  <2>2. Diligent(q)
    BY <1>1, <1>4, <2>1 DEF Diligent, Executing, D!DeletionFails
  <2>. QED
    BY <2>1, <2>2, GoesIs
<1>. QED
  BY <1>2, <1>3, <1>4

(* executeDisposal removes an object. *)
LEMMA RemovalStep ==
  ASSUME DisposalInv, NEW h \in Handler, D!RemoveObject(h)
  PROVE  DisposalInv'
<1>1. operator[h] \in D!OperatorType /\ Diligent(operator[h]) /\ operator[h].pc = "remove"
  BY DEF DisposalInv, D!TypeOK, D!RemoveObject
<1>2. PICK q \in D!OperatorType :
        /\ q.pc = "delete" /\ q.left = operator[h].left \ operator[h].row /\ q.row = {}
        /\ q.failed = operator[h].failed /\ q.found = operator[h].found
        /\ D!Become(h, q)
  <2>. DEFINE q == [operator[h] EXCEPT !.pc = "delete", !.left = @ \ operator[h].row, !.row = {}]
  <2>1. /\ q \in D!OperatorType /\ q.pc = "delete" /\ q.left = operator[h].left \ operator[h].row
        /\ q.row = {} /\ q.failed = operator[h].failed /\ q.found = operator[h].found
    BY <1>1 DEF D!OperatorType
  <2>. QED
    BY <2>1 DEF D!RemoveObject
<1>3. /\ operator' \in [Handler -> D!OperatorType]
      /\ \A g \in Handler : operator'[g] = IF g = h THEN q ELSE operator[g]
  BY <1>2 DEF DisposalInv, D!TypeOK, D!Become
<1>4. /\ D!Active' = D!Active /\ Placed' = Placed /\ document' = document /\ tardy' = tardy
      /\ versions' = versions /\ opened' = opened
      /\ objects' = objects \ {versions[v] : v \in operator[h].row}
  BY DEF D!Active, Placed, D!RemoveObject
<1>5. Diligent(q)'
  BY <1>1, <1>2, <1>4 DEF Diligent, Executing
<1>6. \A g \in Handler : g # h => Diligent(operator[g])'
  BY <1>3, <1>4 DEF DisposalInv, Diligent
<1>7. \A g \in Handler : Diligent(operator[g])'
  BY <1>3, <1>5, <1>6
<1>8. D!TypeOK'
  BY <1>3, <1>4, <1>7 DEF DisposalInv, D!TypeOK, Diligent, D!RemoveObject
<1>9. (document.status = "DISPOSED" => Gone)'
  BY <1>4 DEF DisposalInv, Gone
<1>. QED
  BY <1>4, <1>7, <1>8, <1>9 DEF DisposalInv

(* A hold is placed or released; one that was placed never becomes active  *)
(* again.                                                                  *)
LEMMA HoldStep ==
  ASSUME DisposalInv, NEW h \in Handler, D!InsertHold(h) \/ D!WriteReleased(h)
  PROVE  DisposalInv'
<1>1. operator[h] \in D!OperatorType /\ Diligent(operator[h])
      /\ holds \in [D!Hold -> [by: User \cup {D!NoUser}, active: BOOLEAN]]
  BY DEF DisposalInv, D!TypeOK
<1>2. PICK k \in D!Hold, held \in [by: User \cup {D!NoUser}, active: BOOLEAN] :
        /\ holds' = [holds EXCEPT ![k] = held]
        /\ held.active => held.by # D!NoUser /\ holds[k].by = D!NoUser
        /\ holds[k].by # D!NoUser => held.by = holds[k].by
  <2>1. CASE D!InsertHold(h)
    <3>1. PICK k \in D!Hold :
            /\ holds[k].by = D!NoUser /\ D!Ends(h, "hold")
            /\ holds' = [holds EXCEPT ![k] = [by |-> operator[h].user, active |-> TRUE]]
      BY <2>1 DEF D!InsertHold
    <3>2. operator[h].user \in User /\ D!NoUser \notin User
      BY <1>1, <3>1, DocumentAssumption DEF Diligent, D!Ends, NoUser, D!NoUser
    <3>. DEFINE r == [by |-> operator[h].user, active |-> TRUE]
    <3>3. r \in [by: User \cup {D!NoUser}, active: BOOLEAN] /\ r.by = operator[h].user /\ r.active
      BY <3>2
    <3>. HIDE DEF r
    <3>. QED
      BY <3>1, <3>2, <3>3 DEF r
  <2>2. CASE D!WriteReleased(h)
    <3>. DEFINE k == operator[h].hold
                r == [holds[k] EXCEPT !.active = FALSE]
    <3>1. k \in D!Hold
      BY <1>1, <2>2 DEF D!WriteReleased, D!Ends, Diligent
    <3>2. r \in [by: User \cup {D!NoUser}, active: BOOLEAN] /\ r.by = holds[k].by /\ r.active = FALSE
      BY <1>1, <3>1
    <3>3. holds' = [holds EXCEPT ![k] = r]
      BY <1>1, <2>2, <3>1 DEF D!WriteReleased
    <3>. HIDE DEF k, r
    <3>. QED
      BY <3>1, <3>2, <3>3
  <2>. QED
    BY <2>1, <2>2
<1>3. /\ holds' \in [D!Hold -> [by: User \cup {D!NoUser}, active: BOOLEAN]]
      /\ \A j \in D!Hold : holds'[j] = IF j = k THEN held ELSE holds[j]
  BY <1>1, <1>2
<1>4. Placed \subseteq Placed' /\ D!Active' \subseteq Placed'
      /\ D!Active' \cap Placed \subseteq D!Active
  BY <1>2, <1>3 DEF D!Active, Placed, DisposalInv
<1>5. /\ document' = document /\ versions' = versions /\ objects' = objects /\ tardy' = tardy
      /\ opened' = opened /\ D!Become(h, D!Away)
  BY DEF D!InsertHold, D!WriteReleased, D!Ends
<1>6. /\ operator' \in [Handler -> D!OperatorType]
      /\ \A g \in Handler : operator'[g] = IF g = h THEN D!Away ELSE operator[g]
  BY <1>5, AwayIs DEF DisposalInv, D!TypeOK, D!Become
<1>7. Diligent(D!Away)'
  BY AwayIs DEF Diligent, Executing
<1>8. \A g \in Handler : Diligent(operator[g]) /\ g # h => Diligent(operator[g])'
  BY <1>4, <1>5, <1>6 DEF Diligent
<1>9. \A g \in Handler : Diligent(operator[g])'
  BY <1>6, <1>7, <1>8 DEF DisposalInv
<1>10. D!TypeOK'
  BY <1>3, <1>5, <1>6, <1>9 DEF DisposalInv, D!TypeOK, Diligent
<1>. QED
  BY <1>4, <1>5, <1>9, <1>10 DEF DisposalInv, Gone

(* Time passes, or a version is added. *)
LEMMA OutsideStep ==
  ASSUME DisposalInv, D!FallDue \/ D!AddVersion
  PROVE  DisposalInv'
<1>1. document \in DocumentType
  BY DEF DisposalInv, D!TypeOK, DocumentType
<1>2. /\ D!Active' = D!Active /\ Placed' = Placed /\ operator' = operator /\ holds' = holds
      /\ opened' = opened
  BY DEF D!Active, Placed, D!FallDue, D!AddVersion
<1>3. CASE D!FallDue
  <2>1. /\ document' \in DocumentType /\ document'.due /\ document'.approved = document.approved
        /\ document'.status = document.status
        /\ objects' = objects /\ versions' = versions /\ tardy' = tardy
    BY <1>1, <1>3 DEF D!FallDue, DocumentType
  <2>2. \A h \in Handler : Diligent(operator[h])'
    BY <1>2, <2>1 DEF DisposalInv, Diligent
  <2>. QED
    BY <1>2, <2>1, <2>2 DEF DisposalInv, Gone, D!TypeOK, DocumentType
<1>4. CASE D!AddVersion
  <2>1. PICK f \in File :
          /\ Len(versions) < MaxVersion /\ versions' = Append(versions, f) /\ document' = document
          /\ objects' = objects /\ tardy' \in {tardy, tardy \cup {Len(versions) + 1}}
          /\ document.status = "DISPOSED" \/ (\E h \in Handler : operator[h].pc \in Executing)
               => Len(versions) + 1 \in tardy'
    BY <1>4 DEF D!AddVersion, Executing
  <2>2. versions \in Seq(File) /\ Len(versions) \in Nat /\ DOMAIN versions = 1 .. Len(versions)
    BY DEF DisposalInv, D!TypeOK
  <2>3. /\ versions' \in Seq(File) /\ Len(versions') = Len(versions) + 1
        /\ DOMAIN versions' = DOMAIN versions \cup {Len(versions) + 1}
        /\ \A v \in DOMAIN versions : versions'[v] = versions[v]
    BY <2>1, <2>2
  <2>4. Len(versions') <= MaxVersion
    BY <2>1, <2>2, <2>3, DocumentsAssumption
  <2>5. tardy' \in SUBSET DOMAIN versions' /\ tardy \subseteq tardy'
    BY <2>1, <2>3 DEF DisposalInv, D!TypeOK
  <2>6. ASSUME NEW h \in Handler PROVE Diligent(operator[h])'
    <3>1. Diligent(operator[h])
      BY DEF DisposalInv
    <3>2. operator[h].pc \in Executing =>
            \A v \in DOMAIN versions' \ tardy' : v \in DOMAIN versions \ tardy
      BY <2>1, <2>3, <2>5
    <3>. QED
      BY <1>2, <2>1, <2>3, <3>1, <3>2 DEF Diligent
  <2>7. (document.status = "DISPOSED" => Gone)'
    BY <2>1, <2>3, <2>5 DEF DisposalInv, Gone
  <2>8. D!TypeOK'
    BY <1>2, <2>1, <2>3, <2>4, <2>5 DEF DisposalInv, D!TypeOK
  <2>. QED
    BY <1>2, <2>1, <2>6, <2>7, <2>8 DEF DisposalInv
<1>. QED
  BY <1>3, <1>4

(* Every step keeps the invariant. *)
LEMMA DisposalStep == DisposalInv /\ [D!Next]_D!disposal => DisposalInv'
<1>. SUFFICES ASSUME DisposalInv, [D!Next]_D!disposal PROVE DisposalInv'
  OBVIOUS
<1>1. CASE D!Next
  BY <1>1, LookStep, AskingStep, ApprovalStep, ExecutionStep, RemovalStep, HoldStep, OutsideStep
  DEF D!Next
<1>2. CASE UNCHANGED D!disposal
  BY <1>2 DEF D!disposal, DisposalInv, D!TypeOK, Gone, Diligent, D!Active, Placed, D!Hold
<1>. QED
  BY <1>1, <1>2

(* Disposal: the invariant holds in every reachable state. *)
LEMMA DisposalAlways == D!Spec => []DisposalInv
BY DisposalInit, DisposalStep, PTL DEF D!Spec

(* executeDisposal looks for a hold after it has read the document: while  *)
(* it removes objects, no hold is active that was active when it was asked *)
(* for, whatever is placed, released and approved meanwhile and however    *)
(* many disposals run.                                                     *)
THEOREM HoldsProtect == D!Spec => []HoldProtects
<1>1. DisposalInv => HoldProtects
  BY DEF DisposalInv, Diligent, HoldProtects, D!HoldProtects, D!Deleting
<1>. QED
  BY <1>1, DisposalAlways, PTL

(* executeDisposal counts the objects it could not remove and writes       *)
(* DISPOSED only if there is none: of a document DISPOSED no version has   *)
(* its object left but those added meanwhile, whichever objects the        *)
(* versions name; and none is removed before the end of retention and an   *)
(* approval.                                                               *)
THEOREM DisposedIsGone == D!Spec => []DisposedMeansGone
<1>1. ASSUME DisposalInv PROVE DisposedMeansGone
  <2>1. \A h \in Handler : D!Deleting(h) => document.due /\ document.approved
    BY <1>1 DEF DisposalInv, Diligent, Executing, D!Deleting
  <2>. QED
    BY <1>1, <2>1 DEF DisposalInv, Gone, DisposedMeansGone, D!DisposedMeansGone
<1>. QED
  BY <1>1, DisposalAlways, PTL
-----------------------------------------------------------------------------
(* DocumentStore: uploads, versions and the security service.              *)
ClientType ==
  [pc: {"idle", "file", "wait", "insert", "create", "number", "count"},
   todo: SUBSET Doc, doc: SUBSET Doc, version: 0 .. MaxVersion + 1]

KeyedType ==
  [scan: {"none", "PENDING", "CLEAN", "INFECTED"}, signature: {"none", "hmac", "given"}, kek: Kek]

RowType == [from: {"none", "upload", "create"}, current: 0 .. MaxVersion]

(* What the security service has done for a document, as far as its job    *)
(* has come.                                                               *)
Kept(d) ==
  /\ job[d] \in {"clean", "put", "done"} => d \in scanned
  /\ job[d] \in {"put", "done"} => d \in files
  /\ job[d] = "put" => key.active \in key.configured
  /\ job[d] = "done" => keyed[d][1].signature # "none"
  /\ row[d].from = "upload" => job[d] = "done"
  /\ \A v \in S!Version : keyed[d][v].signature = "hmac" =>
       v = 1 /\ d \in scanned /\ keyed[d][v].kek \in key.configured

(* A request that makes documents has them to itself, and they are not     *)
(* there yet; one that makes a version has read current_version of a       *)
(* document that is.                                                       *)
Making == {"file", "wait", "insert", "create"}

Careful(c) ==
  /\ c.pc \in Making => \A d \in c.todo \cup c.doc : row[d].from = "none"
  /\ c.pc = "file" => \A d \in c.todo : job[d] = "none"
  /\ c.pc \in {"wait", "insert"} => \A d \in c.todo : job[d] = "none" /\ d \notin c.doc
  /\ c.pc = "insert" => \A d \in c.doc : job[d] = "done"
  /\ \A d, e \in c.doc : d = e
  /\ c.pc = "number" => \A d \in c.doc :
       row[d].from # "none" /\ c.version \in 2 .. row[d].current + 1
  /\ c.pc = "count" => \A d \in c.doc :
       /\ row[d].from # "none" /\ d \notin torn
       /\ c.version = row[d].current + 1 /\ c.version \in S!Version

Apart(c, o) ==
  /\ c.pc \in Making /\ o.pc \in Making => (c.todo \cup c.doc) \cap (o.todo \cup o.doc) = {}
  /\ c.pc = "count" /\ o.pc = "count" => c.doc \cap o.doc = {}

Numbered(d) ==
  /\ row[d].from = "none" => row[d].current = 0 /\ d \notin torn
  /\ row[d].from # "none" => row[d].current >= 1
  /\ numbers[d] = (IF row[d].from = "upload" THEN 1 ELSE 2) ..
                    (IF d \in torn \/ S!Counting(d) THEN row[d].current + 1 ELSE row[d].current)

StoreInv ==
  /\ S!TypeOK
  /\ \A d \in Doc : Kept(d)
  /\ \A h \in Handler : Careful(client[h])
  /\ \A g, h \in Handler : g # h => Apart(client[g], client[h])
  /\ \A d \in Doc : Numbered(d)

(* There is a first version. *)
LEMMA Small == 1 \in S!Version /\ MaxVersion \in Nat /\ MaxVersion >= 1
BY DocumentsAssumption DEF S!Version

(* What a request is that does nothing. *)
LEMMA IdleIs == S!Idle \in ClientType /\ S!Idle.pc = "idle" /\ S!Idle.doc = {} /\ S!Idle.todo = {}
                /\ S!Idle.version = 0
BY Small DEF S!Idle, ClientType

(* What an encryption record is that is not there. *)
LEMMA NoRecordIs ==
  /\ S!NoRecord \in KeyedType /\ S!NoRecord.signature = "none"
BY DocumentsAssumption DEF S!NoRecord, KeyedType

(* A request that does nothing has nothing to keep to. *)
LEMMA IdleCareful == Careful(S!Idle)
BY IdleIs DEF Careful, Making

(* Every initial state satisfies the invariant. *)
LEMMA StoreInit == S!Init => StoreInv
<1>. SUFFICES ASSUME S!Init PROVE StoreInv
  OBVIOUS
<1>1. row \in [Doc -> RowType] /\ \A d \in Doc : row[d].from = "none" /\ row[d].current = 0
  BY Small DEF S!Init, RowType
<1>2. /\ keyed \in [Doc -> [S!Version -> KeyedType]]
      /\ \A d \in Doc, v \in S!Version : keyed[d][v].signature = "none"
  BY NoRecordIs DEF S!Init
<1>3. client \in [Handler -> ClientType] /\ \A h \in Handler : client[h] = S!Idle
  BY IdleIs DEF S!Init
<1>4. numbers \in [Doc -> SUBSET S!Version] /\ \A d \in Doc : numbers[d] = {}
  BY DEF S!Init
<1>5. started \in 0 .. MaxCalls /\ key \in [configured: SUBSET Kek, active: Kek]
  BY DocumentsAssumption DEF S!Init
<1>6. /\ job \in [Doc -> {"none", "receive", "clean", "put", "undo", "done", "failed"}]
      /\ \A d \in Doc : job[d] = "none"
  BY DEF S!Init
<1>7. torn = {} /\ scanned = {} /\ calls = {} /\ files = {}
  BY DEF S!Init
<1>8. S!TypeOK
  BY <1>1, <1>2, <1>3, <1>4, <1>5, <1>6, <1>7 DEF S!TypeOK, ClientType, KeyedType, RowType
<1>9. \A d \in Doc : Kept(d)
  BY <1>1, <1>2, <1>6 DEF Kept
<1>10. \A d \in Doc : Numbered(d)
  <2>1. \A d \in Doc : ~S!Counting(d)
    BY <1>3, IdleIs DEF S!Counting
  <2>2. 2 .. 0 = {}
    OBVIOUS
  <2>. QED
    BY <1>1, <1>4, <1>7, <2>1, <2>2 DEF Numbered
<1>. QED
  BY <1>3, <1>8, <1>9, <1>10, IdleCareful, IdleIs DEF StoreInv, Apart, Making

-----------------------------------------------------------------------------
(* What the security service does leaves the requests as they are. *)
LEMMA SecurityStep ==
  ASSUME StoreInv, UNCHANGED <<row, numbers, torn, client, started>>,
         S!TypeOK', \A d \in Doc : Kept(d)',
         \A d \in Doc : job'[d] # job[d] => job[d] \notin {"none", "done"}
  PROVE  StoreInv'
<1>1. \A d \in Doc : S!Counting(d)' = S!Counting(d)
  BY DEF S!Counting
<1>2. \A d \in Doc : Numbered(d)'
  BY <1>1 DEF StoreInv, Numbered
<1>3. \A h \in Handler : client[h].todo \subseteq Doc /\ client[h].doc \subseteq Doc
  BY DEF StoreInv, S!TypeOK
<1>4. \A h \in Handler : Careful(client[h])'
  BY <1>3 DEF StoreInv, Careful
<1>5. \A g, h \in Handler : g # h => Apart(client[g], client[h])'
  BY DEF StoreInv, Apart
<1>. QED
  BY <1>2, <1>4, <1>5 DEF StoreInv

(* A job that goes from one step to the next. *)
LEMMA JobIs ==
  ASSUME StoreInv, NEW d \in Doc, NEW from, NEW to, S!Job(d, from, to),
         to \in {"receive", "clean", "put", "undo", "done", "failed"}
  PROVE  /\ job[d] = from
         /\ job' \in [Doc -> {"none", "receive", "clean", "put", "undo", "done", "failed"}]
         /\ \A e \in Doc : job'[e] = IF e = d THEN to ELSE job[e]
BY DEF StoreInv, S!TypeOK, S!Job

(* A file is found clean. *)
LEMMA ScanStep ==
  ASSUME StoreInv, NEW d \in Doc, S!ScanFile(d)
  PROVE  StoreInv'
<1>1. /\ job[d] = "receive"
      /\ job' \in [Doc -> {"none", "receive", "clean", "put", "undo", "done", "failed"}]
      /\ \A e \in Doc : job'[e] = IF e = d THEN "clean" ELSE job[e]
  BY JobIs DEF S!ScanFile
<1>2. /\ UNCHANGED <<row, numbers, torn, client, calls, started, keyed, files, key>>
      /\ scanned' = scanned \cup {d}
  BY DEF S!ScanFile, S!documents
<1>3. S!TypeOK'
  BY <1>1, <1>2 DEF StoreInv, S!TypeOK
<1>4. \A e \in Doc : Kept(e)'
  BY <1>1, <1>2 DEF StoreInv, Kept
<1>. QED
  BY <1>1, <1>2, <1>3, <1>4, SecurityStep

(* A file is encrypted and stored. *)
LEMMA PutStep ==
  ASSUME StoreInv, NEW d \in Doc, S!PutObject(d)
  PROVE  StoreInv'
<1>1. /\ job[d] = "clean"
      /\ job' \in [Doc -> {"none", "receive", "clean", "put", "undo", "done", "failed"}]
      /\ \A e \in Doc : job'[e] = IF e = d THEN "put" ELSE job[e]
  BY JobIs DEF S!PutObject
<1>2. /\ UNCHANGED <<row, numbers, torn, client, calls, started, keyed, scanned, key>>
      /\ files' = files \cup {d} /\ key.active \in key.configured
  BY DEF S!PutObject, S!documents
<1>3. S!TypeOK'
  BY <1>1, <1>2 DEF StoreInv, S!TypeOK
<1>4. \A e \in Doc : Kept(e)'
  BY <1>1, <1>2 DEF StoreInv, Kept
<1>. QED
  BY <1>1, <1>2, <1>3, <1>4, SecurityStep

(* A record of one version of one document that is written. *)
LEMMA KeyedIs ==
  ASSUME StoreInv, NEW d \in Doc, NEW v \in S!Version, NEW r \in KeyedType,
         keyed' = [keyed EXCEPT ![d][v] = r]
  PROVE  /\ keyed' \in [Doc -> [S!Version -> KeyedType]]
         /\ \A e \in Doc, w \in S!Version :
              keyed'[e][w] = IF e = d /\ w = v THEN r ELSE keyed[e][w]
<1>1. keyed \in [Doc -> [S!Version -> KeyedType]]
  BY DEF StoreInv, S!TypeOK, KeyedType
<1>2. keyed[d] \in [S!Version -> KeyedType]
  BY <1>1
<1>3. [keyed[d] EXCEPT ![v] = r] \in [S!Version -> KeyedType]
  BY <1>2
<1>. QED
  BY <1>1, <1>2, <1>3

(* The record of an upload is written; its answer may be lost. *)
LEMMA RecordCreated ==
  ASSUME StoreInv, NEW d \in Doc, NEW answered \in BOOLEAN, S!CreateRecord(d, answered)
  PROVE  StoreInv'
<1>. DEFINE to == IF answered THEN "done" ELSE "undo"
<1>1. /\ job[d] = "put"
      /\ job' \in [Doc -> {"none", "receive", "clean", "put", "undo", "done", "failed"}]
      /\ \A e \in Doc : job'[e] = IF e = d THEN to ELSE job[e]
  BY JobIs DEF S!CreateRecord
<1>2. /\ S!UploadRecord \in KeyedType /\ S!UploadRecord.signature = "hmac"
      /\ S!UploadRecord.kek = key.active
  BY DEF StoreInv, S!TypeOK, S!UploadRecord, KeyedType
<1>3. /\ keyed' \in [Doc -> [S!Version -> KeyedType]]
      /\ \A e \in Doc, w \in S!Version :
           keyed'[e][w] = IF e = d /\ w = 1 THEN S!UploadRecord ELSE keyed[e][w]
  BY <1>2, Small, KeyedIs DEF S!CreateRecord
<1>4. UNCHANGED <<row, numbers, torn, client, calls, started, files, scanned, key>>
  BY DEF S!CreateRecord, S!documents
<1>5. S!TypeOK'
  BY <1>1, <1>3, <1>4 DEF StoreInv, S!TypeOK, KeyedType
<1>6. ASSUME NEW e \in Doc PROVE Kept(e)'
  <2>1. CASE e = d
    BY <2>1, <1>1, <1>2, <1>3, <1>4, Small DEF StoreInv, Kept
  <2>2. CASE e # d
    BY <2>2, <1>1, <1>3, <1>4, Small DEF StoreInv, Kept
  <2>. QED
    BY <2>1, <2>2
<1>. QED
  BY <1>1, <1>4, <1>5, <1>6, SecurityStep

(* A job is refused or fails, and undoes what it stored. *)
LEMMA FailStep ==
  ASSUME StoreInv, NEW d \in Doc, S!FailJob(d)
  PROVE  StoreInv'
<1>1. PICK from \in {"receive", "clean", "put", "undo"}, to \in {"undo", "failed"} : S!Job(d, from, to)
  BY DEF S!FailJob
<1>2. /\ job[d] = from
      /\ job' \in [Doc -> {"none", "receive", "clean", "put", "undo", "done", "failed"}]
      /\ \A e \in Doc : job'[e] = IF e = d THEN to ELSE job[e]
  BY <1>1, JobIs
<1>3. /\ UNCHANGED <<row, numbers, torn, client, calls, started, keyed, scanned, key>>
      /\ files' \in {files, files \ {d}}
  BY DEF S!FailJob, S!documents, S!security
<1>4. S!TypeOK'
  BY <1>2, <1>3 DEF StoreInv, S!TypeOK
<1>5. \A e \in Doc : Kept(e)'
  BY <1>2, <1>3 DEF StoreInv, Kept
<1>. QED
  BY <1>2, <1>3, <1>4, <1>5, SecurityStep

(* The security service starts again, perhaps with another active key. *)
LEMMA RestartStep ==
  ASSUME StoreInv, S!RestartSecurity
  PROVE  StoreInv'
<1>1. PICK C \in SUBSET Kek, k \in Kek :
        key.configured \subseteq C /\ key' = [configured |-> C, active |-> k]
  BY DEF S!RestartSecurity
<1>2. key' \in [configured: SUBSET Kek, active: Kek] /\ key.configured \subseteq key'.configured
  BY <1>1
<1>3. /\ job' \in [Doc -> {"none", "receive", "clean", "put", "undo", "done", "failed"}]
      /\ \A d \in Doc : job'[d] = IF job[d] \in {"none", "done", "failed"} THEN job[d] ELSE "failed"
  BY DEF StoreInv, S!TypeOK, S!RestartSecurity, S!Running
<1>4. UNCHANGED <<row, numbers, torn, client, calls, started, keyed, files, scanned>>
  BY DEF S!RestartSecurity, S!documents
<1>5. S!TypeOK'
  BY <1>2, <1>3, <1>4 DEF StoreInv, S!TypeOK
<1>6. \A d \in Doc : Kept(d)'
  BY <1>2, <1>3, <1>4 DEF StoreInv, Kept
<1>. QED
  BY <1>3, <1>4, <1>5, <1>6, SecurityStep

(* A record that is overwritten without a signature of its own. *)
LEMMA RecordStep ==
  ASSUME StoreInv, NEW d \in Doc, NEW v \in S!Version, NEW r \in KeyedType,
         keyed' = [keyed EXCEPT ![d][v] = r],
         \/ r.signature = "given"
         \/ r.signature = keyed[d][v].signature /\ (r.signature = "hmac" => r.kek = keyed[d][v].kek),
         UNCHANGED <<row, numbers, torn, client, job, started, files, scanned, key>>,
         calls' \subseteq calls
  PROVE  StoreInv'
<1>1. /\ keyed' \in [Doc -> [S!Version -> KeyedType]]
      /\ \A e \in Doc, w \in S!Version :
           keyed'[e][w] = IF e = d /\ w = v THEN r ELSE keyed[e][w]
  BY KeyedIs
<1>2. S!TypeOK'
  BY <1>1 DEF StoreInv, S!TypeOK, KeyedType
<1>3. ASSUME NEW e \in Doc PROVE Kept(e)'
  <2>1. Kept(e)
    BY DEF StoreInv
  <2>2. \A w \in S!Version : keyed'[e][w].signature = "hmac" =>
          keyed[e][w].signature = "hmac" /\ keyed'[e][w].kek = keyed[e][w].kek
    BY <1>1
  <2>3. \A w \in S!Version : keyed[e][w].signature # "none" => keyed'[e][w].signature # "none"
    BY <1>1
  <2>. QED
    BY <2>1, <2>2, <2>3, Small DEF Kept
<1>. QED
  BY <1>2, <1>3, SecurityStep

(* updateScanResult and signDocument. *)
LEMMA ByHandStep ==
  ASSUME StoreInv, NEW d \in Doc, NEW v \in S!Version, S!UpdateScanResult(d, v) \/ S!SignDocument(d, v)
  PROVE  StoreInv'
<1>1. keyed[d][v] \in KeyedType
  BY DEF StoreInv, S!TypeOK, KeyedType
<1>2. UNCHANGED <<row, numbers, torn, client, job, calls, started, files, scanned, key>>
  BY DEF S!UpdateScanResult, S!SignDocument, S!documents
<1>3. CASE S!UpdateScanResult(d, v)
  <2>1. PICK s \in {"CLEAN", "INFECTED"} : keyed' = [keyed EXCEPT ![d][v].scan = s]
    BY <1>3 DEF S!UpdateScanResult
  <2>. DEFINE r == [keyed[d][v] EXCEPT !.scan = s]
  <2>2. r \in KeyedType /\ r.signature = keyed[d][v].signature /\ r.kek = keyed[d][v].kek
    BY <1>1 DEF KeyedType
  <2>3. keyed' = [keyed EXCEPT ![d][v] = r]
    BY <2>1 DEF StoreInv, S!TypeOK
  <2>. HIDE DEF r
  <2>. QED
    BY <1>2, <2>2, <2>3, RecordStep
<1>4. CASE S!SignDocument(d, v)
  <2>. DEFINE r == [keyed[d][v] EXCEPT !.signature = "given"]
  <2>1. r \in KeyedType /\ r.signature = "given"
    BY <1>1 DEF KeyedType
  <2>2. keyed' = [keyed EXCEPT ![d][v] = r]
    BY <1>4 DEF S!SignDocument, StoreInv, S!TypeOK
  <2>. HIDE DEF r
  <2>. QED
    BY <1>2, <2>1, <2>2, RecordStep
<1>. QED
  BY <1>3, <1>4

(* A call of processDocument is carried out or lost. *)
LEMMA CallStep ==
  ASSUME StoreInv, S!LoseCall \/ S!ProcessDocument
  PROVE  StoreInv'
<1>1. CASE S!LoseCall
  <2>1. UNCHANGED <<row, numbers, torn, client, job, started, keyed, files, scanned, key>>
        /\ calls' \subseteq calls
    BY <1>1 DEF S!LoseCall, S!documents, S!security
  <2>2. S!TypeOK'
    BY <2>1 DEF StoreInv, S!TypeOK
  <2>3. \A d \in Doc : Kept(d)'
    BY <2>1 DEF StoreInv, Kept
  <2>. QED
    BY <2>1, <2>2, <2>3, SecurityStep
<1>2. CASE S!ProcessDocument
  <2>. DEFINE r == [scan |-> "PENDING", signature |-> "none", kek |-> key.active]
  <2>1. PICK c \in calls :
          /\ keyed[c[1]][c[2]] = S!NoRecord
          /\ keyed' = [keyed EXCEPT ![c[1]][c[2]] = r]
          /\ calls' = calls \ {c}
    BY <1>2 DEF S!ProcessDocument
  <2>2. c[1] \in Doc /\ c[2] \in S!Version /\ key.active \in Kek
    BY DEF StoreInv, S!TypeOK
  <2>3. r \in KeyedType /\ r.signature = "none"
    BY <2>2 DEF KeyedType
  <2>4. UNCHANGED <<row, numbers, torn, client, job, started, files, scanned, key>>
    BY <1>2 DEF S!ProcessDocument, S!documents
  <2>. HIDE DEF r
  <2>. QED
    BY <2>1, <2>2, <2>3, <2>4, RecordStep, NoRecordIs
<1>. QED
  BY <1>1, <1>2

-----------------------------------------------------------------------------
(* What the requests are when one of them has changed. *)
LEMMA ClientIs ==
  ASSUME StoreInv, NEW h \in Handler, NEW c \in ClientType, S!Be(h, c)
  PROVE  /\ client' \in [Handler -> ClientType]
         /\ \A g \in Handler : client'[g] = IF g = h THEN c ELSE client[g]
BY DEF StoreInv, S!TypeOK, S!Be, ClientType

(* A request that goes on without writing, other than by sending a file. *)
LEMMA ClientStep ==
  ASSUME StoreInv, NEW h \in Handler, NEW c \in ClientType, S!Be(h, c), Careful(c),
         client[h].pc # "count", c.pc # "count",
         \A g \in Handler \ {h} : Apart(c, client[g]) /\ Apart(client[g], c),
         started' \in 0 .. MaxCalls,
         UNCHANGED <<row, numbers, torn, calls, job, keyed, files, scanned, key>>
  PROVE  StoreInv'
<1>1. /\ client' \in [Handler -> ClientType]
      /\ \A g \in Handler : client'[g] = IF g = h THEN c ELSE client[g]
  BY ClientIs
<1>2. \A d \in Doc : S!Counting(d)' = S!Counting(d)
  BY <1>1 DEF S!Counting
<1>3. \A d \in Doc : Numbered(d)'
  BY <1>2 DEF StoreInv, Numbered
<1>4. \A d \in Doc : Kept(d)'
  BY DEF StoreInv, Kept
<1>5. \A g \in Handler : Careful(client[g])'
  BY <1>1 DEF StoreInv, Careful
<1>6. \A g, k \in Handler : g # k => Apart(client[g], client[k])'
  BY <1>1 DEF StoreInv, Apart
<1>7. S!TypeOK'
  BY <1>1 DEF StoreInv, S!TypeOK, ClientType
<1>. QED
  BY <1>3, <1>4, <1>5, <1>6, <1>7 DEF StoreInv

(* A request that begins did nothing before. *)
LEMMA StartIs ==
  ASSUME StoreInv, NEW h \in Handler, NEW c \in ClientType, S!Begin(h, c)
  PROVE  started' \in 0 .. MaxCalls /\ S!Be(h, c) /\ client[h] = S!Idle /\ client[h].pc = "idle"
BY DocumentsAssumption, IdleIs DEF S!Begin, StoreInv, S!TypeOK

(* uploadDocument and createDocument begin, with documents nobody else     *)
(* has.                                                                    *)
LEMMA MakingStarts ==
  ASSUME StoreInv, NEW h \in Handler, S!Upload(h) \/ S!CreateDocument(h)
  PROVE  StoreInv'
<1>1. PICK c \in ClientType :
        /\ S!Begin(h, c) /\ c.pc \in {"file", "create"}
        /\ c.todo \cup c.doc \subseteq S!Unused
        /\ \A d, e \in c.doc : d = e
  <2>1. CASE S!Upload(h)
    <3>1. PICK ds \in SUBSET S!Unused : S!Begin(h, [S!Idle EXCEPT !.pc = "file", !.todo = ds])
      BY <2>1 DEF S!Upload
    <3>. DEFINE c == [S!Idle EXCEPT !.pc = "file", !.todo = ds]
    <3>2. ds \subseteq Doc
      BY DEF S!Unused
    <3>3. c \in ClientType /\ c.pc = "file" /\ c.todo = ds /\ c.doc = {}
      BY <3>2, IdleIs DEF ClientType
    <3>. QED
      BY <3>1, <3>3
  <2>2. CASE S!CreateDocument(h)
    <3>1. PICK d \in S!Unused : S!Begin(h, [S!Idle EXCEPT !.pc = "create", !.doc = {d}])
      BY <2>2 DEF S!CreateDocument
    <3>. DEFINE c == [S!Idle EXCEPT !.pc = "create", !.doc = {d}]
    <3>2. d \in Doc
      BY DEF S!Unused
    <3>3. c \in ClientType /\ c.pc = "create" /\ c.todo = {} /\ c.doc = {d}
      BY <3>2, IdleIs DEF ClientType
    <3>. QED
      BY <3>1, <3>3
  <2>. QED
    BY <2>1, <2>2
<1>2. Careful(c)
  BY <1>1 DEF Careful, Making, S!Unused
<1>3. \A g \in Handler : Apart(c, client[g]) /\ Apart(client[g], c)
  BY <1>1 DEF Apart, S!Unused
<1>4. started' \in 0 .. MaxCalls /\ S!Be(h, c) /\ client[h].pc = "idle"
  BY <1>1, StartIs
<1>5. UNCHANGED <<row, numbers, torn, calls, job, keyed, files, scanned, key>>
  BY DEF S!Upload, S!CreateDocument, S!documents, S!security
<1>. QED
  BY <1>1, <1>2, <1>3, <1>4, <1>5, ClientStep

(* createVersion reads the number of the next version. *)
LEMMA VersionStarts ==
  ASSUME StoreInv, NEW h \in Handler, S!CreateVersion(h)
  PROVE  StoreInv'
<1>1. PICK d \in Doc :
        /\ row[d].from # "none"
        /\ S!Begin(h, [S!Idle EXCEPT !.pc = "number", !.doc = {d}, !.version = row[d].current + 1])
  BY DEF S!CreateVersion
<1>. DEFINE c == [S!Idle EXCEPT !.pc = "number", !.doc = {d}, !.version = row[d].current + 1]
<1>2. row[d].current \in 0 .. MaxVersion /\ row[d].current >= 1
  BY <1>1 DEF StoreInv, S!TypeOK, Numbered
<1>3. row[d].current + 1 \in 0 .. MaxVersion + 1 /\ row[d].current + 1 \in 2 .. row[d].current + 1
  BY <1>2, Small
<1>4. c \in ClientType /\ c.pc = "number" /\ c.doc = {d} /\ c.version = row[d].current + 1
  BY <1>3, IdleIs DEF ClientType
<1>5. Careful(c)
  BY <1>1, <1>3, <1>4 DEF Careful, Making
<1>6. \A g \in Handler : Apart(c, client[g]) /\ Apart(client[g], c)
  BY <1>4 DEF Apart, Making
<1>7. started' \in 0 .. MaxCalls /\ S!Be(h, c) /\ client[h].pc = "idle"
  BY <1>1, <1>4, StartIs
<1>8. UNCHANGED <<row, numbers, torn, calls, job, keyed, files, scanned, key>>
  BY DEF S!CreateVersion, S!documents, S!security
<1>. HIDE DEF c
<1>. QED
  BY <1>4, <1>5, <1>6, <1>7, <1>8, ClientStep

(* The security service has answered. *)
LEMMA ProcessedStep ==
  ASSUME StoreInv, NEW h \in Handler, S!Processed(h)
  PROVE  StoreInv'
<1>. DEFINE c == [client[h] EXCEPT !.pc = "insert"]
<1>1. client[h] \in ClientType /\ Careful(client[h]) /\ client[h].pc = "wait"
  BY DEF StoreInv, S!TypeOK, ClientType, S!Processed
<1>2. c \in ClientType /\ c.pc = "insert" /\ c.todo = client[h].todo /\ c.doc = client[h].doc
  BY <1>1 DEF ClientType
<1>3. Careful(c)
  BY <1>1, <1>2 DEF Careful, Making, S!Processed
<1>4. \A g \in Handler \ {h} : Apart(c, client[g]) /\ Apart(client[g], c)
  BY <1>1, <1>2 DEF StoreInv, Apart, Making
<1>5. S!Be(h, c) /\ started' \in 0 .. MaxCalls
  BY DEF S!Processed, StoreInv, S!TypeOK
<1>6. UNCHANGED <<row, numbers, torn, calls, job, keyed, files, scanned, key>>
  BY DEF S!Processed, S!documents, S!security
<1>. HIDE DEF c
<1>. QED
  BY <1>1, <1>2, <1>3, <1>4, <1>5, <1>6, ClientStep

(* A file is sent to the security service. *)
LEMMA SendStep ==
  ASSUME StoreInv, NEW h \in Handler, S!SendFile(h)
  PROVE  StoreInv'
<1>1. client[h] \in ClientType /\ Careful(client[h]) /\ client[h].pc = "file"
  BY DEF StoreInv, S!TypeOK, ClientType, S!SendFile
<1>2. PICK d \in client[h].todo :
        /\ S!Be(h, [client[h] EXCEPT !.pc = "wait", !.todo = @ \ {d}, !.doc = {d}])
        /\ job' = [job EXCEPT ![d] = "receive"]
  BY DEF S!SendFile
<1>3. PICK c \in ClientType :
        /\ c.pc = "wait" /\ c.todo = client[h].todo \ {d} /\ c.doc = {d} /\ S!Be(h, c)
  <2>. DEFINE c == [client[h] EXCEPT !.pc = "wait", !.todo = @ \ {d}, !.doc = {d}]
  <2>1. c \in ClientType /\ c.pc = "wait" /\ c.todo = client[h].todo \ {d} /\ c.doc = {d}
    BY <1>1, <1>2 DEF ClientType
  <2>. QED
    BY <1>2, <2>1
<1>4. d \in Doc /\ job[d] = "none" /\ row[d].from = "none"
  BY <1>1, <1>2 DEF ClientType, Careful, Making
<1>5. /\ job' \in [Doc -> {"none", "receive", "clean", "put", "undo", "done", "failed"}]
      /\ \A e \in Doc : job'[e] = IF e = d THEN "receive" ELSE job[e]
  BY <1>2, <1>4 DEF StoreInv, S!TypeOK
<1>6. UNCHANGED <<row, numbers, torn, calls, started, keyed, files, scanned, key>>
  BY DEF S!SendFile, S!documents, S!security
<1>7. /\ client' \in [Handler -> ClientType]
      /\ \A g \in Handler : client'[g] = IF g = h THEN c ELSE client[g]
  BY <1>3, ClientIs
<1>8. \A e \in Doc : S!Counting(e)' = S!Counting(e)
  BY <1>1, <1>3, <1>7 DEF S!Counting
<1>9. \A e \in Doc : Numbered(e)'
  BY <1>6, <1>8 DEF StoreInv, Numbered
<1>10. \A e \in Doc : Kept(e)'
  BY <1>4, <1>5, <1>6 DEF StoreInv, Kept
<1>11. \A g \in Handler : Careful(client[g])'
  <2>1. Careful(c)'
    BY <1>1, <1>3, <1>4, <1>5, <1>6 DEF Careful, Making, ClientType
  <2>2. ASSUME NEW g \in Handler, g # h PROVE Careful(client[g])'
    <3>1. client'[g] = client[g] /\ Careful(client[g]) /\ client[g] \in ClientType
      BY <2>2, <1>7 DEF StoreInv, S!TypeOK, ClientType
    <3>2. client[g].pc \in Making => d \notin client[g].todo \cup client[g].doc
      BY <2>2, <1>1, <1>2 DEF StoreInv, Apart, Making
    <3>3. client[g].pc = "insert" => \A e \in client[g].doc : job'[e] = "done"
      BY <3>1, <3>2, <1>5 DEF Careful, Making, ClientType
    <3>4. client[g].pc \in {"file", "wait", "insert"} => \A e \in client[g].todo : job'[e] = "none"
      BY <3>1, <3>2, <1>5 DEF Careful, Making, ClientType
    <3>. QED
      BY <3>1, <3>3, <3>4, <1>6 DEF Careful
  <2>. QED
    BY <2>1, <2>2, <1>7
<1>12. \A g, k \in Handler : g # k => Apart(client[g], client[k])'
  BY <1>1, <1>2, <1>3, <1>7 DEF StoreInv, Apart, Making
<1>13. S!TypeOK'
  BY <1>5, <1>6, <1>7 DEF StoreInv, S!TypeOK, ClientType
<1>. QED
  BY <1>9, <1>10, <1>11, <1>12, <1>13 DEF StoreInv

(* A document that is made: its row is written by the request that has it. *)
LEMMA MadeStep ==
  ASSUME StoreInv, NEW h \in Handler, client[h].pc \in {"insert", "create"}, NEW d \in client[h].doc,
         NEW r \in RowType, r.from # "none", r.current = 1, row' = [row EXCEPT ![d] = r],
         r.from = "upload" => client[h].pc = "insert",
         numbers' = [numbers EXCEPT ![d] = IF r.from = "upload" THEN {1} ELSE {}],
         NEW c \in ClientType, S!Be(h, c),
         \/ c = S!Idle
         \/ /\ c.pc = "file" /\ c.todo = client[h].todo /\ c.doc = {}
            /\ client[h].pc = "insert",
         UNCHANGED <<torn, calls, started, job, keyed, files, scanned, key>>
  PROVE  StoreInv'
<1>1. /\ client' \in [Handler -> ClientType]
      /\ \A g \in Handler : client'[g] = IF g = h THEN c ELSE client[g]
  BY ClientIs
<1>2. /\ client[h] \in ClientType /\ Careful(client[h]) /\ d \in Doc /\ row[d].from = "none"
      /\ client[h].pc = "insert" => job[d] = "done" /\ d \notin client[h].todo
  BY DEF StoreInv, S!TypeOK, ClientType, Careful, Making
<1>3. row' \in [Doc -> RowType] /\ \A e \in Doc : row'[e] = IF e = d THEN r ELSE row[e]
  BY <1>2 DEF StoreInv, S!TypeOK, RowType
<1>4. /\ numbers' \in [Doc -> SUBSET S!Version]
      /\ \A e \in Doc : e # d => numbers'[e] = numbers[e]
      /\ numbers'[d] = IF r.from = "upload" THEN {1} ELSE {}
  BY <1>2, Small DEF StoreInv, S!TypeOK
<1>5. \A e \in Doc : S!Counting(e)' = S!Counting(e)
  BY <1>1, IdleIs DEF S!Counting
<1>6. ~S!Counting(d) /\ d \notin torn
  BY <1>2 DEF S!Counting, StoreInv, Careful, Numbered
<1>7. \A e \in Doc : Numbered(e)'
  <2>1. Numbered(d)'
    <3>1. 1 .. 1 = {1} /\ 2 .. 1 = {}
      OBVIOUS
    <3>2. row'[d] = r /\ ~S!Counting(d)' /\ torn' = torn
      BY <1>2, <1>3, <1>5, <1>6
    <3>3. numbers'[d] = (IF r.from = "upload" THEN 1 ELSE 2) .. r.current
      BY <3>1, <1>4
    <3>. QED
      BY <3>2, <3>3, <1>6 DEF Numbered
  <2>2. \A e \in Doc : e # d => Numbered(e)'
    BY <1>3, <1>4, <1>5 DEF StoreInv, Numbered
  <2>. QED
    BY <2>1, <2>2
<1>8. \A e \in Doc : Kept(e)'
  BY <1>2, <1>3 DEF StoreInv, Kept
<1>9. \A g \in Handler : Careful(client[g])'
  <2>1. Careful(c)'
    BY <1>2, <1>3, IdleCareful, IdleIs DEF Careful, Making, ClientType
  <2>2. ASSUME NEW g \in Handler, g # h PROVE Careful(client[g])'
    <3>1. client'[g] = client[g] /\ Careful(client[g]) /\ client[g] \in ClientType
      BY <2>2, <1>1 DEF StoreInv, S!TypeOK, ClientType
    <3>2. client[g].pc \in Making => d \notin client[g].todo \cup client[g].doc
      BY <2>2 DEF StoreInv, Apart, Making
    <3>3. client[g].pc \in {"number", "count"} => d \notin client[g].doc
      BY <3>1, <1>2 DEF Careful
    <3>4. client[g].pc \in Making => \A e \in client[g].todo \cup client[g].doc : row'[e].from = "none"
      BY <3>1, <3>2, <1>3 DEF Careful, ClientType
    <3>5. client[g].pc \in {"number", "count"} => \A e \in client[g].doc : row'[e] = row[e]
      BY <3>1, <3>3, <1>3 DEF ClientType
    <3>. QED
      BY <3>1, <3>4, <3>5 DEF Careful
  <2>. QED
    BY <2>1, <2>2, <1>1
<1>10. \A g, k \in Handler : g # k => Apart(client[g], client[k])'
  BY <1>1, IdleIs DEF StoreInv, Apart, Making
<1>11. S!TypeOK'
  BY <1>1, <1>3, <1>4 DEF StoreInv, S!TypeOK, ClientType, RowType
<1>. QED
  BY <1>7, <1>8, <1>9, <1>10, <1>11 DEF StoreInv

(* createUploadedDocument and createDocument write the document. *)
LEMMA InsertStep ==
  ASSUME StoreInv, NEW h \in Handler, S!InsertUploaded(h) \/ S!InsertDocument(h)
  PROVE  StoreInv'
<1>1. client[h] \in ClientType
  BY DEF StoreInv, S!TypeOK, ClientType
<1>2. \A s \in {"upload", "create"} :
        [from |-> s, current |-> 1] \in RowType /\ [from |-> s, current |-> 1].from = s
          /\ [from |-> s, current |-> 1].current = 1
  BY Small DEF RowType
<1>3. CASE S!InsertUploaded(h)
  <2>. DEFINE r == [from |-> "upload", current |-> 1]
              c == IF client[h].todo = {} THEN S!Idle ELSE [client[h] EXCEPT !.pc = "file", !.doc = {}]
  <2>1. PICK d \in client[h].doc :
          /\ row' = [row EXCEPT ![d] = r] /\ numbers' = [numbers EXCEPT ![d] = {1}] /\ S!Be(h, c)
    BY <1>3 DEF S!InsertUploaded
  <2>2. c \in ClientType
    BY <1>1, IdleIs DEF ClientType
  <2>3. c = S!Idle \/ (c.pc = "file" /\ c.todo = client[h].todo /\ c.doc = {})
    <3>1. CASE client[h].todo = {}
      BY <3>1
    <3>2. CASE client[h].todo # {}
      <4>. DEFINE q == [client[h] EXCEPT !.pc = "file", !.doc = {}]
      <4>1. q.pc = "file" /\ q.todo = client[h].todo /\ q.doc = {}
        BY <1>1 DEF ClientType
      <4>2. c = q
        BY <3>2
      <4>. QED
        BY <4>1, <4>2
    <3>. QED
      BY <3>1, <3>2
  <2>4. /\ client[h].pc = "insert"
        /\ UNCHANGED <<torn, calls, started, job, keyed, files, scanned, key>>
    BY <1>3 DEF S!InsertUploaded, S!security
  <2>5. r \in RowType /\ r.from = "upload" /\ r.current = 1
    BY <1>2
  <2>. HIDE DEF r, c
  <2>. QED
    BY <2>1, <2>2, <2>3, <2>4, <2>5, MadeStep
<1>4. CASE S!InsertDocument(h)
  <2>. DEFINE r == [from |-> "create", current |-> 1]
  <2>1. PICK d \in client[h].doc : row' = [row EXCEPT ![d] = r]
    BY <1>4 DEF S!InsertDocument
  <2>2. /\ client[h].pc = "create" /\ S!Be(h, S!Idle)
        /\ UNCHANGED <<torn, calls, started, job, keyed, files, scanned, key>>
    BY <1>4 DEF S!InsertDocument, S!security
  <2>3. r \in RowType /\ r.from = "create" /\ r.current = 1
    BY <1>2
  <2>4. d \in Doc /\ row[d].from = "none" /\ ~S!Counting(d) /\ d \notin torn /\ row[d].current = 0
    BY <1>1, <2>2 DEF StoreInv, Careful, Making, ClientType, Numbered, S!Counting
  <2>5. numbers[d] = {}
    <3>1. 2 .. 0 = {}
      OBVIOUS
    <3>. QED
      BY <2>4, <3>1 DEF StoreInv, Numbered
  <2>6. numbers' = [numbers EXCEPT ![d] = IF r.from = "upload" THEN {1} ELSE {}]
    <3>1. numbers = [numbers EXCEPT ![d] = {}]
      BY <2>4, <2>5 DEF StoreInv, S!TypeOK
    <3>. QED
      BY <3>1, <1>4, <2>3 DEF S!InsertDocument
  <2>. HIDE DEF r
  <2>. QED
    BY <2>1, <2>2, <2>3, <2>6, IdleIs, MadeStep
<1>. QED
  BY <1>3, <1>4

(* A request gives up; between its two statements it leaves a version that *)
(* is not counted.                                                         *)
LEMMA GiveUpStep ==
  ASSUME StoreInv, NEW h \in Handler, S!GiveUp(h)
  PROVE  StoreInv'
<1>1. /\ client' \in [Handler -> ClientType]
      /\ \A g \in Handler : client'[g] = IF g = h THEN S!Idle ELSE client[g]
  BY IdleIs, ClientIs DEF S!GiveUp
<1>2. /\ UNCHANGED <<row, numbers, calls, started, job, keyed, files, scanned, key>>
      /\ torn' = IF client[h].pc = "count" THEN torn \cup client[h].doc ELSE torn
  BY DEF S!GiveUp, S!security
<1>3. client[h] \in ClientType /\ Careful(client[h])
  BY DEF StoreInv, S!TypeOK, ClientType
<1>4. \A d \in Doc : (d \in torn \/ S!Counting(d)) <=> (d \in torn \/ S!Counting(d))'
  BY <1>1, <1>2, IdleIs DEF S!Counting
<1>5. ASSUME NEW d \in Doc PROVE Numbered(d)'
  <2>1. row[d].from = "none" => d \notin torn'
    BY <1>2, <1>3 DEF StoreInv, Numbered, Careful
  <2>. QED
    BY <2>1, <1>2, <1>4 DEF StoreInv, Numbered
<1>6. \A d \in Doc : Kept(d)'
  BY <1>2 DEF StoreInv, Kept
<1>7. \A g \in Handler : Careful(client[g])'
  <2>1. Careful(S!Idle)'
    BY IdleIs DEF Careful, Making
  <2>2. ASSUME NEW g \in Handler, g # h PROVE Careful(client[g])'
    <3>1. client'[g] = client[g] /\ Careful(client[g])
      BY <2>2, <1>1 DEF StoreInv
    <3>2. client[g].pc = "count" => \A d \in client[g].doc : d \notin torn'
      BY <2>2, <3>1, <1>2 DEF StoreInv, Apart, Careful
    <3>. QED
      BY <3>1, <3>2, <1>2 DEF Careful
  <2>. QED
    BY <2>1, <2>2, <1>1
<1>8. \A g, k \in Handler : g # k => Apart(client[g], client[k])'
  BY <1>1, IdleIs DEF StoreInv, Apart, Making
<1>9. S!TypeOK'
  BY <1>1, <1>2, <1>3 DEF StoreInv, S!TypeOK, ClientType
<1>. QED
  BY <1>5, <1>6, <1>7, <1>8, <1>9 DEF StoreInv

(* A number more is the next one. *)
LEMMA NextNumber ==
  ASSUME NEW b \in Nat, b >= 1
  PROVE  \A a \in {1, 2} : (a .. b) \cup {b + 1} = a .. b + 1
OBVIOUS

(* createVersion: a number that is not taken is the next one, and nobody   *)
(* else is between the two statements.                                     *)
LEMMA InsertVersionStep ==
  ASSUME StoreInv, NEW h \in Handler, S!InsertVersion(h)
  PROVE  StoreInv'
<1>1. client[h] \in ClientType /\ Careful(client[h]) /\ client[h].pc = "number"
  BY DEF StoreInv, S!TypeOK, ClientType, S!InsertVersion
<1>. DEFINE v == client[h].version
<1>2. PICK d \in client[h].doc : /\ v \in S!Version \ numbers[d]
                                 /\ numbers' = [numbers EXCEPT ![d] = @ \cup {v}]
  BY DEF S!InsertVersion
<1>3. PICK c \in ClientType : /\ c.pc = "count" /\ c.doc = client[h].doc /\ c.todo = client[h].todo
                              /\ c.version = v /\ S!Be(h, c)
  <2>. DEFINE c == [client[h] EXCEPT !.pc = "count"]
  <2>1. c \in ClientType /\ c.pc = "count" /\ c.doc = client[h].doc /\ c.todo = client[h].todo
        /\ c.version = v
    BY <1>1 DEF ClientType
  <2>. QED
    BY <2>1 DEF S!InsertVersion
<1>4. d \in Doc /\ row[d].from # "none" /\ v \in 2 .. row[d].current + 1
  BY <1>1, <1>2 DEF Careful, ClientType
<1>5. row[d].current \in Nat /\ row[d].current >= 1
  BY <1>4 DEF StoreInv, S!TypeOK, Numbered
<1>6. v = row[d].current + 1 /\ d \notin torn /\ ~S!Counting(d)
  BY <1>2, <1>4, <1>5 DEF StoreInv, Numbered
<1>7. client[h].doc = {d}
  BY <1>1, <1>2 DEF Careful
<1>8. UNCHANGED <<row, torn, calls, started, job, keyed, files, scanned, key>>
  BY DEF S!InsertVersion, S!security
<1>9. /\ client' \in [Handler -> ClientType]
      /\ \A g \in Handler : client'[g] = IF g = h THEN c ELSE client[g]
  BY <1>3, ClientIs
<1>10. /\ numbers' \in [Doc -> SUBSET S!Version]
       /\ \A e \in Doc : numbers'[e] = IF e = d THEN numbers[d] \cup {v} ELSE numbers[e]
  BY <1>2, <1>4 DEF StoreInv, S!TypeOK
<1>11. /\ S!Counting(d)'
       /\ \A e \in Doc : e # d => S!Counting(e)' = S!Counting(e)
  BY <1>1, <1>3, <1>7, <1>9 DEF S!Counting
<1>12. Numbered(d)'
  <2>1. numbers'[d] = (IF row[d].from = "upload" THEN 1 ELSE 2) .. row[d].current + 1
    <3>1. numbers[d] = (IF row[d].from = "upload" THEN 1 ELSE 2) .. row[d].current
      BY <1>4, <1>6 DEF StoreInv, Numbered
    <3>2. numbers'[d] = numbers[d] \cup {row[d].current + 1}
      BY <1>4, <1>6, <1>10
    <3>. QED
      BY <3>1, <3>2, <1>5, NextNumber
  <2>. QED
    BY <2>1, <1>4, <1>5, <1>8, <1>11 DEF Numbered
<1>13. \A e \in Doc : Numbered(e)'
  BY <1>8, <1>10, <1>11, <1>12 DEF StoreInv, Numbered
<1>14. \A e \in Doc : Kept(e)'
  BY <1>8 DEF StoreInv, Kept
<1>15. \A g \in Handler : Careful(client[g])'
  <2>1. Careful(c)'
    BY <1>2, <1>3, <1>4, <1>6, <1>7, <1>8 DEF Careful, Making
  <2>. QED
    BY <2>1, <1>8, <1>9 DEF StoreInv, Careful
<1>16. \A g, k \in Handler : g # k => Apart(client[g], client[k])'
  BY <1>3, <1>6, <1>7, <1>9 DEF StoreInv, Apart, Making, S!Counting
<1>17. S!TypeOK'
  BY <1>8, <1>9, <1>10 DEF StoreInv, S!TypeOK, ClientType
<1>. QED
  BY <1>13, <1>14, <1>15, <1>16, <1>17 DEF StoreInv

(* createVersion sets current_version. *)
LEMMA CountStep ==
  ASSUME StoreInv, NEW h \in Handler, S!SetCurrentVersion(h)
  PROVE  StoreInv'
<1>1. client[h] \in ClientType /\ Careful(client[h]) /\ client[h].pc = "count"
  BY DEF StoreInv, S!TypeOK, ClientType, S!SetCurrentVersion
<1>. DEFINE v == client[h].version
<1>2. PICK d \in client[h].doc : /\ row' = [row EXCEPT ![d].current = v]
                                 /\ calls' = calls \cup {<<d, v>>}
  BY DEF S!SetCurrentVersion
<1>3. /\ d \in Doc /\ row[d].from # "none" /\ d \notin torn /\ v = row[d].current + 1
      /\ v \in S!Version /\ client[h].doc = {d}
  BY <1>1, <1>2 DEF Careful, ClientType
<1>4. /\ row' \in [Doc -> RowType]
      /\ \A e \in Doc : e # d => row'[e] = row[e]
      /\ row'[d].from = row[d].from /\ row'[d].current = v
  <2>. DEFINE r == [row[d] EXCEPT !.current = v]
  <2>1. row \in [Doc -> RowType] /\ v \in 0 .. MaxVersion
    BY <1>3, Small DEF StoreInv, S!TypeOK, RowType, S!Version
  <2>2. r \in RowType /\ r.from = row[d].from /\ r.current = v
    BY <1>3, <2>1 DEF RowType
  <2>3. row' = [row EXCEPT ![d] = r]
    BY <1>2, <1>3, <2>1
  <2>. HIDE DEF r
  <2>. QED
    BY <1>3, <2>1, <2>2, <2>3
<1>5. UNCHANGED <<numbers, torn, started, job, keyed, files, scanned, key>> /\ S!Be(h, S!Idle)
  BY DEF S!SetCurrentVersion, S!security
<1>6. /\ client' \in [Handler -> ClientType]
      /\ \A g \in Handler : client'[g] = IF g = h THEN S!Idle ELSE client[g]
  BY <1>5, IdleIs, ClientIs
<1>7. \A g \in Handler : g # h /\ client[g].pc = "count" => d \notin client[g].doc
  BY <1>1, <1>3 DEF StoreInv, Apart
<1>8. /\ S!Counting(d) /\ ~S!Counting(d)'
      /\ \A e \in Doc : e # d => S!Counting(e)' = S!Counting(e)
  BY <1>1, <1>3, <1>6, <1>7, IdleIs DEF S!Counting
<1>9. row[d].current \in Nat /\ row[d].current >= 1
  BY <1>3 DEF StoreInv, S!TypeOK, Numbered
<1>10. Numbered(d)'
  BY <1>3, <1>4, <1>5, <1>8, <1>9 DEF StoreInv, Numbered
<1>11. \A e \in Doc : Numbered(e)'
  BY <1>4, <1>5, <1>8, <1>10 DEF StoreInv, Numbered
<1>12. \A e \in Doc : Kept(e)'
  BY <1>4, <1>5 DEF StoreInv, Kept
<1>13. \A g \in Handler : Careful(client[g])'
  <2>1. Careful(S!Idle)'
    BY IdleIs DEF Careful, Making
  <2>2. ASSUME NEW g \in Handler, g # h PROVE Careful(client[g])'
    <3>1. client'[g] = client[g] /\ Careful(client[g]) /\ client[g] \in ClientType
      BY <2>2, <1>6 DEF StoreInv, S!TypeOK, ClientType
    <3>2. client[g].pc \in Making => \A e \in client[g].todo \cup client[g].doc : row'[e].from = "none"
      BY <3>1, <1>4 DEF Careful, ClientType
    <3>3. client[g].pc = "number" => \A e \in client[g].doc :
            row'[e].from # "none" /\ client[g].version \in 2 .. row'[e].current + 1
      <4>1. client[g].version \in Nat
        BY <3>1, Small DEF ClientType
      <4>. QED
        BY <3>1, <4>1, <1>3, <1>4, <1>9 DEF Careful, ClientType
    <3>4. client[g].pc = "count" => \A e \in client[g].doc : row'[e] = row[e]
      BY <2>2, <3>1, <1>4, <1>7 DEF ClientType
    <3>. QED
      BY <3>1, <3>2, <3>3, <3>4, <1>5 DEF Careful
  <2>. QED
    BY <2>1, <2>2, <1>6
<1>14. \A g, k \in Handler : g # k => Apart(client[g], client[k])'
  BY <1>6, IdleIs DEF StoreInv, Apart, Making
<1>15. S!TypeOK'
  BY <1>2, <1>3, <1>4, <1>5, <1>6 DEF StoreInv, S!TypeOK, ClientType, RowType
<1>. QED
  BY <1>11, <1>12, <1>13, <1>14, <1>15 DEF StoreInv
-----------------------------------------------------------------------------
(* Every step keeps the invariant. *)
LEMMA StoreStep == StoreInv /\ [S!Next]_S!store => StoreInv'
<1>. SUFFICES ASSUME StoreInv, [S!Next]_S!store PROVE StoreInv'
  OBVIOUS
<1>1. CASE S!Next
  BY <1>1, MakingStarts, VersionStarts, ProcessedStep, SendStep, InsertStep, GiveUpStep,
     InsertVersionStep, CountStep, ScanStep, PutStep, RecordCreated, FailStep, RestartStep,
     ByHandStep, CallStep DEF S!Next
<1>2. CASE UNCHANGED S!store
  <2>1. UNCHANGED <<row, numbers, torn, client, started, job, keyed, files, scanned, key, calls>>
    BY <1>2 DEF S!store
  <2>2. S!TypeOK' /\ \A d \in Doc : Kept(d)'
    BY <2>1 DEF StoreInv, S!TypeOK, Kept
  <2>. QED
    BY <2>1, <2>2, SecurityStep
<1>. QED
  BY <1>1, <1>2

(* DocumentStore: the invariant holds in every reachable state. *)
LEMMA StoreAlways == S!Spec => []StoreInv
BY StoreInit, StoreStep, PTL DEF S!Spec

(* uploadDocument writes a document only after the security service has    *)
(* stored and recorded its file, which undoes nothing afterwards: the file *)
(* can be had again, whatever failed meanwhile and whichever keys became   *)
(* active, unless somebody replaced its signature.                         *)
THEOREM UploadsStayDecryptable == S!Spec => []UploadsDecryptable
<1>1. StoreInv => UploadsDecryptable
  <2>1. ASSUME StoreInv, NEW d \in Doc, row[d].from = "upload"
        PROVE  S!Decryptable(d, 1) \/ keyed[d][1].signature = "given"
    <3>1. Kept(d) /\ keyed[d][1].signature \in {"none", "hmac", "given"} /\ 1 \in S!Version
      BY <2>1, Small DEF StoreInv, S!TypeOK
    <3>. QED
      BY <2>1, <3>1 DEF Kept, S!Decryptable, S!Verified
  <2>. QED
    BY <2>1 DEF UploadsDecryptable, S!UploadsDecryptable
<1>. QED
  BY <1>1, StoreAlways, PTL

(* processUploadStream signs only what it scanned: no scan result or       *)
(* signature that is sent makes the service hand out a file that was never *)
(* found clean.                                                            *)
THEOREM ServedAreScanned == S!Spec => []ServedWereScanned
<1>1. StoreInv => ServedWereScanned
  BY DEF StoreInv, Kept, S!Decryptable, S!Verified, ServedWereScanned, S!ServedWereScanned
<1>. QED
  BY <1>1, StoreAlways, PTL

(* createVersion counts in two statements under a unique (document_id,     *)
(* version): versions are numbered without a gap up to current_version,    *)
(* with one more only between the statements or after a request stopped    *)
(* there.                                                                  *)
THEOREM NumbersStayUnbroken == S!Spec => []NumbersUnbroken
<1>1. StoreInv => NumbersUnbroken
  BY DEF StoreInv, Numbered, NumbersUnbroken, S!NumbersUnbroken
<1>. QED
  BY <1>1, StoreAlways, PTL
-----------------------------------------------------------------------------
(* Rows, calls, requests, keys and jobs are well typed in each of the four *)
(* parts: a request waits for a call exactly where its code awaits one,    *)
(* will write only a package that exists, and releases only a hold there   *)
(* is.                                                                     *)
THEOREM TypeCorrect ==
  /\ T!Spec => []T!TypeOK
  /\ R!Spec => []R!TypeOK
  /\ D!Spec => []D!TypeOK
  /\ S!Spec => []S!TypeOK
<1>1. /\ TablesInv => T!TypeOK
      /\ TransferInv => R!TypeOK
      /\ DisposalInv => D!TypeOK
      /\ StoreInv => S!TypeOK
  BY DEF TablesInv, TransferInv, DisposalInv, StoreInv
<1>. QED
  BY <1>1, TablesAlways, TransferAlways, DisposalAlways, StoreAlways, PTL
=============================================================================
