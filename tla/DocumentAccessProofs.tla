------------------------ MODULE DocumentAccessProofs ------------------------
(***************************************************************************)
(* Theorems about DocumentAccess, for any number of requests, users,       *)
(* tickets, sessions and pages.                                            *)
(***************************************************************************)
EXTENDS DocumentAccess, FiniteSetTheorems, TLAPS

Readings ==
  [pc: OnTicket \cup OnSession \cup {"askOpen", "prepare", "open"},
   user: User, on: Ticket \cup Session, want: 0 .. Pages,
   seen: 0 .. Pages, got: 0 .. Pages, held: SUBSET Action]

TicketRow == [open: {TRUE}, actor: User, used: BOOLEAN, expired: BOOLEAN]

SessionRow == [open: {TRUE}, actor: User, pages: 0 .. Pages,
               requests: Nat, revoked: BOOLEAN, expired: BOOLEAN]

Tables ==
  /\ may \subseteq User \X Action
  /\ ticket \in [Ticket -> {[open |-> FALSE]} \cup TicketRow]
  /\ session \in [Session -> {[open |-> FALSE]} \cup SessionRow]
  /\ preview \in [Session -> [open: BOOLEAN, pages: 0 .. Pages]]
  /\ served \in [Ticket \cup Session -> Nat]

(* The type invariant, part by part.                                       *)
LEMMA TypeParts ==
  TypeOK <=> /\ Tables
             /\ DOMAIN reader = Handler
             /\ \A h \in Handler : ReadingType(reader[h])
             /\ begun \in 0 .. MaxRequests
BY DEF TypeOK, Tables, TicketRow, SessionRow

(* What a request relies on: it was allowed what it is past asking for; a  *)
(* ticket or session it makes does not exist yet; a ticket it serves from  *)
(* is burnt, and has not been served from; and no page count it carries is *)
(* more than was rendered.                                                 *)
New(r) == r.pc \in {"askTicket", "issue", "askOpen", "prepare", "open"}

Sound(r) ==
  r # Done =>
    /\ Allowed(r.user, may) \subseteq r.held
    /\ r.pc \in {"burn", "fetch"} => "DOWNLOAD" \in r.held
    /\ r.pc \in {"mark", "count", "show"} => "PREVIEW" \in r.held
    /\ r.pc \in {"askTicket", "issue"} => ~ticket[r.on].open
    /\ r.pc = "fetch" => ticket[r.on].used /\ served[r.on] = 0
    /\ r.pc \in {"askOpen", "prepare", "open"} => ~session[r.on].open
    /\ r.pc = "open" => 1 <= r.got
    /\ r.pc \in {"open", "reread", "write"} => r.got <= preview[r.on].pages
    /\ r.pc = "write" => r.seen <= preview[r.on].pages

(* Nobody else works on what a request makes, or serves from its ticket.   *)
PairWith(h, r) ==
  \A g \in Handler : g # h /\ reader[g] # Done /\ r # Done /\ reader[g].on = r.on =>
    ~New(r) /\ ~New(reader[g]) /\ ~(r.pc = "fetch" /\ reader[g].pc = "fetch")

TicketOnce(t) ==
  IF ticket[t].open /\ ticket[t].used THEN served[t] \in {0, 1} ELSE served[t] = 0

Rendered(s) ==
  session[s].open => session[s].pages <= preview[s].pages /\ 1 <= preview[s].pages

(* A page that is counted is shown or about to be.                         *)
Showing(s) == {h \in Handler : reader[h].pc = "show" /\ reader[h].on = s}

Counted(s) ==
  IF session[s].open
  THEN /\ served[s] + Cardinality(Showing(s)) <= session[s].requests
       /\ session[s].requests <= PageLimit
  ELSE served[s] = 0

IInv ==
  /\ TypeOK
  /\ \A h \in Handler : Sound(reader[h]) /\ PairWith(h, reader[h])
  /\ \A t \in Ticket : TicketOnce(t)
  /\ \A s \in Session : Rendered(s) /\ Counted(s)
-----------------------------------------------------------------------------
(* The bounds are numbers, and sessions show at least one page.            *)
LEMMA Constant ==
  /\ Pages \in Nat /\ InitialPages \in Nat /\ ExtendPages \in Nat
  /\ 1 <= Pages /\ 1 <= InitialPages
  /\ PageLimit \in Nat /\ MaxRequests \in Nat
BY DocumentAssumption

(* A session row, and what changing its count leaves.                      *)
LEMMA SessionRowFacts ==
  ASSUME NEW x \in SessionRow
  PROVE  /\ x.open /\ x.pages \in 0 .. Pages /\ x.pages \in Nat /\ x.requests \in Nat
         /\ \A n \in Nat : /\ [x EXCEPT !.requests = n] \in SessionRow
                          /\ [x EXCEPT !.requests = n].pages = x.pages
                          /\ [x EXCEPT !.requests = n].requests = n
<1>1. x.pages \in 0 .. Pages /\ x.requests \in Nat
  BY DEF SessionRow
<1>2. x.open \in {TRUE}
  BY DEF SessionRow
<1>3. x.pages \in Nat
  BY <1>1, Constant
<1>4. ASSUME NEW n \in Nat
      PROVE  /\ [x EXCEPT !.requests = n] \in SessionRow
             /\ [x EXCEPT !.requests = n].pages = x.pages
             /\ [x EXCEPT !.requests = n].requests = n
  BY DEF SessionRow
<1>5. x.open
  BY <1>2, Zenon
<1>. QED
  BY <1>1, <1>3, <1>4, <1>5

(* A preview that is dropped keeps its count of pages.                     *)
LEMMA ViewFacts ==
  ASSUME NEW x \in [open: BOOLEAN, pages: 0 .. Pages]
  PROVE  /\ x.pages \in 0 .. Pages /\ x.pages \in Nat /\ x.pages <= x.pages
         /\ [x EXCEPT !.open = FALSE] \in [open: BOOLEAN, pages: 0 .. Pages]
         /\ [x EXCEPT !.open = FALSE].pages = x.pages
<1>1. x.pages \in 0 .. Pages
  OBVIOUS
<1>2. x.pages \in Nat /\ x.pages <= x.pages
  BY <1>1, Constant
<1>3. /\ [x EXCEPT !.open = FALSE] \in [open: BOOLEAN, pages: 0 .. Pages]
      /\ [x EXCEPT !.open = FALSE].pages = x.pages
  OBVIOUS
<1>. QED
  BY <1>1, <1>2, <1>3

(* A request that is not done holds a reading.                             *)
LEMMA ReadingFacts ==
  ASSUME TypeOK, NEW h \in Handler, reader[h].pc # "done"
  PROVE  reader[h] \in Readings /\ reader[h] # Done /\ ReadingType(reader[h])
BY DEF TypeOK, ReadingType, Readings, Done

(* The rows of the tables have their types.                                *)
LEMMA RowFacts ==
  ASSUME TypeOK
  PROVE  /\ \A t \in Ticket : ticket[t].open => ticket[t] \in TicketRow
         /\ \A s \in Session : session[s].open => session[s] \in SessionRow
         /\ \A s \in Session : preview[s] \in [open: BOOLEAN, pages: 0 .. Pages]
         /\ \A s \in Session : served[s] \in Nat
         /\ \A t \in Ticket : served[t] \in Nat
<1>1. Tables
  BY TypeParts
<1>2. ~[open |-> FALSE].open
  OBVIOUS
<1>3. \A t \in Ticket : ticket[t] = [open |-> FALSE] \/ ticket[t] \in TicketRow
  BY <1>1 DEF Tables
<1>4. \A s \in Session : session[s] = [open |-> FALSE] \/ session[s] \in SessionRow
  BY <1>1 DEF Tables
<1>5. \A t \in Ticket : ticket[t].open => ticket[t] \in TicketRow
  BY <1>2, <1>3
<1>6. \A s \in Session : session[s].open => session[s] \in SessionRow
  BY <1>2, <1>4
<1>. QED
  BY <1>1, <1>5, <1>6 DEF Tables

(* A request that is done promises nothing.                                *)
LEMMA DoneFacts ==
  /\ Done.pc = "done" /\ ReadingType(Done) /\ Sound(Done) /\ ~New(Done)
  /\ \A h : PairWith(h, Done)
  /\ \A r \in Readings : r # Done
BY DEF Done, ReadingType, Sound, New, PairWith, Readings, OnTicket, OnSession

(* Finitely many requests show pages of a session.                         *)
LEMMA ShowingFinite ==
  ASSUME TypeOK, NEW s
  PROVE  IsFiniteSet(Showing(s)) /\ Cardinality(Showing(s)) \in Nat
<1>1. Showing(s) \subseteq Handler
  BY DEF Showing
<1>. QED
  BY <1>1, FS_Subset, FS_CardinalityType, DocumentAssumption

(* The invariant holds at the start.                                       *)
LEMMA InvInit == Init => IInv
<1>. SUFFICES ASSUME Init PROVE IInv
  OBVIOUS
<1>1. Tables
  BY Constant DEF Init, Tables
<1>2. TypeOK
  BY <1>1, Constant, DoneFacts, TypeParts DEF Init
<1>3. \A h \in Handler : Sound(reader[h]) /\ PairWith(h, reader[h])
  BY DoneFacts DEF Init
<1>4. \A t \in Ticket : TicketOnce(t)
  BY DEF Init, TicketOnce
<1>5. \A s \in Session : Rendered(s) /\ Counted(s)
  BY DEF Init, Rendered, Counted
<1>. QED
  BY <1>2, <1>3, <1>4, <1>5 DEF IInv
-----------------------------------------------------------------------------
(* A step of request h to r, whatever it does to the tables. *)
LEMMA StepInv ==
  ASSUME IInv, NEW h \in Handler, NEW r, Become(h, r), Tables', begun' \in 0 .. MaxRequests,
         ReadingType(r)', Sound(r)', PairWith(h, r),
         \A g \in Handler : g # h => ReadingType(reader[g])' /\ Sound(reader[g])',
         \A t \in Ticket : TicketOnce(t)',
         \A s \in Session : Rendered(s)' /\ Counted(s)'
  PROVE  IInv'
<1>1. DOMAIN reader = Handler
  BY DEF IInv, TypeOK
<1>2. /\ DOMAIN reader' = Handler
      /\ \A g \in Handler : reader'[g] = IF g = h THEN r ELSE reader[g]
  BY <1>1 DEF Become
<1>3. \A g \in Handler : ReadingType(reader[g])' /\ Sound(reader[g])'
  BY <1>2 DEF ReadingType, Sound
<1>4. TypeOK'
  BY <1>2, <1>3, TypeParts DEF TypeOK, Tables, TicketRow, SessionRow
<1>5. ASSUME NEW g \in Handler PROVE PairWith(g, reader[g])'
  <2>1. CASE g = h
    BY <2>1, <1>2 DEF PairWith, New
  <2>2. CASE g # h
    <3>1. PairWith(g, reader[g]) /\ reader'[g] = reader[g]
      BY <2>2, <1>2 DEF IInv
    <3>2. ASSUME NEW k \in Handler, k # g, reader'[k] # Done, reader[g] # Done,
                 reader'[k].on = reader[g].on
          PROVE  ~New(reader[g]) /\ ~New(reader'[k]) /\ ~(reader[g].pc = "fetch" /\ reader'[k].pc = "fetch")
      <4>1. CASE k = h
        BY <4>1, <3>2, <2>2, <1>2 DEF PairWith, New
      <4>2. CASE k # h
        BY <4>2, <3>1, <3>2, <1>2 DEF PairWith, New
      <4>. QED
        BY <4>1, <4>2
    <3>. QED
      BY <3>1, <3>2 DEF PairWith, New
  <2>. QED
    BY <2>1, <2>2
<1>. QED
  BY <1>3, <1>4, <1>5 DEF IInv

(* The tables stay: of a request that goes on, only what it relies on and  *)
(* whom it meets has to be shown.                                          *)
LEMMA ShownStay ==
  ASSUME IInv, NEW h \in Handler, NEW r, Become(h, r), r.pc # "show",
         \A s \in Session :
           /\ session'[s].open <=> session[s].open
           /\ session[s].open => session'[s].requests = session[s].requests
           /\ served'[s] = served[s]
  PROVE  \A s \in Session : Counted(s)'
<1>. TAKE s \in Session
<1>1. Showing(s)' \subseteq Showing(s)
  BY DEF Showing, Become, IInv, TypeOK
<1>2. Cardinality(Showing(s)') <= Cardinality(Showing(s)) /\ Cardinality(Showing(s)') \in Nat
  BY <1>1, ShowingFinite, FS_Subset, FS_CardinalityType DEF IInv
<1>3. session[s].open => session[s].requests \in Nat /\ served[s] \in Nat
  BY RowFacts DEF IInv, SessionRow
<1>4. Counted(s) /\ Cardinality(Showing(s)) \in Nat
  BY ShowingFinite DEF IInv
<1>. QED
  BY <1>2, <1>3, <1>4 DEF Counted

(* A request that reads and keeps what it has read.                        *)
LEMMA ReadStep ==
  ASSUME IInv, NEW h \in Handler, NEW r, Become(h, r), r.pc # "show",
         UNCHANGED <<may, ticket, session, preview, served>>, begun' \in 0 .. MaxRequests,
         ReadingType(r), Sound(r), PairWith(h, r)
  PROVE  IInv'
<1>1. Tables'
  BY TypeParts DEF IInv, Tables
<1>2. ReadingType(r)' /\ Sound(r)'
  BY DEF ReadingType, Sound
<1>3. ASSUME NEW g \in Handler, g # h PROVE ReadingType(reader[g])' /\ Sound(reader[g])'
  <2>1. reader'[g] = reader[g] /\ ReadingType(reader[g]) /\ Sound(reader[g])
    BY <1>3 DEF IInv, TypeOK, Become
  <2>. QED
    BY <2>1 DEF ReadingType, Sound
<1>4. \A t \in Ticket : TicketOnce(t)'
  BY DEF IInv, TicketOnce
<1>5. \A s \in Session : Rendered(s)' /\ Counted(s)'
  BY ShownStay DEF IInv, Rendered
<1>. QED
  BY <1>1, <1>2, <1>3, <1>4, <1>5, StepInv

(* A request that goes on with the same ticket or session. *)
LEMMA SamePair ==
  ASSUME IInv, NEW h \in Handler, reader[h].pc # "done", NEW r, r.on = reader[h].on,
         New(r) => New(reader[h]), r.pc # "fetch"
  PROVE  PairWith(h, r)
<1>1. PairWith(h, reader[h]) /\ reader[h] # Done
  BY ReadingFacts DEF IInv
<1>. QED
  BY <1>1 DEF PairWith

(* A request that begins. *)
Beginning(pc, x) ==
  \/ pc = "askTicket" /\ x \in Ticket /\ ~ticket[x].open /\ Fresh(x)
  \/ pc = "redeem" /\ x \in Ticket /\ ticket[x].open
  \/ pc = "askOpen" /\ x \in Session /\ ~session[x].open /\ Fresh(x)
  \/ pc \in {"page", "more", "end"} /\ x \in Session /\ session[x].open

(* A request that arrives.                                                 *)
LEMMA BeginStep ==
  ASSUME IInv, NEW h \in Handler, NEW pc, NEW u \in User, NEW x, NEW n \in 0 .. Pages,
         Beginning(pc, x),
         Begin(h, Reading(pc, u, x, n))
  PROVE  IInv'
<1>1. PICK r : r = Reading(pc, u, x, n)
  OBVIOUS
<1>2. /\ r \in Readings /\ r.pc = pc /\ r.user = u /\ r.on = x
      /\ r.held = Allowed(u, may)
  BY <1>1, Constant DEF Beginning, Reading, Readings, OnTicket, OnSession, Allowed
<1>3. ReadingType(r)
  BY <1>2 DEF Beginning, ReadingType, Readings, OnTicket, OnSession
<1>4. Sound(r)
  BY <1>2 DEF Beginning, Sound
<1>5. PairWith(h, r)
  <2>1. ASSUME NEW g \in Handler, reader[g] # Done, New(reader[g]), reader[g].on = x
        PROVE  FALSE
    <3>1. /\ reader[g].pc \in {"askTicket", "issue"} => reader[g].on \in Ticket /\ ~ticket[x].open
          /\ reader[g].pc \in {"askOpen", "prepare", "open"} =>
               reader[g].on \in Session /\ ~session[x].open
      BY <2>1 DEF IInv, TypeOK, Sound, ReadingType, OnTicket
    <3>2. ~Fresh(x)
      BY <2>1 DEF Fresh, Active
    <3>. QED
      BY <2>1, <3>1, <3>2, DocumentAssumption DEF Beginning, New
  <2>2. New(r) => Fresh(x)
    BY <1>2 DEF Beginning, New
  <2>3. r.pc # "fetch"
    BY <1>2 DEF Beginning
  <2>. QED
    BY <1>2, <2>1, <2>2, <2>3 DEF PairWith, Fresh, Active
<1>6. begun' \in 0 .. MaxRequests
  BY Constant DEF Begin, IInv, TypeOK
<1>. QED
  BY <1>1, <1>2, <1>3, <1>4, <1>5, <1>6, ReadStep DEF Beginning, Begin, Become

(* The requests that arrive, kind by kind.                                 *)
LEMMA Beginnings ==
  ASSUME IInv, NEW h \in Handler,
         CreateTicket(h) \/ Redeem(h) \/ OpenPreview(h) \/ UseSession(h)
  PROVE  IInv'
<1>0. 0 \in 0 .. Pages /\ 1 .. Pages \subseteq 0 .. Pages
  BY Constant
<1>1. CASE CreateTicket(h)
  <2>1. PICK u \in User, t \in Ticket :
          ~ticket[t].open /\ Fresh(t) /\ Begin(h, Reading("askTicket", u, t, 0))
    BY <1>1 DEF CreateTicket
  <2>2. Beginning("askTicket", t)
    BY <2>1 DEF Beginning
  <2>. QED
    BY <1>0, <2>1, <2>2, BeginStep
<1>2. CASE Redeem(h)
  <2>1. PICK u \in User, t \in Ticket :
          ticket[t].open /\ Begin(h, Reading("redeem", u, t, 0))
    BY <1>2 DEF Redeem
  <2>2. Beginning("redeem", t)
    BY <2>1 DEF Beginning
  <2>. QED
    BY <1>0, <2>1, <2>2, BeginStep
<1>3. CASE OpenPreview(h)
  <2>1. PICK u \in User, s \in Session :
          preview[s].pages = 0 /\ Fresh(s) /\ Begin(h, Reading("askOpen", u, s, 0))
    BY <1>3 DEF OpenPreview
  <2>2. ~session[s].open
    BY <2>1 DEF IInv, Rendered
  <2>3. Beginning("askOpen", s)
    BY <2>1, <2>2 DEF Beginning
  <2>. QED
    BY <1>0, <2>1, <2>3, BeginStep
<1>4. CASE UseSession(h)
  <2>1. PICK u \in User, s \in Session, pc \in {"page", "more", "end"}, n \in 1 .. Pages :
          session[s].open /\ Begin(h, Reading(pc, u, s, n))
    BY <1>4 DEF UseSession
  <2>2. Beginning(pc, s) /\ n \in 0 .. Pages
    BY <1>0, <2>1 DEF Beginning
  <2>. QED
    BY <2>1, <2>2, BeginStep
<1>. QED
  BY <1>1, <1>2, <1>3, <1>4

(* A request that is cut short.                                            *)
LEMMA StopStep == ASSUME IInv, NEW h \in Handler, Stop(h) PROVE IInv'
<1>1. begun' \in 0 .. MaxRequests
  BY DEF Stop, IInv, TypeOK
<1>. QED
  BY <1>1, ReadStep, DoneFacts DEF Stop

(* A request that goes from one step to the next and may note what it read. *)
LEMMA GoesOn ==
  ASSUME IInv, NEW h \in Handler, reader[h].pc # "done",
         NEW pc \in OnTicket \cup OnSession \cup {"askOpen", "prepare", "open"},
         NEW seen \in 0 .. Pages,
         NEW r, r = [reader[h] EXCEPT !.pc = pc, !.seen = seen],
         Become(h, r), pc \notin {"show", "fetch"},
         pc \in OnTicket <=> reader[h].pc \in OnTicket,
         pc \in {"redeem", "askRedeem", "burn"} <=> reader[h].pc \in {"redeem", "askRedeem"},
         pc \in OnSession <=> reader[h].pc \in OnSession,
         New(r) <=> New(reader[h]),
         pc = "burn" => "DOWNLOAD" \in reader[h].held,
         pc = "mark" => "PREVIEW" \in reader[h].held,
         pc = "count" => reader[h].pc = "mark",
         pc = "reread" => reader[h].pc = "reread",
         pc # "open",
         pc = "write" => reader[h].pc = "reread" /\ seen <= preview[reader[h].on].pages,
         UNCHANGED <<may, ticket, session, preview, begun, served>>
  PROVE  IInv'
<1>1. reader[h] \in Readings /\ reader[h] # Done /\ ReadingType(reader[h]) /\ Sound(reader[h])
  BY ReadingFacts DEF IInv
<1>2. /\ r \in Readings /\ r.pc = pc /\ r.seen = seen /\ r.on = reader[h].on
      /\ r.user = reader[h].user /\ r.got = reader[h].got /\ r.held = reader[h].held
  BY <1>1 DEF Readings
<1>3. ReadingType(r)
  BY <1>1, <1>2 DEF ReadingType, Readings, Done, OnTicket, OnSession
<1>4. Sound(r)
  BY <1>1, <1>2 DEF Sound, New, OnTicket, OnSession
<1>5. PairWith(h, r)
  BY <1>2, SamePair
<1>6. begun' \in 0 .. MaxRequests
  BY DEF IInv, TypeOK
<1>. QED
  BY <1>2, <1>3, <1>4, <1>5, <1>6, ReadStep

(* The steps that read a row or ask whether the user may.                  *)
LEMMA ReadSteps ==
  ASSUME IInv, NEW h \in Handler,
         Ask(h) \/ ReadTicket(h) \/ ReadSession(h) \/ ReadForPage(h) \/ ExtendPreview(h) \/ ReadForCount(h)
  PROVE  IInv'
<1>1. reader[h].pc # "done"
  BY DEF Ask, ReadTicket, ReadSession, ReadForPage, ExtendPreview, ReadForCount, Active, Then, Done
<1>2. reader[h] \in Readings /\ ReadingType(reader[h]) /\ Sound(reader[h]) /\ reader[h] # Done
  BY <1>1, ReadingFacts DEF IInv
<1>3. reader[h].seen \in 0 .. Pages /\ reader[h] = [reader[h] EXCEPT !.seen = reader[h].seen]
  BY <1>2 DEF Readings
<1>4. CASE Ask(h)
  <2>. DEFINE pc == Then[reader[h].pc]
  <2>1. PICK r : r = [reader[h] EXCEPT !.pc = pc, !.seen = reader[h].seen]
    OBVIOUS
  <2>2. Become(h, r)
    BY <1>2, <1>4, <2>1 DEF Ask, To, Readings
  <2>3. Needs(reader[h].pc) \in reader[h].held
    BY <1>2, <1>4 DEF Ask, Sound, Allowed, Needs, Action
  <2>4. \/ reader[h].pc = "askTicket" /\ pc = "issue"
        \/ reader[h].pc = "askRedeem" /\ pc = "burn" /\ "DOWNLOAD" \in reader[h].held
        \/ reader[h].pc = "askOpen" /\ pc = "prepare"
        \/ reader[h].pc = "askPage" /\ pc = "mark" /\ "PREVIEW" \in reader[h].held
        \/ reader[h].pc = "askExtend" /\ pc = "extend"
    BY <1>4, <2>3 DEF Ask, Then, Needs
  <2>5. r.pc = pc
    BY <1>2, <2>1 DEF Readings
  <2>. QED
    BY <1>1, <1>3, <1>4, <2>1, <2>2, <2>4, <2>5, GoesOn DEF Ask, OnTicket, OnSession, New
<1>5. CASE ReadTicket(h)
  <2>1. PICK r : r = [reader[h] EXCEPT !.pc = "askRedeem", !.seen = reader[h].seen]
    OBVIOUS
  <2>2. Become(h, r) /\ r.pc = "askRedeem"
    BY <1>2, <1>5, <2>1 DEF ReadTicket, To, Readings
  <2>. QED
    BY <1>1, <1>3, <1>5, <2>1, <2>2, GoesOn DEF ReadTicket, OnTicket, OnSession, New
<1>6. CASE ReadSession(h)
  <2>1. /\ reader[h].pc \in {"page", "more", "end"} /\ reader[h].on \in Session
        /\ session[reader[h].on].open
    BY <1>2, <1>6 DEF ReadSession, ReadingType, OnTicket, OnSession
  <2>2. session[reader[h].on].pages \in 0 .. Pages
    BY <2>1, RowFacts DEF IInv, SessionRow
  <2>3. PICK pc \in {"askPage", "askExtend", "revoke"} :
          Become(h, [reader[h] EXCEPT !.pc = pc, !.seen = session[reader[h].on].pages])
    BY <1>6 DEF ReadSession
  <2>4. PICK r : r = [reader[h] EXCEPT !.pc = pc, !.seen = session[reader[h].on].pages]
    OBVIOUS
  <2>5. r.pc = pc
    BY <1>2, <2>4 DEF Readings
  <2>6. UNCHANGED <<may, ticket, session, preview, begun, served>>
    BY <1>6 DEF ReadSession
  <2>7. /\ reader[h].pc \notin OnTicket /\ pc \notin OnTicket
        /\ reader[h].pc \in OnSession /\ pc \in OnSession
        /\ New(r) <=> New(reader[h])
    BY <2>1, <2>5 DEF OnTicket, OnSession, New
  <2>8. Become(h, r)
    BY <2>3, <2>4
  <2>. QED
    BY <1>1, <2>1, <2>2, <2>4, <2>5, <2>6, <2>7, <2>8, GoesOn
<1>7. CASE ReadForPage(h) \/ ExtendPreview(h)
  <2>1. PICK pc \in {"count", "render"} :
          /\ Become(h, [reader[h] EXCEPT !.pc = pc])
          /\ reader[h].pc \in {"mark", "extend"}
          /\ pc = "count" => reader[h].pc = "mark"
    BY <1>7 DEF ReadForPage, ExtendPreview, To
  <2>2. PICK r : r = [reader[h] EXCEPT !.pc = pc, !.seen = reader[h].seen]
    OBVIOUS
  <2>3. Become(h, r) /\ r.pc = pc
    BY <1>2, <2>1, <2>2 DEF Readings
  <2>. QED
    BY <1>1, <1>3, <1>7, <2>1, <2>2, <2>3, GoesOn
    DEF ReadForPage, ExtendPreview, OnTicket, OnSession, New
<1>8. CASE ReadForCount(h)
  <2>. DEFINE n == session[reader[h].on].pages
  <2>1. /\ reader[h].pc = "reread" /\ reader[h].on \in Session
        /\ session[reader[h].on].open
    BY <1>2, <1>8 DEF ReadForCount, ReadingType, OnTicket, OnSession
  <2>2. n \in 0 .. Pages /\ n <= preview[reader[h].on].pages
    BY <2>1, RowFacts DEF IInv, SessionRow, Rendered
  <2>3. PICK r : r = [reader[h] EXCEPT !.pc = "write", !.seen = n]
    OBVIOUS
  <2>4. Become(h, r) /\ r.pc = "write"
    BY <1>2, <1>8, <2>3 DEF ReadForCount, Readings
  <2>5. UNCHANGED <<may, ticket, session, preview, begun, served>>
    BY <1>8 DEF ReadForCount
  <2>6. /\ reader[h].pc \notin OnTicket /\ "write" \notin OnTicket
        /\ reader[h].pc \in OnSession /\ "write" \in OnSession
        /\ New(r) <=> New(reader[h])
    BY <2>1, <2>4 DEF OnTicket, OnSession, New
  <2>. QED
    BY <1>1, <2>1, <2>2, <2>3, <2>4, <2>5, <2>6, GoesOn
<1>. QED
  BY <1>4, <1>5, <1>6, <1>7, <1>8
-----------------------------------------------------------------------------
(* What a step must leave alone for a request x that does not take it.     *)
Kept(x) ==
  /\ x.on \in Ticket =>
       /\ ticket[x.on].open => ticket'[x.on].open
       /\ ticket[x.on].open /\ ticket[x.on].used => ticket'[x.on].used
       /\ New(x) => ticket'[x.on] = ticket[x.on]
  /\ x.pc = "fetch" => served'[x.on] = served[x.on]
  /\ x.on \in Session =>
       /\ session[x.on].open => session'[x.on].open
       /\ New(x) => session'[x.on] = session[x.on]
       /\ preview[x.on].pages <= preview'[x.on].pages

(* What a request knows of the tables survives their change.               *)
LEMMA KeptSound ==
  ASSUME IInv, Tables', may' = may, NEW g \in Handler, reader[g] = Done \/ Kept(reader[g])
  PROVE  \A x : x = reader[g] => ReadingType(x)' /\ Sound(x)'
<1>1. CASE reader[g] = Done
  BY <1>1, DoneFacts DEF ReadingType, Sound
<1>2. CASE reader[g] # Done
  <2>1. PICK x : x = reader[g]
    OBVIOUS
  <2>2. x # Done /\ x \in Readings /\ ReadingType(x) /\ Sound(x) /\ Kept(x)
    BY <1>2, <2>1, ReadingFacts DEF IInv, TypeOK, ReadingType, Readings
  <2>3. x.on \in IF x.pc \in OnTicket THEN Ticket ELSE Session
    BY <2>2 DEF ReadingType
  <2>4. ReadingType(x)'
    BY <2>2, <2>3 DEF ReadingType, Kept, Readings, OnTicket, OnSession
  <2>5. x.on \in Session => preview[x.on].pages \in Nat /\ preview'[x.on].pages \in Nat
    BY RowFacts, Constant DEF Tables, IInv
  <2>6. x.got \in Nat /\ x.seen \in Nat
    BY <2>2, Constant DEF Readings
  <2>7. x.pc \in {"redeem", "askRedeem", "burn", "fetch"} => ticket[x.on].open
    BY <2>2 DEF ReadingType
  <2>8. Sound(x)'
    BY <2>2, <2>3, <2>5, <2>6, <2>7 DEF Sound, Kept, New, OnTicket, OnSession
  <2>. QED
    BY <2>1, <2>4, <2>8
<1>. QED
  BY <1>1, <1>2

(* A step that changes a row, under which the other requests keep sound.   *)
LEMMA TableStep ==
  ASSUME IInv, NEW h \in Handler, NEW r, Become(h, r), Tables', may' = may,
         begun' = begun, ReadingType(r)', Sound(r)', PairWith(h, r),
         \A g \in Handler : g # h /\ reader[g] # Done => Kept(reader[g]),
         \A t \in Ticket : TicketOnce(t)',
         \A s \in Session : Rendered(s)' /\ Counted(s)'
  PROVE  IInv'
<1>1. ASSUME NEW g \in Handler, g # h PROVE ReadingType(reader[g])' /\ Sound(reader[g])'
  <2>1. reader'[g] = reader[g]
    BY <1>1 DEF Become, IInv, TypeOK
  <2>2. PICK x : x = reader[g]
    OBVIOUS
  <2>3. ReadingType(x)' /\ Sound(x)'
    BY <1>1, <2>2, KeptSound
  <2>. QED
    BY <2>1, <2>2, <2>3 DEF ReadingType, Sound
<1>2. begun' \in 0 .. MaxRequests
  BY DEF IInv, TypeOK
<1>. QED
  BY <1>1, <1>2, StepInv

(* Two requests that meet at one ticket or session. *)
LEMMA Meet ==
  ASSUME IInv, NEW h \in Handler, NEW g \in Handler, g # h,
         reader[h].pc # "done", reader[g] # Done, reader[g].on = reader[h].on
  PROVE  ~New(reader[g]) /\ ~New(reader[h]) /\ ~(reader[h].pc = "fetch" /\ reader[g].pc = "fetch")
BY ReadingFacts DEF IInv, PairWith

(* A request on another row is not concerned.                              *)
LEMMA KeptSame ==
  ASSUME IInv, NEW x, x \in Readings, UNCHANGED <<session, preview, served>>,
         x.on \in Ticket => ticket'[x.on] = ticket[x.on]
  PROVE  Kept(x)
<1>1. x.on \in Session => preview[x.on].pages \in Nat
  BY RowFacts, Constant DEF IInv
<1>. QED
  BY <1>1 DEF Kept

(* A ticket is issued, burnt and served.                                   *)
LEMMA TicketSteps ==
  ASSUME IInv, NEW h \in Handler, IssueTicket(h) \/ Burn(h) \/ Serve(h)
  PROVE  IInv'
<1>. DEFINE t == reader[h].on
<1>1. reader[h].pc \in {"issue", "burn", "fetch"}
  BY DEF IssueTicket, Burn, Serve
<1>2. /\ reader[h] \in Readings /\ reader[h] # Done
      /\ ReadingType(reader[h]) /\ Sound(reader[h])
  BY <1>1, ReadingFacts DEF IInv
<1>3. t \in Ticket /\ t \notin Session /\ reader[h].user \in User
  BY <1>1, <1>2, DocumentAssumption DEF ReadingType, Readings, OnTicket
<1>4. Tables /\ UNCHANGED <<may, session, preview, begun>>
  BY TypeParts DEF IInv, IssueTicket, Burn, Serve
<1>5. \A s \in Session : Rendered(s)'
  BY <1>4 DEF IInv, Rendered
<1>6. \A u \in Ticket : TicketOnce(u) /\ served[u] \in Nat
  BY RowFacts DEF IInv
<1>7. CASE IssueTicket(h)
  <2>1. /\ ~ticket[t].open /\ ticket' = [ticket EXCEPT ![t] = NewTicket(reader[h].user)]
        /\ Become(h, Done) /\ served' = served
    BY <1>1, <1>2, <1>7 DEF IssueTicket, Sound
  <2>2. NewTicket(reader[h].user) \in TicketRow /\ ~NewTicket(reader[h].user).used
    BY <1>3 DEF NewTicket, TicketRow
  <2>3. Tables'
    BY <1>3, <1>4, <2>1, <2>2 DEF Tables
  <2>4. ASSUME NEW g \in Handler, g # h, reader[g] # Done PROVE Kept(reader[g])
    <3>1. reader[g].on # t
      BY <1>7, <2>4, Meet DEF New, IssueTicket
    <3>2. reader[g] \in Readings
      BY <2>4 DEF IInv, TypeOK, ReadingType, Readings
    <3>3. reader[g].on \in Ticket => ticket'[reader[g].on] = ticket[reader[g].on]
      BY <1>4, <2>1, <3>1 DEF Tables
    <3>. QED
      BY <1>4, <2>1, <3>2, <3>3, KeptSame
  <2>5. \A u \in Ticket : TicketOnce(u)'
    BY <1>4, <1>6, <2>1, <2>2 DEF TicketOnce, Tables
  <2>6. \A s \in Session : Counted(s)'
    BY <1>4, <2>1, DoneFacts, ShownStay
  <2>7. ReadingType(Done)' /\ Sound(Done)'
    BY DoneFacts DEF ReadingType, Sound
  <2>. QED
    BY <1>4, <1>5, <2>1, <2>3, <2>4, <2>5, <2>6, <2>7, DoneFacts, TableStep
<1>8. CASE Burn(h)
  <2>1. PICK r : r = [reader[h] EXCEPT !.pc = "fetch"]
    OBVIOUS
  <2>2. PICK row : row = [ticket[t] EXCEPT !.used = TRUE]
    OBVIOUS
  <2>3. /\ reader[h].pc = "burn" /\ ~ticket[t].used /\ ticket' = [ticket EXCEPT ![t] = row]
        /\ Become(h, r) /\ served' = served
    BY <1>8, <2>1, <2>2 DEF Burn, To
  <2>4. ticket[t].open /\ ticket[t] \in TicketRow
    BY <1>2, <1>3, <2>3, RowFacts DEF ReadingType, IInv
  <2>5. row \in TicketRow /\ row.used /\ row.open
    BY <2>2, <2>4 DEF TicketRow
  <2>6. /\ r \in Readings /\ r.pc = "fetch" /\ r.on = t /\ r.held = reader[h].held
        /\ r.user = reader[h].user /\ r # Done
    BY <1>2, <2>1, DoneFacts DEF Readings, OnTicket
  <2>7. Tables' /\ ticket'[t] = row
    BY <1>3, <1>4, <2>3, <2>5 DEF Tables
  <2>8. ReadingType(r)'
    BY <1>3, <2>5, <2>6, <2>7 DEF ReadingType, Readings, OnTicket, OnSession
  <2>9. served[t] = 0
    BY <1>3, <1>6, <2>3 DEF TicketOnce
  <2>10. Sound(r)'
    BY <1>2, <1>4, <2>3, <2>5, <2>6, <2>7, <2>9 DEF Sound
  <2>11. ASSUME NEW g \in Handler, g # h, reader[g] # Done
         PROVE  /\ Kept(reader[g])
                /\ reader[g].on = t => ~New(reader[g]) /\ reader[g].pc # "fetch"
    <3>1. reader[g].on = t => ~New(reader[g])
      BY <1>1, <2>11, Meet
    <3>2. reader[g].on = t => reader[g].pc # "fetch"
      BY <2>3, <2>11 DEF IInv, Sound
    <3>3. reader[g] \in Readings
      BY <2>11 DEF IInv, TypeOK, ReadingType, Readings
    <3>4. CASE reader[g].on = t
      BY <1>3, <2>5, <2>7, <3>1, <3>2, <3>4 DEF Kept
    <3>5. CASE reader[g].on # t
      <4>1. reader[g].on \in Ticket => ticket'[reader[g].on] = ticket[reader[g].on]
        BY <1>4, <2>3, <3>5 DEF Tables
      <4>2. UNCHANGED <<session, preview, served>>
        BY <1>4, <2>3
      <4>. QED
        BY <3>3, <3>5, <4>1, <4>2, KeptSame
    <3>. QED
      BY <3>1, <3>2, <3>4, <3>5
  <2>12. PairWith(h, r)
    BY <2>6, <2>11 DEF PairWith, New
  <2>13. \A u \in Ticket : TicketOnce(u)'
    BY <1>4, <1>6, <2>3, <2>5, <2>7, <2>9 DEF TicketOnce, Tables
  <2>14. \A s \in Session : Counted(s)'
    BY <1>4, <2>3, <2>6, ShownStay
  <2>. QED
    BY <1>4, <1>5, <2>3, <2>7, <2>8, <2>10, <2>11, <2>12, <2>13, <2>14, TableStep
<1>9. CASE Serve(h)
  <2>1. /\ reader[h].pc = "fetch" /\ served' = [served EXCEPT ![t] = @ + 1]
        /\ Become(h, Done) /\ ticket' = ticket
    BY <1>9 DEF Serve
  <2>2. ticket[t].open /\ ticket[t].used /\ served[t] = 0
    BY <1>2, <2>1 DEF ReadingType, Sound
  <2>3. /\ Tables' /\ served'[t] = 1
        /\ \A x \in Ticket \cup Session : x # t => served'[x] = served[x]
    BY <1>3, <1>4, <2>1, <2>2 DEF Tables
  <2>4. ASSUME NEW g \in Handler, g # h, reader[g] # Done PROVE Kept(reader[g])
    <3>1. reader[g].pc = "fetch" => reader[g].on # t /\ reader[g].on \in Ticket
      BY <2>1, <2>4, Meet DEF IInv, TypeOK, ReadingType, OnTicket
    <3>2. reader[g].on \in Session => preview[reader[g].on].pages \in Nat
      BY RowFacts, Constant DEF IInv
    <3>. QED
      BY <1>4, <2>1, <2>3, <3>1, <3>2 DEF Kept
  <2>5. \A u \in Ticket : TicketOnce(u)'
    BY <1>6, <2>1, <2>2, <2>3 DEF TicketOnce
  <2>6. \A s \in Session : Counted(s)'
    BY <1>3, <1>4, <2>1, <2>3, DoneFacts, ShownStay
  <2>7. ReadingType(Done)' /\ Sound(Done)'
    BY DoneFacts DEF ReadingType, Sound
  <2>. QED
    BY <1>4, <1>5, <2>1, <2>3, <2>4, <2>5, <2>6, <2>7, DoneFacts, TableStep
<1>. QED
  BY <1>7, <1>8, <1>9

(* Steps that change one session or its preview. *)
LEMMA KeptOther ==
  ASSUME IInv, NEW x, x \in Readings, UNCHANGED ticket,
         x.pc = "fetch" => served'[x.on] = served[x.on],
         x.on \in Session => session'[x.on] = session[x.on]
                             /\ preview[x.on].pages <= preview'[x.on].pages
  PROVE  Kept(x)
BY DEF Kept

(* Whoever fetches a download is on a ticket.                              *)
LEMMA FetchOnTicket ==
  ASSUME IInv, NEW g \in Handler, reader[g].pc = "fetch"
  PROVE  reader[g].on \in Ticket /\ reader[g].on \notin Session
BY DocumentAssumption DEF IInv, TypeOK, ReadingType, Done, OnTicket

(* The other service renders the pages.                                    *)
LEMMA PreparePreviewStep ==
  ASSUME IInv, NEW h \in Handler, PreparePreview(h)
  PROVE  IInv'
<1>. DEFINE s == reader[h].on
            n == Least(InitialPages, Pages)
<1>1. reader[h].pc = "prepare"
  BY DEF PreparePreview
<1>2. /\ reader[h] \in Readings /\ reader[h] # Done
      /\ ReadingType(reader[h]) /\ Sound(reader[h])
  BY <1>1, ReadingFacts DEF IInv
<1>3. s \in Session /\ ~session[s].open
  BY <1>1, <1>2 DEF ReadingType, Sound, OnTicket
<1>4. n \in 0 .. Pages /\ 1 <= n
  BY Constant DEF Least
<1>5. PICK r : r = [reader[h] EXCEPT !.pc = "open", !.got = n]
  OBVIOUS
<1>6. /\ preview' = [preview EXCEPT ![s] = NewPreview(n)] /\ Become(h, r)
      /\ UNCHANGED <<may, ticket, session, begun, served>>
  BY <1>5 DEF PreparePreview
<1>7. /\ r \in Readings /\ r.pc = "open" /\ r.on = s /\ r.got = n
      /\ r.held = reader[h].held /\ r.user = reader[h].user
  BY <1>2, <1>4, <1>5 DEF Readings
<1>8. Tables /\ NewPreview(n) \in [open: BOOLEAN, pages: 0 .. Pages] /\ NewPreview(n).pages = n
  BY <1>4, TypeParts DEF IInv, NewPreview
<1>9. Tables' /\ preview'[s].pages = n /\ \A q \in Session : q # s => preview'[q] = preview[q]
  BY <1>3, <1>6, <1>8 DEF Tables
<1>10. ReadingType(r)' /\ Sound(r)'
  BY <1>2, <1>3, <1>4, <1>6, <1>7, <1>9 DEF ReadingType, Sound, Readings, OnTicket, OnSession
<1>11. ASSUME NEW g \in Handler, g # h, reader[g] # Done PROVE Kept(reader[g])
  <2>1. reader[g].on # s /\ reader[g] \in Readings
    BY <1>1, <1>11, Meet DEF New, IInv, TypeOK, ReadingType, Readings
  <2>2. reader[g].on \in Session => preview[reader[g].on].pages \in Nat
    BY RowFacts, Constant DEF IInv
  <2>. QED
    BY <1>6, <1>9, <2>1, <2>2, KeptOther
<1>12. PairWith(h, r)
  BY <1>1, <1>7, SamePair DEF New
<1>13. \A q \in Session : Rendered(q)' /\ Counted(q)'
  <2>1. \A q \in Session : Rendered(q)'
    BY <1>3, <1>6, <1>9 DEF IInv, Rendered
  <2>. QED
    BY <1>6, <1>7, <2>1, ShownStay
<1>14. \A t \in Ticket : TicketOnce(t)'
  BY <1>6 DEF IInv, TicketOnce
<1>. QED
  BY <1>6, <1>9, <1>10, <1>11, <1>12, <1>13, <1>14, TableStep

(* The row of a session is created.                                        *)
LEMMA CreateSessionStep ==
  ASSUME IInv, NEW h \in Handler, CreateSession(h)
  PROVE  IInv'
<1>. DEFINE s == reader[h].on
            row == NewSession(reader[h].user, reader[h].got)
<1>1. reader[h].pc = "open"
  BY DEF CreateSession
<1>2. /\ reader[h] \in Readings /\ reader[h] # Done
      /\ ReadingType(reader[h]) /\ Sound(reader[h])
  BY <1>1, ReadingFacts DEF IInv
<1>3. /\ s \in Session /\ ~session[s].open
      /\ 1 <= reader[h].got /\ reader[h].got <= preview[s].pages
      /\ reader[h].got \in 0 .. Pages /\ reader[h].user \in User
  BY <1>1, <1>2 DEF ReadingType, Sound, OnTicket, Readings
<1>4. /\ session' = [session EXCEPT ![s] = row] /\ Become(h, Done)
      /\ UNCHANGED <<may, ticket, preview, begun, served>>
  BY DEF CreateSession
<1>5. /\ row \in SessionRow /\ row.open /\ row.pages = reader[h].got /\ row.requests = 0
  BY <1>3 DEF NewSession, SessionRow
<1>6. Tables
  BY TypeParts DEF IInv
<1>7. Tables' /\ session'[s] = row /\ \A q \in Session : q # s => session'[q] = session[q]
  BY <1>3, <1>4, <1>5, <1>6 DEF Tables
<1>8. ASSUME NEW g \in Handler, g # h, reader[g] # Done PROVE Kept(reader[g])
  <2>1. reader[g].on # s /\ reader[g] \in Readings
    BY <1>1, <1>8, Meet DEF New, IInv, TypeOK, ReadingType, Readings
  <2>2. reader[g].on \in Session => preview[reader[g].on].pages \in Nat
    BY RowFacts, Constant DEF IInv
  <2>. QED
    BY <1>4, <1>7, <2>1, <2>2, KeptOther
<1>9. \A q \in Session : Rendered(q)'
  <2>1. preview[s].pages \in Nat
    BY <1>3, RowFacts, Constant DEF IInv
  <2>. QED
    BY <1>3, <1>4, <1>5, <1>7, <2>1, Constant DEF IInv, Rendered
<1>10. ASSUME NEW q \in Session PROVE Counted(q)'
  <2>1. Showing(q)' \subseteq Showing(q)
    BY <1>4, DoneFacts DEF Showing, Become, IInv, TypeOK
  <2>2. /\ Cardinality(Showing(q)') <= Cardinality(Showing(q)) /\ Cardinality(Showing(q)') \in Nat
        /\ Cardinality(Showing(q)) \in Nat
    BY <2>1, ShowingFinite, FS_Subset, FS_CardinalityType DEF IInv
  <2>3. Counted(q) /\ served[q] \in Nat
    BY RowFacts DEF IInv
  <2>4. CASE q = s
    <3>1. Showing(s) = {}
      BY <1>3 DEF Showing, IInv, TypeOK, ReadingType, OnSession, Done
    <3>2. Showing(q)' = {} /\ Cardinality({}) = 0
      BY <2>4, <3>1, <2>1, FS_EmptySet
    <3>3. served[q] = 0 /\ served'[q] = 0
      BY <1>3, <1>4, <2>3, <2>4 DEF Counted
    <3>4. session'[q] = row
      BY <1>7, <2>4
    <3>. HIDE DEF row
    <3>. QED
      BY <1>5, <3>2, <3>3, <3>4, Constant DEF Counted
  <2>5. CASE q # s
    <3>1. session'[q] = session[q] /\ (session[q].open => session[q].requests \in Nat)
      BY <1>7, <2>5, RowFacts DEF IInv, SessionRow
    <3>. QED
      BY <1>4, <1>7, <2>2, <2>3, <2>5, <3>1 DEF Counted
  <2>. QED
    BY <2>4, <2>5
<1>11. \A t \in Ticket : TicketOnce(t)'
  BY <1>4 DEF IInv, TicketOnce
<1>12. ReadingType(Done)' /\ Sound(Done)'
  BY DoneFacts DEF ReadingType, Sound
<1>. QED
  BY <1>4, <1>7, <1>8, <1>9, <1>10, <1>11, <1>12, DoneFacts, TableStep

(* A step that changes a session which exists, or its preview: whoever     *)
(* else works on it does not make it.                                      *)
LEMMA KeptThere ==
  ASSUME IInv, NEW h \in Handler, NEW g \in Handler, g # h, UNCHANGED <<ticket, begun>>,
         reader[h].pc # "done", reader[g] # Done, reader[h].on \in Session,
         \A q \in Session : /\ session[q].open => session'[q].open
                            /\ q # reader[h].on => session'[q] = session[q]
                            /\ preview[q].pages <= preview'[q].pages,
         \A t \in Ticket : served'[t] = served[t]
  PROVE  Kept(reader[g])
<1>1. reader[g].pc = "fetch" => reader[g].on \in Ticket
  BY FetchOnTicket
<1>2. reader[g].on = reader[h].on => ~New(reader[g])
  BY Meet
<1>. QED
  BY <1>1, <1>2 DEF Kept

(* A request on a session has a session that was opened.                   *)
LEMMA OnOpen ==
  ASSUME IInv, NEW h \in Handler, reader[h].pc \in OnSession
  PROVE  /\ reader[h] \in Readings /\ reader[h] # Done /\ reader[h].pc # "done"
         /\ ReadingType(reader[h]) /\ Sound(reader[h])
         /\ reader[h].on \in Session /\ reader[h].on \notin Ticket
         /\ session[reader[h].on] \in SessionRow /\ session[reader[h].on].open
         /\ session[reader[h].on].requests \in Nat
         /\ preview[reader[h].on] \in [open: BOOLEAN, pages: 0 .. Pages]
<1>1. reader[h].pc # "done"
  BY DEF OnSession
<1>2. reader[h] \in Readings /\ reader[h] # Done /\ ReadingType(reader[h]) /\ Sound(reader[h])
  BY <1>1, ReadingFacts DEF IInv
<1>3. reader[h].on \in Session /\ session[reader[h].on].open
  BY <1>2 DEF ReadingType, OnTicket, OnSession
<1>. QED
  BY <1>1, <1>2, <1>3, RowFacts, DocumentAssumption DEF IInv, SessionRow

(* The row of a session is updated by the request h that becomes r.        *)
LEMMA RowStep ==
  ASSUME IInv, NEW h \in Handler, reader[h].pc \in OnSession, NEW r, Become(h, r),
         NEW row \in SessionRow, session' = [session EXCEPT ![reader[h].on] = row],
         row.pages <= preview[reader[h].on].pages,
         UNCHANGED <<may, ticket, preview, begun, served>>,
         ReadingType(r)', Sound(r)', ~New(r), r.pc # "fetch", r = Done \/ r.on = reader[h].on,
         \A s \in Session : Counted(s)'
  PROVE  IInv'
<1>1. row.open
  BY DEF SessionRow
<1>2. Tables
  BY TypeParts DEF IInv
<1>3. /\ Tables' /\ session'[reader[h].on] = row
      /\ \A q \in Session : q # reader[h].on => session'[q] = session[q]
  BY <1>2, OnOpen DEF Tables
<1>4. \A q \in Session : preview[q].pages \in Nat
  BY RowFacts, Constant DEF IInv
<1>5. \A q \in Session : Rendered(q)'
  BY <1>1, <1>3, <1>4, OnOpen DEF IInv, Rendered
<1>6. \A g \in Handler : g # h /\ reader[g] # Done => Kept(reader[g])
  BY <1>1, <1>3, <1>4, OnOpen, KeptThere
<1>7. PairWith(h, r)
  BY OnOpen, SamePair, DoneFacts
<1>8. \A t \in Ticket : TicketOnce(t)'
  BY DEF IInv, TicketOnce
<1>. QED
  BY <1>3, <1>5, <1>6, <1>7, <1>8, TableStep

(* The conditional update that counts a page.                              *)
LEMMA CountPageStep ==
  ASSUME IInv, NEW h \in Handler, CountPage(h)
  PROVE  IInv'
<1>. DEFINE s == reader[h].on
<1>1. reader[h].pc = "count" /\ reader[h].pc \in OnSession
  BY DEF CountPage, OnSession
<1>2. PICK row : row = [session[s] EXCEPT !.requests = @ + 1]
  OBVIOUS
<1>3. /\ row \in SessionRow /\ row.open /\ row.pages = session[s].pages
      /\ row.requests = session[s].requests + 1
  <2>1. session[s] \in SessionRow
    BY <1>1, OnOpen
  <2>2. session[s].requests \in Nat
    BY <2>1, SessionRowFacts
  <2>3. row = [session[s] EXCEPT !.requests = session[s].requests + 1]
    BY <1>2
  <2>. QED
    BY <2>1, <2>2, <2>3, SessionRowFacts
<1>4. PICK r : r = [reader[h] EXCEPT !.pc = "show"]
  OBVIOUS
<1>5. /\ r \in Readings /\ r.pc = "show" /\ r.on = s /\ r.held = reader[h].held
      /\ r.user = reader[h].user
  BY <1>1, <1>4, OnOpen DEF Readings, OnSession
<1>6. /\ session' = [session EXCEPT ![s] = row] /\ Become(h, r)
      /\ session[s].requests < PageLimit
      /\ UNCHANGED <<may, ticket, preview, begun, served>>
  BY <1>2, <1>4 DEF CountPage, Countable, To
<1>7. session'[s] = row /\ \A q \in Session : q # s => session'[q] = session[q]
  BY <1>1, <1>6, OnOpen, TypeParts DEF Tables, IInv
<1>8. ReadingType(r)' /\ Sound(r)'
  BY <1>1, <1>3, <1>5, <1>6, <1>7, OnOpen DEF ReadingType, Sound, Readings, OnTicket, OnSession
<1>9. ASSUME NEW q \in Session PROVE Counted(q)'
  <2>1. /\ IsFiniteSet(Showing(q)) /\ Cardinality(Showing(q)) \in Nat
        /\ Counted(q) /\ served[q] \in Nat
    BY ShowingFinite, RowFacts DEF IInv
  <2>2. CASE q = s
    <3>1. Showing(q)' = Showing(q) \cup {h} /\ h \notin Showing(q)
      BY <1>1, <1>5, <1>6, <2>2 DEF Showing, Become, IInv, TypeOK
    <3>2. Cardinality(Showing(q)') = Cardinality(Showing(q)) + 1
      BY <2>1, <3>1, FS_AddElement
    <3>3. /\ served[q] + Cardinality(Showing(q)) <= session[q].requests
          /\ session[q].requests \in Nat
      BY <1>1, <2>1, <2>2, OnOpen DEF Counted
    <3>4. /\ session'[q].open /\ session'[q].requests = session[q].requests + 1 /\ served' = served
          /\ session[q].requests < PageLimit
      BY <1>3, <1>6, <1>7, <2>2
    <3>5. /\ served'[q] + Cardinality(Showing(q)') <= session'[q].requests
          /\ session'[q].requests <= PageLimit
      BY <2>1, <3>2, <3>3, <3>4, Constant
    <3>. QED
      BY <3>4, <3>5 DEF Counted
  <2>3. CASE q # s
    <3>1. Showing(q)' = Showing(q)
      BY <1>1, <1>5, <1>6, <2>3 DEF Showing, Become, IInv, TypeOK
    <3>. QED
      BY <1>6, <1>7, <2>1, <2>3, <3>1 DEF Counted
  <2>. QED
    BY <2>2, <2>3
<1>10. row.pages <= preview[s].pages
  BY <1>1, <1>3, OnOpen DEF IInv, Rendered
<1>11. ~New(r) /\ r.pc # "fetch"
  BY <1>5 DEF New
<1>. QED
  BY <1>1, <1>3, <1>5, <1>6, <1>8, <1>9, <1>10, <1>11, RowStep

(* A page count is written, or the session revoked.                        *)
LEMMA RowSteps ==
  ASSUME IInv, NEW h \in Handler, WriteCount(h) \/ RevokeSession(h)
  PROVE  IInv'
<1>. DEFINE s == reader[h].on
<1>1. reader[h].pc \in {"write", "revoke"} /\ reader[h].pc \in OnSession
  BY DEF WriteCount, RevokeSession, OnSession
<1>2. session[s].pages \in 0 .. Pages /\ preview[s].pages \in Nat /\ session[s].pages <= preview[s].pages
  <2>1. /\ session[s] \in SessionRow /\ session[s].open /\ s \in Session
        /\ preview[s] \in [open: BOOLEAN, pages: 0 .. Pages]
    BY <1>1, OnOpen
  <2>2. Rendered(s)
    BY <2>1 DEF IInv
  <2>3. session[s].pages <= preview[s].pages
    BY <2>1, <2>2 DEF Rendered
  <2>. QED
    BY <2>1, <2>3, SessionRowFacts, ViewFacts
<1>3. PICK row, r :
        /\ row \in SessionRow
        /\ session' = [session EXCEPT ![s] = row] /\ Become(h, r)
        /\ row.pages <= preview[s].pages /\ row.requests = session[s].requests
        /\ r = Done \/ (r = [reader[h] EXCEPT !.pc = "drop"] /\ reader[h].pc = "revoke")
  <2>1. CASE WriteCount(h)
    <3>. DEFINE n == Most(reader[h].seen, reader[h].got)
                row == [session[s] EXCEPT !.pages = n]
    <3>1. n \in 0 .. Pages /\ n <= preview[s].pages
      BY <1>1, <2>1, OnOpen DEF Most, WriteCount, Readings, Sound
    <3>2. row \in SessionRow /\ row.pages = n /\ row.requests = session[s].requests
      BY <1>1, <3>1, OnOpen DEF SessionRow
    <3>3. session' = [session EXCEPT ![s] = row] /\ Become(h, Done)
      BY <2>1 DEF WriteCount
    <3>. HIDE DEF row
    <3>. QED
      BY <3>1, <3>2, <3>3
  <2>2. CASE RevokeSession(h)
    <3>. DEFINE row == [session[s] EXCEPT !.revoked = TRUE]
    <3>1. row \in SessionRow /\ row.pages = session[s].pages /\ row.requests = session[s].requests
      BY <1>1, OnOpen DEF SessionRow
    <3>2. /\ session' = [session EXCEPT ![s] = row] /\ reader[h].pc = "revoke"
          /\ Become(h, [reader[h] EXCEPT !.pc = "drop"])
      BY <2>2 DEF RevokeSession, To
    <3>. HIDE DEF row
    <3>. QED
      BY <1>2, <3>1, <3>2
  <2>. QED
    BY <2>1, <2>2
<1>4. UNCHANGED <<may, ticket, preview, begun, served>>
  BY DEF WriteCount, RevokeSession
<1>5. row.open /\ session'[s] = row /\ \A q \in Session : q # s => session'[q] = session[q]
  BY <1>1, <1>3, OnOpen, TypeParts DEF Tables, IInv, SessionRow
<1>6. r # Done => /\ r \in Readings /\ r.pc = "drop" /\ r.on = s
                  /\ r.user = reader[h].user /\ r.held = reader[h].held
  BY <1>1, <1>3, OnOpen DEF Readings, OnSession
<1>7. ReadingType(r)' /\ Sound(r)'
  BY <1>1, <1>4, <1>5, <1>6, OnOpen DEF ReadingType, Sound, Readings, OnTicket, OnSession
<1>8. ~New(r) /\ r.pc # "fetch" /\ r.pc # "show"
  BY <1>6, DoneFacts DEF New
<1>9. \A q \in Session : Counted(q)'
  BY <1>1, <1>3, <1>4, <1>5, <1>8, OnOpen, ShownStay
<1>. QED
  BY <1>1, <1>3, <1>4, <1>6, <1>7, <1>8, <1>9, RowStep

(* The page that was counted is shown.                                     *)
LEMMA ShowPageStep ==
  ASSUME IInv, NEW h \in Handler, ShowPage(h)
  PROVE  IInv'
<1>. DEFINE s == reader[h].on
<1>1. reader[h].pc = "show" /\ reader[h].pc \in OnSession
  BY DEF ShowPage, OnSession
<1>2. /\ served' = [served EXCEPT ![s] = @ + 1] /\ Become(h, Done)
      /\ UNCHANGED <<may, ticket, session, preview, begun>>
  BY DEF ShowPage
<1>3. Tables /\ s \in Session /\ s \notin Ticket /\ session[s].open
  BY <1>1, OnOpen, TypeParts DEF IInv
<1>4. /\ Tables' /\ served'[s] = served[s] + 1
      /\ \A x \in Ticket \cup Session : x # s => served'[x] = served[x]
  BY <1>2, <1>3 DEF Tables
<1>5. \A t \in Ticket : TicketOnce(t)'
  BY <1>2, <1>3, <1>4 DEF IInv, TicketOnce
<1>6. ASSUME NEW q \in Session PROVE Counted(q)'
  <2>1. /\ IsFiniteSet(Showing(q)) /\ Cardinality(Showing(q)) \in Nat
        /\ Counted(q) /\ served[q] \in Nat
        /\ session[q].open => session[q].requests \in Nat
    BY ShowingFinite, RowFacts DEF IInv, SessionRow
  <2>2. CASE q = s
    <3>1. Showing(q)' = Showing(q) \ {h} /\ h \in Showing(q)
      BY <1>1, <1>2, <2>2, DoneFacts DEF Showing, Become, IInv, TypeOK
    <3>2. Cardinality(Showing(q)') = Cardinality(Showing(q)) - 1
      BY <2>1, <3>1, FS_RemoveElement
    <3>3. /\ served[q] + Cardinality(Showing(q)) <= session[q].requests
          /\ session[q].requests <= PageLimit /\ session[q].requests \in Nat
      BY <1>3, <2>1, <2>2 DEF Counted
    <3>4. served'[q] = served[q] + 1 /\ session' = session
      BY <1>2, <1>4, <2>2
    <3>5. served'[q] + Cardinality(Showing(q)') <= session'[q].requests
      BY <2>1, <3>2, <3>3, <3>4
    <3>. QED
      BY <1>3, <2>2, <3>3, <3>4, <3>5 DEF Counted
  <2>3. CASE q # s
    <3>1. Showing(q)' = Showing(q)
      BY <1>2, <2>3, DoneFacts DEF Showing, Become, IInv, TypeOK
    <3>. QED
      BY <1>2, <1>4, <2>1, <2>3, <3>1 DEF Counted
  <2>. QED
    BY <2>2, <2>3
<1>7. \A q \in Session : Rendered(q)' /\ preview[q].pages \in Nat
  BY <1>2, RowFacts, Constant DEF IInv, Rendered
<1>8. \A g \in Handler : g # h /\ reader[g] # Done => Kept(reader[g])
  BY <1>1, <1>2, <1>3, <1>4, <1>7, KeptThere, OnOpen
<1>9. ReadingType(Done)' /\ Sound(Done)'
  BY DoneFacts DEF ReadingType, Sound
<1>. QED
  BY <1>2, <1>4, <1>5, <1>6, <1>7, <1>8, <1>9, DoneFacts, TableStep

(* The preview of a session gets a row `view` with no fewer pages.         *)
LEMMA PreviewSteps ==
  ASSUME IInv, NEW h \in Handler, Render(h) \/ RevokePreview(h)
  PROVE  IInv'
<1>. DEFINE s == reader[h].on
<1>1. reader[h].pc \in {"render", "drop"} /\ reader[h].pc \in OnSession
  BY DEF Render, RevokePreview, OnSession
<1>2. /\ preview[s].pages \in 0 .. Pages /\ preview[s].open \in BOOLEAN /\ s \in Session
      /\ preview[s] \in [open: BOOLEAN, pages: 0 .. Pages]
  BY <1>1, OnOpen
<1>3. PICK view, r :
        /\ view \in [open: BOOLEAN, pages: 0 .. Pages]
        /\ preview' = [preview EXCEPT ![s] = view] /\ Become(h, r)
        /\ preview[s].pages <= view.pages
        /\ \/ r = Done
           \/ /\ r \in Readings /\ r.pc = "reread" /\ r.on = s /\ r.got = view.pages
              /\ r.user = reader[h].user /\ r.held = reader[h].held
  <2>1. CASE Render(h)
    <3>. DEFINE n == Most(preview[s].pages, LastPage(reader[h]))
                view == [preview[s] EXCEPT !.pages = n]
                r == [reader[h] EXCEPT !.pc = "reread", !.got = n]
    <3>1. reader[h].want \in 0 .. Pages /\ reader[h].seen \in 0 .. Pages
      BY <1>1, OnOpen DEF Readings
    <3>2. LastPage(reader[h]) \in 0 .. Pages
      BY <3>1, Constant DEF LastPage, Least
    <3>3. n \in 0 .. Pages /\ preview[s].pages <= n
      BY <1>2, <3>2, Constant DEF Most
    <3>4. preview' = [preview EXCEPT ![s] = view] /\ Become(h, r)
      BY <2>1 DEF Render, Extended
    <3>. HIDE DEF n
    <3>5. view \in [open: BOOLEAN, pages: 0 .. Pages] /\ view.pages = n
      BY <1>2, <3>3
    <3>6. /\ r \in Readings /\ r.pc = "reread" /\ r.on = s /\ r.got = n
          /\ r.user = reader[h].user /\ r.held = reader[h].held
      BY <1>1, <3>3, OnOpen DEF Readings, OnSession
    <3>. HIDE DEF view, r
    <3>. QED
      BY <3>3, <3>4, <3>5, <3>6
  <2>2. CASE RevokePreview(h)
    <3>. DEFINE view == [preview[s] EXCEPT !.open = FALSE]
    <3>1. /\ view \in [open: BOOLEAN, pages: 0 .. Pages]
          /\ view.pages = preview[s].pages /\ preview[s].pages <= view.pages
      BY <1>2, ViewFacts
    <3>2. preview' = [preview EXCEPT ![s] = view] /\ Become(h, Done)
      BY <2>2 DEF RevokePreview
    <3>. HIDE DEF view
    <3>. QED
      BY <3>1, <3>2
  <2>. QED
    BY <2>1, <2>2
<1>4. UNCHANGED <<may, ticket, session, begun, served>>
  BY DEF Render, RevokePreview
<1>5. Tables
  BY TypeParts DEF IInv
<1>6. /\ Tables' /\ preview'[s] = view
      /\ \A q \in Session : q # s => preview'[q] = preview[q]
  BY <1>2, <1>3, <1>4, <1>5 DEF Tables
<1>7. \A q \in Session : preview[q].pages \in Nat /\ preview[q].pages <= preview'[q].pages
  BY <1>3, <1>6, RowFacts, Constant DEF IInv
<1>8. ASSUME NEW q \in Session PROVE Rendered(q)'
  <2>1. Rendered(q) /\ preview'[q].pages \in Nat
    BY <1>3, <1>6, <1>7, Constant DEF IInv
  <2>2. session[q].open => session[q].pages \in Nat
    BY RowFacts, SessionRowFacts DEF IInv
  <2>. QED
    BY <1>4, <1>7, <2>1, <2>2 DEF Rendered
<1>9. ReadingType(r)' /\ Sound(r)'
  <2>1. view.pages <= view.pages
    BY <1>3, Constant
  <2>. QED
    BY <1>1, <1>3, <1>4, <1>6, <2>1, DoneFacts, OnOpen DEF ReadingType, Sound, Readings, OnTicket, OnSession
<1>10. ~New(r) /\ r.pc # "fetch" /\ r.pc # "show" /\ (r = Done \/ r.on = s)
  BY <1>3, DoneFacts DEF New
<1>11. PairWith(h, r)
  BY <1>1, <1>10, OnOpen, SamePair, DoneFacts
<1>12. \A g \in Handler : g # h /\ reader[g] # Done => Kept(reader[g])
  BY <1>1, <1>4, <1>7, KeptThere, OnOpen
<1>13. \A t \in Ticket : TicketOnce(t)'
  BY <1>4 DEF IInv, TicketOnce
<1>14. \A q \in Session : Counted(q)'
  BY <1>3, <1>4, <1>10, ShownStay
<1>. QED
  BY <1>3, <1>4, <1>6, <1>8, <1>9, <1>11, <1>12, <1>13, <1>14, TableStep
-----------------------------------------------------------------------------
(* Steps that no request takes.                                            *)
LEMMA IdleStep ==
  ASSUME IInv, Tables', UNCHANGED <<may, reader, begun, served>>,
         \A g \in Handler : reader[g] # Done => Kept(reader[g]),
         \A t \in Ticket : TicketOnce(t)',
         \A s \in Session : Rendered(s)',
         \A s \in Session : /\ session'[s].open <=> session[s].open
                            /\ session[s].open => session'[s].requests = session[s].requests
  PROVE  IInv'
<1>1. ASSUME NEW g \in Handler PROVE ReadingType(reader[g])' /\ Sound(reader[g])'
  <2>1. PICK x : x = reader[g]
    OBVIOUS
  <2>2. ReadingType(x)' /\ Sound(x)'
    BY <2>1, KeptSound
  <2>. QED
    BY <2>1, <2>2 DEF ReadingType, Sound
<1>2. TypeOK'
  BY <1>1, TypeParts DEF IInv, TypeOK, Tables, TicketRow, SessionRow
<1>3. \A g \in Handler : PairWith(g, reader[g])'
  BY DEF IInv, PairWith, New
<1>4. \A s \in Session : Counted(s)'
  BY DEF IInv, Counted, Showing
<1>. QED
  BY <1>1, <1>2, <1>3, <1>4 DEF IInv

(* Tickets, sessions and previews that expire.                             *)
LEMMA ClockSteps ==
  ASSUME IInv,
         \/ \E t \in Ticket : ExpireTicket(t)
         \/ \E s \in Session : ExpireSession(s) \/ DropPreview(s)
  PROVE  IInv'
<1>. USE DEF IInv
<1>1. Tables
  BY TypeParts
<1>2. \A g \in Handler : reader[g] # Done => reader[g] \in Readings
  BY DEF TypeOK, ReadingType, Readings
<1>3. \A s \in Session : preview[s].pages \in Nat
  BY RowFacts, Constant
<1>4. ASSUME NEW g \in Handler, reader[g] # Done
      PROVE  /\ New(reader[g]) /\ reader[g].on \in Ticket => ~ticket[reader[g].on].open
             /\ New(reader[g]) /\ reader[g].on \in Session => ~session[reader[g].on].open
  BY <1>4, DocumentAssumption DEF New, Sound, TypeOK, ReadingType, OnTicket
<1>5. ASSUME NEW t \in Ticket, ExpireTicket(t) PROVE IInv'
  <2>1. PICK row : row = [ticket[t] EXCEPT !.expired = TRUE]
    OBVIOUS
  <2>2. ticket[t] \in TicketRow /\ ticket[t].open
    BY <1>5, RowFacts DEF ExpireTicket
  <2>3. row \in TicketRow /\ row.open /\ row.used = ticket[t].used
    BY <2>1, <2>2 DEF TicketRow
  <2>4. ticket' = [ticket EXCEPT ![t] = row] /\ UNCHANGED <<may, session, preview, reader, begun, served>>
    BY <1>5, <2>1 DEF ExpireTicket
  <2>5. Tables' /\ ticket'[t] = row /\ \A u \in Ticket : u # t => ticket'[u] = ticket[u]
    BY <1>1, <2>3, <2>4 DEF Tables
  <2>6. \A g \in Handler : reader[g] # Done => Kept(reader[g])
    BY <1>3, <1>4, <2>2, <2>3, <2>4, <2>5 DEF Kept
  <2>7. \A u \in Ticket : TicketOnce(u)'
    BY <2>2, <2>3, <2>4, <2>5 DEF TicketOnce
  <2>8. \A s \in Session : Rendered(s)'
    BY <2>4 DEF Rendered
  <2>. QED
    BY <2>4, <2>5, <2>6, <2>7, <2>8, IdleStep
<1>6. ASSUME NEW s \in Session, ExpireSession(s) PROVE IInv'
  <2>1. PICK row : row = [session[s] EXCEPT !.expired = TRUE]
    OBVIOUS
  <2>2. session[s] \in SessionRow /\ session[s].open
    BY <1>6, RowFacts DEF ExpireSession
  <2>3. /\ row \in SessionRow /\ row.open /\ row.pages = session[s].pages
        /\ row.requests = session[s].requests
    BY <2>1, <2>2 DEF SessionRow
  <2>4. session' = [session EXCEPT ![s] = row] /\ UNCHANGED <<may, ticket, preview, reader, begun, served>>
    BY <1>6, <2>1 DEF ExpireSession
  <2>5. Tables' /\ session'[s] = row /\ \A q \in Session : q # s => session'[q] = session[q]
    BY <1>1, <2>3, <2>4 DEF Tables
  <2>6. \A g \in Handler : reader[g] # Done => Kept(reader[g])
    BY <1>3, <1>4, <2>2, <2>3, <2>4, <2>5 DEF Kept
  <2>7. \A u \in Ticket : TicketOnce(u)'
    BY <2>4 DEF TicketOnce
  <2>8. \A q \in Session : Rendered(q)'
    BY <2>2, <2>3, <2>4, <2>5 DEF Rendered
  <2>. QED
    BY <2>2, <2>3, <2>4, <2>5, <2>6, <2>7, <2>8, IdleStep
<1>7. ASSUME NEW s \in Session, DropPreview(s) PROVE IInv'
  <2>1. PICK view : view = [preview[s] EXCEPT !.open = FALSE]
    OBVIOUS
  <2>2. preview[s] \in [open: BOOLEAN, pages: 0 .. Pages]
    BY RowFacts
  <2>3. view \in [open: BOOLEAN, pages: 0 .. Pages] /\ view.pages = preview[s].pages
    BY <2>1, <2>2
  <2>4. preview' = [preview EXCEPT ![s] = view] /\ UNCHANGED <<may, ticket, session, reader, begun, served>>
    BY <1>7, <2>1 DEF DropPreview
  <2>5. Tables' /\ \A q \in Session : preview'[q].pages = preview[q].pages
    BY <1>1, <2>3, <2>4 DEF Tables
  <2>6. \A g \in Handler : reader[g] # Done => Kept(reader[g])
    BY <1>3, <1>4, <2>4, <2>5 DEF Kept
  <2>7. \A u \in Ticket : TicketOnce(u)'
    BY <2>4 DEF TicketOnce
  <2>8. \A q \in Session : Rendered(q)'
    BY <2>4, <2>5 DEF Rendered
  <2>. QED
    BY <2>4, <2>5, <2>6, <2>7, <2>8, IdleStep
<1>. QED
  BY <1>5, <1>6, <1>7

(* The rights of a user change.                                            *)
LEMMA ChangeMayStep ==
  ASSUME IInv, ChangeMay
  PROVE  IInv'
<1>1. PICK u \in User, a \in Action :
        LET m == IF <<u, a>> \in may THEN may \ {<<u, a>>} ELSE may \cup {<<u, a>>} IN
        /\ may' = m
        /\ reader' = [h \in Handler |->
                        IF Active(h) THEN [reader[h] EXCEPT !.held = @ \cup Allowed(reader[h].user, m)]
                                     ELSE Done]
        /\ UNCHANGED <<ticket, session, preview, begun, served>>
  BY DEF ChangeMay
<1>2. may' \subseteq User \X Action
  <2>1. <<u, a>> \in User \X Action /\ may \subseteq User \X Action
    BY TypeParts DEF IInv, Tables
  <2>. QED
    BY <1>1, <2>1
<1>3. /\ UNCHANGED <<ticket, session, preview, begun, served>>
      /\ reader' = [h \in Handler |->
                      IF Active(h)
                      THEN [reader[h] EXCEPT !.held = @ \cup Allowed(reader[h].user, may')]
                      ELSE Done]
  BY <1>1
<1>4. ASSUME NEW h \in Handler, reader[h] # Done
      PROVE  /\ reader[h] \in Readings /\ reader'[h] \in Readings /\ reader'[h] # Done
             /\ reader'[h].pc = reader[h].pc /\ reader'[h].user = reader[h].user
             /\ reader'[h].on = reader[h].on /\ reader'[h].seen = reader[h].seen
             /\ reader'[h].got = reader[h].got
             /\ reader[h].held \subseteq reader'[h].held
             /\ Allowed(reader[h].user, may') \subseteq reader'[h].held
  <2>1. reader[h] \in Readings
    BY <1>4 DEF IInv, TypeOK, ReadingType, Readings
  <2>2. PICK held : held = reader[h].held \cup Allowed(reader[h].user, may')
    OBVIOUS
  <2>3. held \in SUBSET Action
    BY <2>1, <2>2 DEF Readings, Allowed
  <2>4. reader'[h] = [reader[h] EXCEPT !.held = held]
    BY <1>3, <1>4, <2>2 DEF Active
  <2>. QED
    BY <2>1, <2>2, <2>3, <2>4, DoneFacts DEF Readings
<1>5. \A h \in Handler : reader[h] = Done => reader'[h] = Done
  BY <1>3 DEF Active
<1>6. ASSUME NEW h \in Handler PROVE ReadingType(reader[h])' /\ Sound(reader[h])'
  <2>1. ReadingType(reader[h]) /\ Sound(reader[h])
    BY DEF IInv, TypeOK
  <2>2. CASE reader[h] = Done
    BY <1>5, <2>2 DEF ReadingType, Sound
  <2>3. CASE reader[h] # Done
    BY <1>3, <1>4, <2>1, <2>3 DEF ReadingType, Sound, Readings
  <2>. QED
    BY <2>2, <2>3
<1>7. TypeOK'
  <2>1. Tables'
    BY <1>2, <1>3, TypeParts DEF IInv, Tables
  <2>. QED
    BY <1>3, <1>6, <2>1, TypeParts DEF IInv, TypeOK, Tables, TicketRow, SessionRow
<1>8. ASSUME NEW h \in Handler PROVE PairWith(h, reader[h])'
  BY <1>4, <1>5 DEF IInv, PairWith, New
<1>9. \A t \in Ticket : TicketOnce(t)'
  BY <1>3 DEF IInv, TicketOnce
<1>10. ASSUME NEW s \in Session PROVE Rendered(s)' /\ Counted(s)'
  <2>1. Showing(s)' = Showing(s)
    BY <1>4, <1>5, DoneFacts DEF Showing
  <2>. QED
    BY <1>3, <2>1 DEF IInv, Rendered, Counted
<1>. QED
  BY <1>6, <1>7, <1>8, <1>9, <1>10 DEF IInv
-----------------------------------------------------------------------------
(* Every step keeps the invariant.                                         *)
LEMMA InvStep == IInv /\ [Next]_access => IInv'
<1>. SUFFICES ASSUME IInv, [Next]_access PROVE IInv'
  OBVIOUS
<1>1. CASE UNCHANGED access
  <2>1. UNCHANGED <<may, ticket, session, preview, reader, begun, served>>
    BY <1>1 DEF access
  <2>2. Tables' /\ \A s \in Session : preview[s].pages \in Nat
    BY <2>1, TypeParts, RowFacts, Constant DEF IInv, Tables
  <2>3. \A g \in Handler : reader[g] # Done => Kept(reader[g])
    BY <2>1, <2>2 DEF Kept
  <2>. QED
    BY <2>1, <2>2, <2>3, IdleStep DEF IInv, TicketOnce, Rendered
<1>2. CASE Next
  BY <1>2, ChangeMayStep, ClockSteps, StopStep, Beginnings, ReadSteps, TicketSteps,
     PreparePreviewStep, CreateSessionStep, CountPageStep, ShowPageStep, RowSteps, PreviewSteps
  DEF Next
<1>. QED
  BY <1>1, <1>2

(* The inductive invariant: what every request relies on holds always.     *)
THEOREM InvAlways == Spec => []IInv
BY InvInit, InvStep, PTL DEF Spec
-----------------------------------------------------------------------------
(* Rows, previews and requests stay well typed, and every request works on *)
(* a ticket or session that exists where its code relies on it.            *)
THEOREM TypeCorrect == Spec => []TypeOK
<1>1. IInv => TypeOK
  BY DEF IInv
<1>. QED
  BY <1>1, InvAlways, PTL

(* A ticket is good for one download, however many requests redeem it.     *)
THEOREM TicketsServeOnce == Spec => []ServedOnce
<1>1. IInv => ServedOnce
  BY DEF IInv, ServedOnce, TicketOnce
<1>. QED
  BY <1>1, InvAlways, PTL

(* Whoever is answered was allowed to at some time during the request.     *)
THEOREM ServedWereAllowed == Spec => []AllowedWhenServed
<1>1. IInv => AllowedWhenServed
  BY DEF IInv, AllowedWhenServed, Sound, Done
<1>. QED
  BY <1>1, InvAlways, PTL

(* A session shows no more pages than its limit, however many requests for *)
(* a page meet: every page is counted, by one update, before it is shown.  *)
THEOREM PageLimitHolds == Spec => []WithinLimit
<1>1. IInv => WithinLimit
  <2>. SUFFICES ASSUME IInv, NEW s \in Session PROVE served[s] <= PageLimit
    BY DEF WithinLimit
  <2>1. /\ Cardinality(Showing(s)) \in Nat /\ served[s] \in Nat /\ Counted(s)
        /\ session[s].open => session[s].requests \in Nat
    BY ShowingFinite, RowFacts, SessionRowFacts DEF IInv
  <2>. QED
    BY <2>1, Constant DEF Counted
<1>. QED
  BY <1>1, InvAlways, PTL

(* No page is promised that was not rendered, although the row of a session *)
(* and its preview are in two services and are updated by different requests. *)
THEOREM PagesWereRendered == Spec => []PagesRendered
<1>1. IInv => PagesRendered
  BY DEF IInv, PagesRendered, Rendered
<1>. QED
  BY <1>1, InvAlways, PTL
=============================================================================
