--------------------------- MODULE DocumentAccess ---------------------------
(***************************************************************************)
(* Reading a document: download tickets and preview sessions               *)
(* (apps/document-management-service/src/documents/documents.controller.ts *)
(* and documents.service.ts), with the previews that the Document Security *)
(* Service keeps in memory (security-pipeline.service.ts).                 *)
(*                                                                         *)
(* One document, one version, one task; a request that names another one   *)
(* is refused like one of another user.  What users may do changes at any  *)
(* time (Grants says how).  reader[h] is the step a request is at and what *)
(* it has read; Stop ends it anywhere: refused, failed or crashed.  A      *)
(* request whose client or caller has given up runs on, like any other.    *)
(*                                                                         *)
(* AskNobody, BurnAgain, ExtendedAsAsked and UsableOnly are mutated forms  *)
(* of the definitions they precede; no action uses them.                   *)
(***************************************************************************)
EXTENDS DocumentConstants

VARIABLES
  may,      \* the pairs <<user, action>> that the Permission Service allows
  ticket,   \* DownloadTicket
  session,  \* PreviewSession
  preview,  \* the previews of the Document Security Service, by session
  reader,   \* what each request is doing
  begun,    \* requests started so far
  served    \* history: downloads answered by ticket, pages shown by session

access == <<may, ticket, session, preview, reader, begun, served>>
-----------------------------------------------------------------------------
Action == {"PREVIEW", "DOWNLOAD"}

Least(a, b) == IF a <= b THEN a ELSE b
Most(a, b) == IF a >= b THEN a ELSE b

(* `open` says that the row exists, or that the preview is in memory; one  *)
(* that was dropped keeps its pages for whoever is rendering more.         *)
NewTicket(u) == [open |-> TRUE, actor |-> u, used |-> FALSE, expired |-> FALSE]

NewSession(u, n) ==
  [open |-> TRUE, actor |-> u, pages |-> n, requests |-> 0, revoked |-> FALSE, expired |-> FALSE]

NewPreview(n) == [open |-> TRUE, pages |-> n]

(* `seen` is the page count of the row as read, `got` the one answered by  *)
(* the Document Security Service; `held` is history: what the user was     *)
(* allowed at some time while the request ran.                             *)
Done == [pc |-> "done"]

Allowed(u, m) == {a \in Action : <<u, a>> \in m}

Reading(pc, u, on, want) ==
  [pc |-> pc, user |-> u, on |-> on, want |-> want, seen |-> 0, got |-> 0, held |-> Allowed(u, may)]

Active(h) == reader[h] # Done

Init ==
  /\ may = {}
  /\ ticket = [t \in Ticket |-> [open |-> FALSE]]
  /\ session = [s \in Session |-> [open |-> FALSE]]
  /\ preview = [s \in Session |-> [open |-> FALSE, pages |-> 0]]
  /\ reader = [h \in Handler |-> Done]
  /\ begun = 0
  /\ served = [x \in Ticket \cup Session |-> 0]
-----------------------------------------------------------------------------
Begin(h, r) ==
  /\ ~Active(h)
  /\ begun < MaxRequests
  /\ begun' = begun + 1
  /\ reader' = [reader EXCEPT ![h] = r]
  /\ UNCHANGED <<may, ticket, session, preview, served>>

Become(h, r) == reader' = [reader EXCEPT ![h] = r]

To(h, pc) == Become(h, [reader[h] EXCEPT !.pc = pc])

Stop(h) ==
  /\ Active(h)
  /\ Become(h, Done)
  /\ UNCHANGED <<may, ticket, session, preview, begun, served>>

ChangeMay ==
  \E u \in User, a \in Action :
    LET m == IF <<u, a>> \in may THEN may \ {<<u, a>>} ELSE may \cup {<<u, a>>} IN
    /\ may' = m
    /\ reader' = [h \in Handler |->
                    IF Active(h) THEN [reader[h] EXCEPT !.held = @ \cup Allowed(reader[h].user, m)]
                                 ELSE Done]
    /\ UNCHANGED <<ticket, session, preview, begun, served>>

ExpireTicket(t) ==
  /\ ticket[t].open /\ ~ticket[t].expired
  /\ ticket' = [ticket EXCEPT ![t].expired = TRUE]
  /\ UNCHANGED <<may, session, preview, reader, begun, served>>

ExpireSession(s) ==
  /\ session[s].open /\ ~session[s].expired
  /\ session' = [session EXCEPT ![s].expired = TRUE]
  /\ UNCHANGED <<may, ticket, preview, reader, begun, served>>

(* A preview expires by the clock of its own service, and does not survive *)
(* that service.                                                           *)
DropPreview(s) ==
  /\ preview[s].open
  /\ preview' = [preview EXCEPT ![s].open = FALSE]
  /\ UNCHANGED <<may, ticket, session, reader, begun, served>>
-----------------------------------------------------------------------------
(* checkDocumentPermission: the step before the check needs the action,    *)
(* and a request that is allowed goes on with the step after it.           *)
Needs(pc) == IF pc \in {"askTicket", "askRedeem"} THEN "DOWNLOAD" ELSE "PREVIEW"

Then == [askTicket |-> "issue", askRedeem |-> "burn",
         askOpen |-> "prepare", askPage |-> "mark", askExtend |-> "extend"]

AskNobody(h) ==
  /\ Active(h) /\ reader[h].pc \in DOMAIN Then
  /\ To(h, Then[reader[h].pc])
  /\ UNCHANGED <<may, ticket, session, preview, begun, served>>

Ask(h) ==
  /\ Active(h) /\ reader[h].pc \in DOMAIN Then
  /\ <<reader[h].user, Needs(reader[h].pc)>> \in may
  /\ To(h, Then[reader[h].pc])
  /\ UNCHANGED <<may, ticket, session, preview, begun, served>>
-----------------------------------------------------------------------------
(* createDownloadTicket; a new ticket or session has an identifier that no *)
(* other has.                                                              *)
Fresh(x) == \A g \in Handler : Active(g) => reader[g].on # x

CreateTicket(h) ==
  \E u \in User, t \in Ticket :
    /\ ~ticket[t].open /\ Fresh(t)
    /\ Begin(h, Reading("askTicket", u, t, 0))

IssueTicket(h) ==
  LET r == reader[h] IN
  /\ r.pc = "issue"
  /\ ticket' = [ticket EXCEPT ![r.on] = NewTicket(r.user)]
  /\ Become(h, Done)
  /\ UNCHANGED <<may, session, preview, begun, served>>

(* redeemDownloadTicket *)
Redeem(h) ==
  \E u \in User, t \in Ticket :
    ticket[t].open /\ Begin(h, Reading("redeem", u, t, 0))

ReadTicket(h) ==
  LET r == reader[h] IN
  LET row == ticket[r.on] IN
  /\ r.pc = "redeem"
  /\ row.actor = r.user /\ ~row.used /\ ~row.expired
  /\ To(h, "askRedeem")
  /\ UNCHANGED <<may, ticket, session, preview, begun, served>>

(* markDownloadTicketUsed *)
BurnAgain(h) ==
  LET r == reader[h] IN
  /\ r.pc = "burn"
  /\ ticket' = [ticket EXCEPT ![r.on].used = TRUE]
  /\ To(h, "fetch")
  /\ UNCHANGED <<may, session, preview, begun, served>>

Burn(h) ==
  LET r == reader[h] IN
  /\ r.pc = "burn"
  /\ ~ticket[r.on].used
  /\ ticket' = [ticket EXCEPT ![r.on].used = TRUE]
  /\ To(h, "fetch")
  /\ UNCHANGED <<may, session, preview, begun, served>>

Serve(h) ==
  LET r == reader[h] IN
  /\ r.pc = "fetch"
  /\ served' = [served EXCEPT ![r.on] = @ + 1]
  /\ Become(h, Done)
  /\ UNCHANGED <<may, ticket, session, preview, begun>>
-----------------------------------------------------------------------------
(* createPreviewSession: the preview first, then the row that refers to it. *)
OpenPreview(h) ==
  \E u \in User, s \in Session :
    /\ preview[s].pages = 0 /\ Fresh(s)
    /\ Begin(h, Reading("askOpen", u, s, 0))

PreparePreview(h) ==
  LET r == reader[h] IN
  LET n == Least(InitialPages, Pages) IN
  /\ r.pc = "prepare"
  /\ preview' = [preview EXCEPT ![r.on] = NewPreview(n)]
  /\ Become(h, [r EXCEPT !.pc = "open", !.got = n])
  /\ UNCHANGED <<may, ticket, session, begun, served>>

(* In between it is asked whether the user may download too, which is only *)
(* told in the answer.  A preview whose expiry is not in the future is     *)
(* revoked and the request refused: DropPreview, then Stop.                *)
CreateSession(h) ==
  LET r == reader[h] IN
  /\ r.pc = "open"
  /\ session' = [session EXCEPT ![r.on] = NewSession(r.user, r.got)]
  /\ Become(h, Done)
  /\ UNCHANGED <<may, ticket, preview, begun, served>>

(* getPreviewPage, extendPreviewSession and revokePreviewSession begin by  *)
(* reading the session; the last asks for no permission.                   *)
UseSession(h) ==
  \E u \in User, s \in Session, pc \in {"page", "more", "end"}, n \in 1 .. Pages :
    /\ session[s].open
    /\ pc = "end" => n = 1
    /\ Begin(h, Reading(pc, u, s, n))

Usable(row) == ~row.revoked /\ ~row.expired

ReadSession(h) ==
  LET r == reader[h] IN
  LET row == session[r.on] IN
  /\ r.pc \in {"page", "more", "end"}
  /\ Usable(row) /\ row.actor = r.user
  /\ Become(h, [r EXCEPT !.pc = CASE r.pc = "page" -> "askPage"
                                  [] r.pc = "more" -> "askExtend"
                                  [] r.pc = "end"  -> "revoke",
                         !.seen = row.pages])
  /\ UNCHANGED <<may, ticket, session, preview, begun, served>>
-----------------------------------------------------------------------------
(* markPreviewPageRequested reads the session again, then counts the page  *)
(* by an update with conditions of its own.                                *)
ReadForPage(h) ==
  LET r == reader[h] IN
  LET row == session[r.on] IN
  /\ r.pc = "mark"
  /\ Usable(row) /\ r.want <= row.pages
  /\ To(h, "count")
  /\ UNCHANGED <<may, ticket, session, preview, begun, served>>

UsableOnly(row) == Usable(row)

Countable(row) == Usable(row) /\ row.requests < PageLimit

CountPage(h) ==
  LET r == reader[h] IN
  /\ r.pc = "count"
  /\ Countable(session[r.on])
  /\ session' = [session EXCEPT ![r.on].requests = @ + 1]
  /\ To(h, "show")
  /\ UNCHANGED <<may, ticket, preview, begun, served>>

ShowPage(h) ==
  LET r == reader[h] IN
  /\ r.pc = "show"
  /\ preview[r.on].open /\ r.want <= preview[r.on].pages
  /\ served' = [served EXCEPT ![r.on] = @ + 1]
  /\ Become(h, Done)
  /\ UNCHANGED <<may, ticket, session, preview, begun>>
-----------------------------------------------------------------------------
(* extendPreviewSession: the pages after those the row had when it was     *)
(* read, at most ExtendPages of them, are rendered ...                     *)
LastPage(r) == Least(r.want, r.seen + ExtendPages)

ExtendPreview(h) ==
  LET r == reader[h] IN
  /\ r.pc = "extend"
  /\ r.seen < LastPage(r)
  /\ preview[r.on].open
  /\ To(h, "render")
  /\ UNCHANGED <<may, ticket, session, preview, begun, served>>

(* ... and put behind those the preview has by then, dropped or not; the   *)
(* answer is how many there are.                                           *)
ExtendedAsAsked(r, n) == r.seen + ExtendPages

Extended(r, n) == Most(n, LastPage(r))

Render(h) ==
  LET r == reader[h] IN
  LET n == preview[r.on].pages IN
  /\ r.pc = "render"
  /\ preview' = [preview EXCEPT ![r.on].pages = Most(n, LastPage(r))]
  /\ Become(h, [r EXCEPT !.pc = "reread", !.got = Extended(r, n)])
  /\ UNCHANGED <<may, ticket, session, begun, served>>

(* updatePreviewSessionPageCount *)
ReadForCount(h) ==
  LET r == reader[h] IN
  LET row == session[r.on] IN
  /\ r.pc = "reread"
  /\ Usable(row)
  /\ Become(h, [r EXCEPT !.pc = "write", !.seen = row.pages])
  /\ UNCHANGED <<may, ticket, session, preview, begun, served>>

WriteCount(h) ==
  LET r == reader[h] IN
  /\ r.pc = "write"
  /\ session' = [session EXCEPT ![r.on].pages = Most(r.seen, r.got)]
  /\ Become(h, Done)
  /\ UNCHANGED <<may, ticket, preview, begun, served>>
-----------------------------------------------------------------------------
(* revokePreviewSession: the row, then the preview. *)
RevokeSession(h) ==
  LET r == reader[h] IN
  /\ r.pc = "revoke"
  /\ ~session[r.on].revoked
  /\ session' = [session EXCEPT ![r.on].revoked = TRUE]
  /\ To(h, "drop")
  /\ UNCHANGED <<may, ticket, preview, begun, served>>

RevokePreview(h) ==
  LET r == reader[h] IN
  /\ r.pc = "drop"
  /\ preview' = [preview EXCEPT ![r.on].open = FALSE]
  /\ Become(h, Done)
  /\ UNCHANGED <<may, ticket, session, begun, served>>
-----------------------------------------------------------------------------
Next ==
  \/ ChangeMay
  \/ \E t \in Ticket : ExpireTicket(t)
  \/ \E s \in Session : ExpireSession(s) \/ DropPreview(s)
  \/ \E h \in Handler :
       \/ Stop(h) \/ Ask(h)
       \/ CreateTicket(h) \/ IssueTicket(h)
       \/ Redeem(h) \/ ReadTicket(h) \/ Burn(h) \/ Serve(h)
       \/ OpenPreview(h) \/ PreparePreview(h) \/ CreateSession(h)
       \/ UseSession(h) \/ ReadSession(h)
       \/ ReadForPage(h) \/ CountPage(h) \/ ShowPage(h)
       \/ ExtendPreview(h) \/ Render(h) \/ ReadForCount(h) \/ WriteCount(h)
       \/ RevokeSession(h) \/ RevokePreview(h)

Spec == Init /\ [][Next]_access
-----------------------------------------------------------------------------
(* Rows, previews and requests are well typed; requests work on a ticket   *)
(* or a session that exists where their code relies on it.                 *)
OnTicket == {"askTicket", "issue", "redeem", "askRedeem", "burn", "fetch"}
OnSession == {"page", "more", "end", "askPage", "mark", "count", "show",
              "askExtend", "extend", "render", "reread", "write", "revoke", "drop"}

ReadingType(r) ==
  \/ r = Done
  \/ /\ r \in [pc: OnTicket \cup OnSession \cup {"askOpen", "prepare", "open"},
               user: User, on: Ticket \cup Session, want: 0 .. Pages,
               seen: 0 .. Pages, got: 0 .. Pages, held: SUBSET Action]
     /\ r.on \in IF r.pc \in OnTicket THEN Ticket ELSE Session
     /\ r.pc \in {"redeem", "askRedeem", "burn", "fetch"} => ticket[r.on].open
     /\ r.pc \in OnSession => session[r.on].open

TypeOK ==
  /\ may \subseteq User \X Action
  /\ ticket \in [Ticket -> {[open |-> FALSE]} \cup
                           [open: {TRUE}, actor: User, used: BOOLEAN, expired: BOOLEAN]]
  /\ session \in [Session -> {[open |-> FALSE]} \cup
                             [open: {TRUE}, actor: User, pages: 0 .. Pages,
                              requests: Nat, revoked: BOOLEAN, expired: BOOLEAN]]
  /\ preview \in [Session -> [open: BOOLEAN, pages: 0 .. Pages]]
  /\ DOMAIN reader = Handler
  /\ \A h \in Handler : ReadingType(reader[h])
  /\ begun \in 0 .. MaxRequests
  /\ served \in [Ticket \cup Session -> Nat]

(* A ticket is good for one download, however many requests present it at  *)
(* the same time: redeemDownloadTicket burns it before it fetches.         *)
ServedOnce == \A t \in Ticket : served[t] <= 1

(* A download is answered only if its user was allowed to download at some *)
(* time since the request was made, whoever issued the ticket and when; a  *)
(* page is shown only if its user was allowed to preview.  (A right that   *)
(* is taken away while the request runs is not noticed.)                   *)
AllowedWhenServed ==
  \A h \in Handler :
    /\ reader[h].pc = "fetch" => "DOWNLOAD" \in reader[h].held
    /\ reader[h].pc = "show" => "PREVIEW" \in reader[h].held

(* A session shows no more pages than PageLimit, however many requests for *)
(* pages run at the same time.                                             *)
WithinLimit == \A s \in Session : served[s] <= PageLimit

(* The page count in the Document Service never promises a page that the   *)
(* Document Security Service has not rendered, although the two are        *)
(* updated by different requests and an older count may overwrite a newer. *)
PagesRendered == \A s \in Session : session[s].open => session[s].pages <= preview[s].pages
=============================================================================
