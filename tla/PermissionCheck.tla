--------------------------- MODULE PermissionCheck ---------------------------
(***************************************************************************)
(* The decision of the Permission Service                                  *)
(* (permission.service.ts, check and isParentChainAlive), while grants are *)
(* made, delegated, narrowed and revoked.                                  *)
(*                                                                         *)
(* A check finds the grants of the actor, then asks for each, newest       *)
(* first, whether the document is still attached, reads the ancestors of   *)
(* the grant one by one, and judges by the grant as it was found and by    *)
(* the clock.  Everything may change between these reads.  A request that  *)
(* is decided before the first of them (an administrator who asks for      *)
(* content, an owner) reads nothing and is left out; so are the reasons of *)
(* a refusal.                                                              *)
(*                                                                         *)
(* ClimbParentOnly is a mutated form of the definition it precedes.        *)
(***************************************************************************)
EXTENDS Grants

CONSTANT Checker   \* checks that may run at the same time

VARIABLE check     \* what each check has read

(* A grant as it was found. *)
Found == [g: Id, parent: {None} \cup Id, may: BOOLEAN, eff: Time]

Nothing == [g |-> None]

(* todo: grants yet to be considered; on: the one considered; at: the      *)
(* ancestor to be read next; seen: the ancestors read; lived and linked    *)
(* are history variables: the grants that were live, and whether the       *)
(* document was attached, at some time since the check began.              *)
CheckType ==
  [pc: {"rest", "attached", "climb", "judge", "allowed"}, todo: SUBSET Found,
   on: Found \cup {Nothing}, at: {None} \cup Id, seen: SUBSET Id, lived: SUBSET Id,
   linked: BOOLEAN]

Resting == [pc |-> "rest", todo |-> {}, on |-> Nothing, at |-> None, seen |-> {},
            lived |-> {}, linked |-> FALSE]

LiveNow == {g \in Id : Exists(g) /\ Live(g)}
-----------------------------------------------------------------------------
FindGrants(c) ==
  \E a \in Participant, perm \in Permission :
    /\ check[c] = Resting
    /\ LET found == {g \in Id : Exists(g) /\ grant[g].actor = a /\ grant[g].status # "REVOKED"} IN
       /\ found # {}
       /\ check' = [check EXCEPT ![c] =
            [Resting EXCEPT !.pc = "attached", !.lived = LiveNow, !.linked = attached,
                            !.todo = {[g |-> g, parent |-> grant[g].parent,
                                       may |-> perm \in grant[g].perms,
                                       eff |-> grant[g].eff] : g \in found}]]

(* The grant considered does not do: on to the next, if there is one.      *)
NextOrNone(q) ==
  IF q.todo = {} THEN Resting
  ELSE [q EXCEPT !.pc = "attached", !.on = Nothing, !.at = None, !.seen = {}]

(* The newest grant, if its association exists. *)
AskAttached(c) ==
  /\ check[c].pc = "attached"
  /\ \E row \in check[c].todo :
       /\ \A r \in check[c].todo : r.g <= row.g
       /\ LET q == [check[c] EXCEPT !.todo = @ \ {row}] IN
          check' = [check EXCEPT ![c] =
            IF attached THEN [q EXCEPT !.pc = IF row.parent = None THEN "judge" ELSE "climb",
                                       !.on = row, !.at = row.parent]
                        ELSE NextOrNone(q)]

ClimbParentOnly(c) ==
  /\ check[c].pc = "climb"
  /\ LET q == check[c] IN
     check' = [check EXCEPT ![c] =
       IF q.at \notin q.seen /\ Exists(q.at) /\ Live(q.at)
       THEN [q EXCEPT !.pc = "judge", !.at = None, !.seen = @ \cup {q.at}]
       ELSE NextOrNone(q)]

(* isParentChainAlive reads one ancestor. *)
Climb(c) ==
  /\ check[c].pc = "climb"
  /\ LET q == check[c] IN
     check' = [check EXCEPT ![c] =
       IF q.at \notin q.seen /\ Exists(q.at) /\ Live(q.at)
       THEN [q EXCEPT !.pc = IF grant[q.at].parent = None THEN "judge" ELSE "climb",
                      !.at = grant[q.at].parent, !.seen = @ \cup {q.at}]
       ELSE NextOrNone(q)]

Judge(c) ==
  /\ check[c].pc = "judge"
  /\ LET q == check[c] IN
     check' = [check EXCEPT ![c] =
       IF q.on.eff > now /\ q.on.may THEN [q EXCEPT !.pc = "allowed"] ELSE NextOrNone(q)]

(* The answer is sent, or a call or a query failed, which refuses.         *)
AnswerCheck(c) ==
  /\ check[c] # Resting
  /\ check' = [check EXCEPT ![c] = Resting]

CheckStep(c) ==
  FindGrants(c) \/ AskAttached(c) \/ Climb(c) \/ Judge(c) \/ AnswerCheck(c)
-----------------------------------------------------------------------------
(* What a check that is under way sees of a step of the service. *)
Watched(q) ==
  IF q = Resting THEN q
  ELSE [q EXCEPT !.lived = @ \cup LiveNow', !.linked = @ \/ attached']

InitWithChecks == Init /\ check = [c \in Checker |-> Resting]

NextWithChecks ==
  \/ Next /\ check' = [c \in Checker |-> Watched(check[c])]
  \/ (\E c \in Checker : CheckStep(c)) /\ UNCHANGED vars

SpecWithChecks == InitWithChecks /\ [][NextWithChecks]_<<vars, check>>
-----------------------------------------------------------------------------
(* What a check holds of what it has read.  A row that was found stands    *)
(* for a grant that exists, and was live if its expiry is still to come;   *)
(* the ancestors that were read were live, and lead up to the one to be    *)
(* read next.                                                              *)
Honest(row, lived) ==
  Exists(row.g) /\ grant[row.g].parent = row.parent /\ (row.eff > now => row.g \in lived)

Climbed(q) ==
  /\ q.on.parent \in q.seen \cup {None, q.at}
  /\ \A h \in q.seen : /\ Exists(h) /\ h \in q.lived
                       /\ grant[h].parent \in q.seen \cup {None, q.at}

CheckOk(q) ==
  /\ q \in CheckType
  /\ q.pc = "rest" => q = Resting
  /\ q # Resting => /\ LiveNow \subseteq q.lived
                    /\ attached => q.linked
                    /\ \A row \in q.todo : Honest(row, q.lived)
  /\ q.pc \in {"climb", "judge", "allowed"} =>
       q.on \in Found /\ Honest(q.on, q.lived) /\ q.linked /\ Climbed(q)
  /\ q.pc = "attached" => q.seen = {}
  /\ q.pc = "climb" => q.at \in Id
  /\ q.pc \in {"judge", "allowed"} => q.at = None
  /\ q.pc = "allowed" => q.on.g \in q.lived

ChecksOk == check \in [Checker -> CheckType] /\ \A c \in Checker : CheckOk(check[c])

(* A check allows only by a grant that was live, unrevoked and unexpired,  *)
(* at some time while it ran, like each of its ancestors at any depth, for *)
(* a document that was attached at some time while it ran: a revocation    *)
(* that was complete, or an expiry that had passed, before the check began *)
(* is honoured even by grants which a cascade missed or did not reach, and *)
(* none of the reads in between can be told otherwise.                     *)
UseNeedsLiveAncestry ==
  \A c \in Checker : check[c].pc = "allowed" =>
    LET q == check[c] IN
    /\ q.linked
    /\ {q.on.g} \cup Ancestors[q.on.g] \subseteq q.lived
=============================================================================
