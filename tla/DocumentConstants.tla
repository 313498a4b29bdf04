------------------------- MODULE DocumentConstants -------------------------
(* What the models of the Document Service are parameterised by.           *)
EXTENDS Naturals, FiniteSets

CONSTANTS
  Handler,       \* requests that may run at the same time
  User,
  Ticket,        \* bound: download tickets
  Session,       \* bound: preview sessions
  Pages,         \* pages of the document that can be rendered
  InitialPages,  \* PREVIEW_INITIAL_PAGES
  ExtendPages,   \* PREVIEW_EXTEND_PAGES
  PageLimit,     \* page requests that a preview session allows
  File,          \* keys of objects that the versions of a document may name
  MaxPackages,   \* bound: transfer packages of the record
  MaxHolds,      \* bound: retention holds of the document
  MaxRequests,   \* bound: requests started
  MaxLate        \* bound: calls still under way whose caller has given up

NoUser == "nobody"   \* in a column for a user that is null

ASSUME DocumentAssumption ==
  /\ IsFiniteSet(Handler)
  /\ NoUser \notin User
  /\ Ticket \cap Session = {}
  /\ {Pages, InitialPages, ExtendPages} \subseteq Nat \ {0}
  /\ {PageLimit, MaxPackages, MaxHolds, MaxRequests, MaxLate} \subseteq Nat
=============================================================================
