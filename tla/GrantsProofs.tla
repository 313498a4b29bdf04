---------------------------- MODULE GrantsProofs ----------------------------
(***************************************************************************)
(* Proofs about Grants, for any number of concurrent handlers, grants,     *)
(* participants, permissions and instants.                                 *)
(***************************************************************************)
EXTENDS MCGrants, WellFoundedInduction, FiniteSetTheorems, TLAPS

(* The inductive invariant.  WithinAsked speaks of rows only; a row is     *)
(* written from what a handler read earlier, so what handlers hold has to  *)
(* be bounded too, and the rows they point at have to exist.               *)
IInv == TypeOK /\ WithinAsked /\ InFlightBounded

(* A handler's record is determined by its program counter. *)
LEMMA OpByPc ==
  ASSUME NEW o \in OpState
  PROVE  /\ o.pc = "context" => o \in ContextOp
         /\ o.pc \in {"create", "find"} => o \in ReadOp
         /\ o.pc = "insert" => o \in InsertOp
         /\ o.pc = "update" => o \in UpdateOp
         /\ o.pc = "patch" => o \in PatchOp
         /\ o.pc = "patchWrite" => o \in WriteOp
         /\ o.pc = "shorten" => o \in ShortenOp
         /\ o.pc = "delegate" => o \in DelegateOp
         /\ o.pc = "cascade" => o \in CascadeOp
         /\ o.pc = "narrow" => o \in NarrowOp
BY DEF OpState, Idle, ContextOp, ReadOp, InsertOp, UpdateOp, PatchOp, WriteOp,
       ShortenOp, DelegateOp, CascadeOp, NarrowOp

(* earliestDate returns one of its arguments, and neither is earlier.      *)
LEMMA EarliestOf ==
  ASSUME NEW a \in Nat, NEW b \in Nat
  PROVE  /\ Earliest(a, b) \in {a, b}
         /\ Earliest(a, b) <= a
         /\ Earliest(a, b) <= b
         /\ Latest(a, b) \in {a, b}
         /\ a <= Latest(a, b)
         /\ b <= Latest(a, b)
BY DEF Earliest, Latest

(* Minima of instants stay instants, and below their arguments.            *)
LEMMA TimeBelow ==
  ASSUME NEW t \in Time, NEW a \in Nat, a <= t
  PROVE  a \in Time
BY BoundsAssumption DEF Time

(* Transitivity, for the provers.                                          *)
LEMMA Below ==
  ASSUME NEW a \in Nat, NEW b \in Nat, NEW c \in Nat, a <= b, b <= c
  PROVE  a <= c
OBVIOUS

(* A row that exists has the type of a row, and never the other way round. *)
LEMMA RowExists ==
  ASSUME TypeOK, NEW g \in Id
  PROVE  /\ Exists(g) => grant[g] \in Row
         /\ grant[g] \in Row => Exists(g)
<1>1. Absent \notin Row
  BY DEF Absent, Row
<1> QED
  BY <1>1 DEF TypeOK, Exists

(* A handler that only moves on to o preserves the invariant.              *)
LEMMA ContinuePreserves ==
  ASSUME IInv, NEW w \in Worker, NEW o \in OpState, Bounded(o), Continue(w, o)
  PROVE  IInv'
<1>1. TypeOK'
  BY DEF IInv, TypeOK, Continue
<1>2. WithinAsked'
  BY DEF IInv, WithinAsked, Continue, Exists
<1>3. ParentsExist'
  BY DEF IInv, InFlightBounded, ParentsExist, Continue, Exists
<1>4. ASSUME NEW x \in Worker PROVE Bounded(op[x])'
  <2>1. op'[x] = IF x = w THEN o ELSE op[x]
    BY DEF IInv, TypeOK, Continue
  <2>2. Bounded(op'[x])
    BY <2>1 DEF IInv, InFlightBounded
  <2> QED
    BY <2>2 DEF Bounded, Continue, Exists
<1> QED
  BY <1>1, <1>2, <1>3, <1>4 DEF IInv, InFlightBounded

(* A handler that writes the tables keeps what the others hold bounded, as *)
(* long as no row disappears and what was asked for a row never shrinks.   *)
LEMMA WritePreserves ==
  ASSUME IInv, NEW w \in Worker, NEW o \in OpState,
         op' = [op EXCEPT ![w] = o],
         UNCHANGED <<now, deadline, attached, requests>>,
         events' \subseteq events,
         grant' \in [Id -> Row \cup {Absent}],
         asked' \in [Id -> Time],
         \A g \in Id : Exists(g) => Exists(g)' /\ asked[g] <= asked'[g],
         WithinAsked', ParentsExist', Bounded(o)'
  PROVE  IInv'
<1>1. TypeOK'
  BY DEF IInv, TypeOK
<1>2. ASSUME NEW x \in Worker PROVE Bounded(op[x])'
  <2>1. CASE x = w
    BY <2>1 DEF IInv, TypeOK, Bounded, Exists
  <2>2. CASE x # w
    <3>1. op'[x] = op[x] /\ op[x] \in OpState /\ Bounded(op[x])
      BY <2>2 DEF IInv, TypeOK, InFlightBounded
    <3>2. \A g \in Id : asked[g] \in Nat /\ asked'[g] \in Nat
      BY DEF IInv, TypeOK, Time
    <3> QED
      BY <3>1, <3>2, OpByPc
      DEF Bounded, InsertOp, UpdateOp, PatchOp, WriteOp, ShortenOp, DelegateOp,
          NarrowOp, Row, Time, None
  <2> QED
    BY <2>1, <2>2
<1> QED
  BY <1>1, <1>2 DEF IInv, InFlightBounded
-----------------------------------------------------------------------------
(* Steps that read and keep what they read.                                *)
LEMMA BeginPreserves ==
  ASSUME IInv, NEW w \in Worker, NEW o \in OpState, Bounded(o), Begin(w, o)
  PROVE  IInv'
<1>1. TypeOK'
  <2>1. requests' \in 0 .. MaxRequests
    BY BoundsAssumption DEF IInv, TypeOK, Begin, Count
  <2> QED
    BY <2>1 DEF IInv, TypeOK, Begin
<1>2. WithinAsked'
  BY DEF IInv, WithinAsked, Begin, Exists
<1>3. ParentsExist'
  BY DEF IInv, InFlightBounded, ParentsExist, Begin, Exists
<1>4. ASSUME NEW x \in Worker PROVE Bounded(op[x])'
  <2>1. op'[x] = IF x = w THEN o ELSE op[x]
    BY DEF IInv, TypeOK, Begin
  <2>2. Bounded(op'[x])
    BY <2>1 DEF IInv, InFlightBounded
  <2> QED
    BY <2>2 DEF Bounded, Begin, Exists
<1> QED
  BY <1>1, <1>2, <1>3, <1>4 DEF IInv, InFlightBounded

(* Steps that begin a handler.                                             *)
LEMMA StartPreserves ==
  ASSUME IInv, NEW w \in Worker,
         \/ PostGrant(w) \/ PostTaskGrant(w) \/ PatchGrant(w) \/ DelegateGrant(w)
         \/ RevokeGrant(w) \/ RevokeAll(w)
  PROVE  IInv'
<1> USE DEF IInv
<1>1. CASE PostGrant(w)
  <2>1. PICK a \in Participant, ps \in Grantable, e \in Time, p \in {None} \cup Id :
          Begin(w, [pc |-> "context", actor |-> a, by |-> "ADMIN", perms |-> ps,
                    exp |-> e, parent |-> p])
    BY <1>1 DEF PostGrant
  <2> DEFINE o == [pc |-> "context", actor |-> a, by |-> "ADMIN", perms |-> ps,
                   exp |-> e, parent |-> p]
  <2>2. o \in OpState /\ Bounded(o)
    BY DEF OpState, ContextOp, Bounded, Grantable, Grantor
  <2> QED
    BY <2>1, <2>2, BeginPreserves
<1>2. CASE PostTaskGrant(w)
  <2>1. PICK a \in Participant, ps \in Grantable, e \in Time, p \in {None} \cup Id :
          Begin(w, [pc |-> "find", actor |-> a, by |-> "EMPLOYEE", perms |-> ps,
                    exp |-> e, parent |-> p, dl |-> deadline])
    BY <1>2 DEF PostTaskGrant
  <2> DEFINE o == [pc |-> "find", actor |-> a, by |-> "EMPLOYEE", perms |-> ps,
                   exp |-> e, parent |-> p, dl |-> deadline]
  <2>2. o \in OpState /\ Bounded(o)
    BY DEF OpState, ReadOp, Bounded, Grantable, Grantor, TypeOK
  <2> QED
    BY <2>1, <2>2, BeginPreserves
<1>3. CASE PatchGrant(w)
  <2>1. PICK g \in Id, ps \in Grantable, e \in Time :
          /\ Exists(g)
          /\ Begin(w, [pc |-> "patch", perms |-> ps, exp |-> e,
                       parent |-> grant[g].parent, g |-> g])
    BY <1>3 DEF PatchGrant
  <2> DEFINE o == [pc |-> "patch", perms |-> ps, exp |-> e,
                   parent |-> grant[g].parent, g |-> g]
  <2>2. o \in OpState /\ Bounded(o)
    BY <2>1, RowExists
    DEF OpState, PatchOp, Bounded, Grantable, Row, InFlightBounded, ParentsExist
  <2> QED
    BY <2>1, <2>2, BeginPreserves
<1>4. CASE DelegateGrant(w)
  <2>1. PICK g \in Id : /\ Exists(g)
                        /\ \E a \in Participant, ps \in SUBSET grant[g].perms :
                             Begin(w, [pc |-> "delegate", actor |-> a, perms |-> ps,
                                       g |-> g, row |-> grant[g]])
    BY <1>4 DEF DelegateGrant
  <2>2. PICK a \in Participant, ps \in SUBSET grant[g].perms :
          Begin(w, [pc |-> "delegate", actor |-> a, perms |-> ps, g |-> g, row |-> grant[g]])
    BY <2>1
  <2> DEFINE o == [pc |-> "delegate", actor |-> a, perms |-> ps, g |-> g, row |-> grant[g]]
  <2>3. grant[g] \in Row
    BY <2>1, RowExists
  <2>4. ps \in SUBSET Permission
    BY <2>3 DEF Row
  <2>5. o \in OpState /\ Bounded(o)
    BY <2>1, <2>3, <2>4 DEF OpState, DelegateOp, Bounded, WithinAsked
  <2> QED
    BY <2>2, <2>5, BeginPreserves
<1>5. CASE RevokeGrant(w)
  <2>1. PICK g \in Id : Begin(w, [pc |-> "cascade", pending |-> {g}, seen |-> {}])
    BY <1>5 DEF RevokeGrant
  <2> DEFINE o == [pc |-> "cascade", pending |-> {g}, seen |-> {}]
  <2>2. o \in OpState /\ Bounded(o)
    BY DEF OpState, CascadeOp, Bounded
  <2> QED
    BY <2>1, <2>2, BeginPreserves
<1>6. CASE RevokeAll(w)
  <2> DEFINE o == [pc |-> "cascade", pending |-> {g \in Id : Exists(g)}, seen |-> {}]
  <2>1. o \in OpState /\ Bounded(o)
    BY DEF OpState, CascadeOp, Bounded
  <2>2. Begin(w, o)
    BY <1>6 DEF RevokeAll
  <2> QED
    BY <2>1, <2>2, BeginPreserves
<1> QED
  BY <1>1, <1>2, <1>3, <1>4, <1>5, <1>6
-----------------------------------------------------------------------------
(* Steps of a handler in progress that write no table.                     *)
LEMMA ReadPreserves ==
  ASSUME IInv, NEW w \in Worker,
         \/ ReadContext(w) \/ CheckCreate(w) \/ FindNone(w) \/ FindExisting(w)
         \/ CheckPatch(w) \/ CheckDelegate(w)
         \/ ShortenRead(w) \/ CascadeRead(w) \/ DeliverDeadline(w) \/ Abort(w)
  PROVE  IInv'
<1> USE DEF IInv
<1> DEFINE r == op[w]
<1>0. r \in OpState /\ Bounded(r)
  BY DEF TypeOK, InFlightBounded
<1>0a. now \in Nat /\ deadline \in Instant /\ Instant \subseteq Nat /\ Time \subseteq Nat
       /\ Never \in Nat
  BY BoundsAssumption DEF TypeOK, Time, Instant, Never
<1>1. CASE ReadContext(w)
  <2> DEFINE o == [pc |-> "create", actor |-> r.actor, by |-> r.by, perms |-> r.perms,
                   exp |-> r.exp, parent |-> r.parent, dl |-> deadline]
  <2>1. r \in ContextOp /\ Continue(w, o)
    BY <1>0, <1>1, OpByPc DEF ReadContext
  <2>2. o \in OpState /\ Bounded(o)
    BY <2>1 DEF OpState, ContextOp, ReadOp, Bounded, TypeOK
  <2> QED
    BY <2>1, <2>2, ContinuePreserves
<1>2. CASE CheckCreate(w)
  <2> DEFINE eff == Earliest(Earliest(r.exp, r.dl), ParentCap(r.parent))
             row == [actor |-> r.actor, by |-> r.by, perms |-> r.perms, exp |-> r.exp,
                     eff |-> eff, status |-> "ACTIVE", parent |-> r.parent]
             o   == [pc |-> "insert", derived |-> FALSE, row |-> row]
  <2>1. r \in ReadOp /\ Continue(w, o) /\ (r.parent # None => Exists(r.parent))
    BY <1>0, <1>2, OpByPc DEF CheckCreate
  <2>2. ParentCap(r.parent) \in Nat
    <3>1. CASE r.parent = None
      BY <3>1, <1>0a DEF ParentCap
    <3>2. CASE r.parent # None
      <4>1. r.parent \in Id
        BY <2>1, <3>2 DEF ReadOp
      <4>2. grant[r.parent] \in Row
        BY <4>1, <2>1, <3>2, RowExists
      <4> QED
        BY <3>2, <4>2, <1>0a DEF ParentCap, Row
    <3> QED
      BY <3>1, <3>2
  <2>3. r.exp \in Time /\ r.dl \in Nat
    BY <2>1, <1>0a DEF ReadOp
  <2>4. Earliest(r.exp, r.dl) \in Nat /\ Earliest(r.exp, r.dl) <= r.exp
    BY <2>3, <1>0a, EarliestOf
  <2>5. eff \in Nat /\ eff <= r.exp
    <3>1. eff \in Nat /\ eff <= Earliest(r.exp, r.dl)
      BY <2>2, <2>4, EarliestOf
    <3>2. r.exp \in Nat
      BY <2>3, <1>0a
    <3> QED
      BY <3>1, <3>2, <2>4, Below
  <2>6. eff \in Time
    BY <2>3, <2>5, TimeBelow
  <2>7. row \in Row
    BY <2>1, <2>3, <2>6 DEF Row, ReadOp
  <2>8. o \in OpState /\ Bounded(o)
    BY <2>1, <2>5, <2>7 DEF OpState, InsertOp, Bounded
  <2> QED
    BY <2>1, <2>8, ContinuePreserves
<1>3. CASE FindNone(w)
  <2> DEFINE o == [pc |-> "context", actor |-> r.actor, by |-> r.by, perms |-> r.perms,
                   exp |-> r.exp, parent |-> r.parent]
  <2>1. r \in ReadOp /\ Continue(w, o)
    BY <1>0, <1>3, OpByPc DEF FindNone
  <2>2. o \in OpState /\ Bounded(o)
    BY <2>1 DEF OpState, ContextOp, ReadOp, Bounded
  <2> QED
    BY <2>1, <2>2, ContinuePreserves
<1>4. CASE FindExisting(w)
  <2> DEFINE eff == Earliest(r.exp, r.dl)
             o(g) == [pc |-> "update", by |-> r.by, perms |-> r.perms, exp |-> r.exp,
                      eff |-> eff, g |-> g]
  <2>1. PICK g \in ActiveGrantsOf(r.actor) : Continue(w, o(g))
    BY <1>4 DEF FindExisting
  <2>2. r \in ReadOp
    BY <1>0, <1>4, OpByPc DEF FindExisting
  <2>3. g \in Id /\ Exists(g)
    BY DEF ActiveGrantsOf
  <2>4. eff \in Time /\ eff <= r.exp
    <3>1. r.exp \in Nat /\ r.dl \in Nat /\ r.exp \in Time
      BY <2>2, <1>0a DEF ReadOp
    <3>2. eff \in Nat /\ eff <= r.exp
      BY <3>1, EarliestOf
    <3> QED
      BY <3>1, <3>2, TimeBelow
  <2>5. o(g) \in OpState /\ Bounded(o(g))
    BY <2>2, <2>3, <2>4 DEF OpState, UpdateOp, ReadOp, Bounded
  <2> QED
    BY <2>1, <2>5, ContinuePreserves
<1>5. CASE CheckPatch(w)
  <2> DEFINE eff == Earliest(Earliest(r.exp, deadline), ParentCap(r.parent))
             o   == [pc |-> "patchWrite", perms |-> r.perms, exp |-> r.exp,
                     eff |-> eff, g |-> r.g]
  <2>1. r \in PatchOp /\ Continue(w, o)
    BY <1>0, <1>5, OpByPc DEF CheckPatch
  <2>2. Exists(r.g) /\ (r.parent # None => Exists(r.parent))
    BY <1>0, <1>5 DEF CheckPatch, Bounded
  <2>3. ParentCap(r.parent) \in Nat
    <3>1. CASE r.parent = None
      BY <3>1, <1>0a DEF ParentCap
    <3>2. CASE r.parent # None
      <4>1. r.parent \in Id
        BY <2>1, <3>2 DEF PatchOp
      <4>2. grant[r.parent] \in Row
        BY <4>1, <2>2, <3>2, RowExists
      <4> QED
        BY <3>2, <4>2, <1>0a DEF ParentCap, Row
    <3> QED
      BY <3>1, <3>2
  <2>4. r.exp \in Time /\ deadline \in Nat
    BY <2>1, <1>0a DEF PatchOp
  <2>5. Earliest(r.exp, deadline) \in Nat /\ Earliest(r.exp, deadline) <= r.exp
    BY <2>4, <1>0a, EarliestOf
  <2>6. eff \in Nat /\ eff <= r.exp
    <3>1. eff \in Nat /\ eff <= Earliest(r.exp, deadline)
      BY <2>3, <2>5, EarliestOf
    <3>2. r.exp \in Nat
      BY <2>4, <1>0a
    <3> QED
      BY <3>1, <3>2, <2>5, Below
  <2>7. eff \in Time
    BY <2>4, <2>6, TimeBelow
  <2>8. o \in OpState /\ Bounded(o)
    BY <2>1, <2>2, <2>6, <2>7 DEF OpState, WriteOp, PatchOp, Bounded
  <2> QED
    BY <2>1, <2>8, ContinuePreserves
<1>6. CASE CheckDelegate(w)
  <2> DEFINE row == [actor |-> r.actor, by |-> r.row.by, perms |-> r.perms,
                     exp |-> r.row.exp, eff |-> Earliest(r.row.eff, deadline),
                     status |-> "ACTIVE", parent |-> r.g]
             o   == [pc |-> "insert", derived |-> TRUE, row |-> row]
  <2>1. r \in DelegateOp /\ Continue(w, o)
    BY <1>0, <1>6, OpByPc DEF CheckDelegate
  <2>2. Exists(r.g) /\ r.row.exp <= asked[r.g] /\ r.row.eff <= asked[r.g]
    BY <1>0, <1>6 DEF CheckDelegate, Bounded
  <2>3. r.row.exp \in Time /\ r.row.eff \in Time /\ r.row.by \in Grantor /\ r.g \in Id
    BY <2>1 DEF DelegateOp, Row
  <2>4. Earliest(r.row.eff, deadline) \in Nat /\ Earliest(r.row.eff, deadline) <= r.row.eff
    BY <2>3, <1>0a, EarliestOf
  <2>5. Earliest(r.row.eff, deadline) \in Time
    BY <2>3, <2>4, TimeBelow
  <2>6. row \in Row
    BY <2>1, <2>3, <2>5 DEF Row, DelegateOp
  <2>7. asked[r.g] \in Nat
    BY <2>3, <1>0a DEF TypeOK
  <2>8. Earliest(r.row.eff, deadline) <= asked[r.g]
    <3>1. r.row.eff \in Nat
      BY <2>3, <1>0a
    <3> QED
      BY <3>1, <2>2, <2>4, <2>7, Below
  <2>9. r.g # None
    BY <2>3 DEF Id, None
  <2>10. o \in OpState /\ Bounded(o)
    BY <2>2, <2>6, <2>8, <2>9 DEF OpState, InsertOp, Bounded
  <2> QED
    BY <2>1, <2>10, ContinuePreserves
<1>7. CASE ShortenRead(w)
  <2> DEFINE cut(h) == {c \in Children(h) : grant[c].eff > r.eff}
             n(h) == [pc |-> "shorten", eff |-> r.eff,
                      pending |-> (r.pending \ {h}) \cup Children(h),
                      writes |-> cut(h)]
  <2>1. PICK h \in r.pending : Continue(w, OrIdle(n(h)))
    BY <1>7 DEF ShortenRead
  <2>2. r \in ShortenOp
    BY <1>0, <1>7, OpByPc DEF ShortenRead
  <2>3. n(h) \in ShortenOp
    BY <2>2 DEF ShortenOp, Children
  <2>4. \A c \in cut(h) : Exists(c) /\ r.eff <= asked[c]
    <3> SUFFICES ASSUME NEW c \in cut(h) PROVE Exists(c) /\ r.eff <= asked[c]
      OBVIOUS
    <3>1. c \in Id /\ Exists(c) /\ grant[c].eff > r.eff
      BY DEF Children
    <3>2. grant[c].eff \in Nat /\ r.eff \in Nat /\ asked[c] \in Nat
      BY <2>2, <3>1, <1>0a, RowExists DEF ShortenOp, Row, TypeOK
    <3>3. grant[c].eff <= asked[c]
      BY <3>1 DEF WithinAsked
    <3> QED
      BY <3>1, <3>2, <3>3
  <2>5. Bounded(n(h))
    BY <2>4 DEF Bounded
  <2>6. OrIdle(n(h)) \in OpState /\ Bounded(OrIdle(n(h)))
    BY <2>3, <2>5 DEF OrIdle, OpState, Idle, Bounded
  <2> QED
    BY <2>1, <2>6, ContinuePreserves
<1>8. CASE CascadeRead(w)
  <2> DEFINE o(h) == [pc |-> "cascade",
                      pending |-> (r.pending \cup Children(h)) \ (r.seen \cup {h}),
                      seen |-> r.seen \cup {h}]
  <2>1. PICK h \in r.pending : Continue(w, o(h))
    BY <1>8 DEF CascadeRead
  <2>2. r \in CascadeOp
    BY <1>0, <1>8, OpByPc DEF CascadeRead
  <2>3. o(h) \in OpState /\ Bounded(o(h))
    BY <2>2 DEF OpState, CascadeOp, Children, Bounded
  <2> QED
    BY <2>1, <2>3, ContinuePreserves
<1>9. CASE DeliverDeadline(w)
  <2> DEFINE due(d) == {g \in Id : /\ Exists(g) /\ grant[g].status = "ACTIVE"
                                   /\ grant[g].eff > d}
             u(d) == {[eff |-> Earliest(grant[g].exp, d), g |-> g] : g \in due(d)}
             o(d) == [pc |-> "narrow", writes |-> u(d), d |-> d]
  <2>1. PICK d \in events : Continue(w, o(d))
    BY <1>9 DEF DeliverDeadline
  <2>2. d \in Time /\ d \in Nat
    BY <1>0a DEF TypeOK
  <2>3. ASSUME NEW g \in due(d)
        PROVE  /\ g \in Id /\ Exists(g)
               /\ Earliest(grant[g].exp, d) \in Time
               /\ Earliest(grant[g].exp, d) <= asked[g]
    <3>1. grant[g].exp \in Time /\ grant[g].exp \in Nat /\ asked[g] \in Nat
      BY <1>0a, RowExists DEF Row, TypeOK
    <3>2. Earliest(grant[g].exp, d) \in {grant[g].exp, d}
          /\ Earliest(grant[g].exp, d) <= grant[g].exp
      BY <2>2, <3>1, EarliestOf
    <3>3. grant[g].exp <= asked[g]
      BY DEF WithinAsked
    <3>4. Earliest(grant[g].exp, d) \in Nat
      BY <2>2, <3>1, <3>2
    <3> QED
      BY <2>2, <3>1, <3>2, <3>3, <3>4
  <2>4. u(d) \subseteq [eff: Time, g: Id]
    BY <2>3
  <2>5. \A x \in u(d) : Exists(x.g) /\ x.eff <= asked[x.g]
    BY <2>3
  <2>6. o(d) \in OpState /\ Bounded(o(d))
    BY <2>2, <2>4, <2>5 DEF OpState, NarrowOp, Bounded
  <2> QED
    BY <2>1, <2>6, ContinuePreserves
<1>10. CASE Abort(w)
  <2>1. Idle \in OpState /\ Bounded(Idle)
    BY DEF OpState, Idle, Bounded
  <2> QED
    BY <1>10, <2>1, ContinuePreserves DEF Abort
<1> QED
  BY <1>1, <1>2, <1>3, <1>4, <1>5, <1>6, <1>7, <1>8, <1>9, <1>10
-----------------------------------------------------------------------------
(* Steps that write the tables.                                            *)
LEMMA InsertPreserves ==
  ASSUME IInv, NEW w \in Worker, Insert(w)
  PROVE  IInv'
<1> USE DEF IInv
<1> DEFINE r == op[w]
<1>1. PICK g \in Id :
        /\ ~Exists(g)
        /\ grant' = [grant EXCEPT ![g] = r.row]
        /\ asked' = [asked EXCEPT ![g] = IF r.derived THEN asked[r.row.parent]
                                                      ELSE r.row.exp]
  BY DEF Insert
<1>2. r \in InsertOp /\ Bounded(r)
  BY OpByPc DEF Insert, TypeOK, InFlightBounded
<1>3. r.row \in Row /\ r.pc = "insert"
  BY <1>2 DEF InsertOp
<1>4. r.row.exp \in Time /\ r.row.eff \in Time /\ r.row.parent \in {None} \cup Id
  BY <1>3 DEF Row
<1>5. r.row.parent # None => Exists(r.row.parent)
  BY <1>2, <1>3 DEF Bounded
<1>6. r.derived => r.row.parent \in Id
  BY <1>2, <1>3, <1>4 DEF Bounded
<1>7. grant' \in [Id -> Row \cup {Absent}]
  BY <1>1, <1>3 DEF TypeOK
<1>8. asked' \in [Id -> Time]
  BY <1>1, <1>4, <1>6 DEF TypeOK
<1>9. r.row # Absent
  BY <1>3 DEF Row, Absent
<1>10. \A h \in Id : Exists(h)' <=> (Exists(h) \/ h = g)
  BY <1>1, <1>9 DEF TypeOK, Exists
<1>11. \A h \in Id : h # g => grant'[h] = grant[h] /\ asked'[h] = asked[h]
  BY <1>1 DEF TypeOK
<1>12. \A h \in Id : asked[h] \in Nat
  BY DEF TypeOK, Time
<1>13. WithinAsked'
  <2>1. grant'[g] = r.row
    BY <1>1 DEF TypeOK
  <2>2. r.row.exp <= asked'[g] /\ r.row.eff <= asked'[g]
    <3>1. CASE r.derived
      BY <1>1, <1>2, <1>3, <3>1 DEF Bounded, TypeOK
    <3>2. CASE ~r.derived
      <4>1. asked'[g] = r.row.exp
        BY <1>1, <3>2 DEF TypeOK
      <4>2. r.row.exp \in Nat
        BY <1>4 DEF Time
      <4> QED
        BY <1>2, <1>3, <3>2, <4>1, <4>2 DEF Bounded
    <3> QED
      BY <3>1, <3>2
  <2> QED
    BY <1>10, <1>11, <2>1, <2>2 DEF WithinAsked
<1>14. ParentsExist'
  <2>1. grant'[g] = r.row
    BY <1>1 DEF TypeOK
  <2>2. ASSUME NEW h \in Id, Exists(h)', (grant[h].parent # None)'
        PROVE  (Exists(grant[h].parent))'
    <3>1. CASE h = g
      BY <1>4, <1>5, <1>10, <2>1, <2>2, <3>1 DEF Exists
    <3>2. CASE h # g
      <4>1. Exists(h) /\ grant'[h] = grant[h]
        BY <1>10, <1>11, <2>2, <3>2
      <4>2. grant[h].parent \in Id /\ Exists(grant[h].parent)
        BY <2>2, <4>1, RowExists DEF InFlightBounded, ParentsExist, Row
      <4> QED
        BY <1>10, <4>1, <4>2 DEF Exists
    <3> QED
      BY <3>1, <3>2
  <2> QED
    BY <2>2 DEF ParentsExist, Exists
<1>15. \A h \in Id : Exists(h) => Exists(h)' /\ asked[h] <= asked'[h]
  BY <1>1, <1>10, <1>11, <1>12
<1>16. Idle \in OpState /\ Bounded(Idle)'
  BY DEF OpState, Idle, Bounded
<1> QED
  BY <1>7, <1>8, <1>13, <1>14, <1>15, <1>16, WritePreserves DEF Insert

(* An update of one row that keeps its parent, and asks for x.             *)
LEMMA UpdatePreserves ==
  ASSUME IInv, NEW w \in Worker, NEW o \in OpState, NEW g \in Id, Exists(g),
         NEW row \in Row, row.parent = grant[g].parent,
         NEW x \in Time, asked[g] <= x, row.exp <= x, row.eff <= x,
         grant' = [grant EXCEPT ![g] = row],
         asked' = [asked EXCEPT ![g] = x],
         op' = [op EXCEPT ![w] = o],
         UNCHANGED <<now, deadline, attached, events, requests>>,
         Bounded(o)'
  PROVE  IInv'
<1> USE DEF IInv
<1>1. grant' \in [Id -> Row \cup {Absent}] /\ asked' \in [Id -> Time]
  BY DEF TypeOK
<1>2. row # Absent
  BY DEF Row, Absent
<1>3. \A h \in Id : Exists(h)' <=> Exists(h)
  BY <1>2 DEF TypeOK, Exists
<1>4. \A h \in Id : asked[h] \in Nat
  BY DEF TypeOK, Time
<1>5. \A h \in Id : asked[h] <= asked'[h]
  BY <1>4 DEF TypeOK
<1>6. WithinAsked'
  BY <1>3 DEF WithinAsked, TypeOK
<1>7. \A h \in Id : grant'[h].parent = grant[h].parent
  BY DEF TypeOK
<1>8. ParentsExist'
  <2>1. ASSUME NEW h \in Id, Exists(h), grant[h].parent # None
        PROVE  grant[h].parent \in Id /\ Exists(grant[h].parent)
    BY <2>1, RowExists DEF InFlightBounded, ParentsExist, Row
  <2> QED
    BY <1>3, <1>7, <2>1 DEF ParentsExist
<1> QED
  BY <1>1, <1>3, <1>5, <1>6, <1>8, WritePreserves
-----------------------------------------------------------------------------
(* createTaskScopedGrant and updateTaskDocumentGrant write the row.        *)
LEMMA RewritePreserves ==
  ASSUME IInv, NEW w \in Worker, UpdateExisting(w) \/ WritePatch(w)
  PROVE  IInv'
<1> USE DEF IInv
<1>0. PICK r \in OpState : r = op[w]
  BY DEF TypeOK
<1> DEFINE x == Latest(asked[r.g], r.exp)
           o == [pc |-> "shorten", eff |-> r.eff, pending |-> {r.g}, writes |-> {}]
<1>1. r \in OpState /\ Bounded(r) /\ r.pc \in {"update", "patchWrite"}
  BY <1>0 DEF InFlightBounded, UpdateExisting, WritePatch
<1>2. /\ r.g \in Id /\ r.perms \in SUBSET Permission
      /\ r.exp \in Time /\ r.eff \in Time
      /\ r.pc = "update" => r.by \in Grantor
  BY <1>1, OpByPc DEF UpdateOp, WriteOp
<1>3. Exists(r.g) /\ r.eff <= r.exp
  BY <1>1 DEF Bounded
<1>4. grant[r.g] \in Row
  BY <1>2, <1>3, RowExists
<1>5. /\ r.exp \in Nat /\ r.eff \in Nat /\ asked[r.g] \in Nat /\ asked[r.g] \in Time
  BY <1>2 DEF TypeOK, Time
<1>6. x \in Time /\ asked[r.g] <= x /\ r.exp <= x /\ r.eff <= x
  BY <1>2, <1>3, <1>5, EarliestOf, Below
<1>7. o \in OpState /\ Bounded(o)'
  BY <1>2 DEF OpState, ShortenOp, Bounded
<1>8. CASE UpdateExisting(w)
  <2> DEFINE row == [grant[r.g] EXCEPT !.by = r.by, !.perms = r.perms, !.exp = r.exp,
                                       !.eff = r.eff, !.status = "ACTIVE"]
  <2>1. row \in Row /\ row.parent = grant[r.g].parent /\ row.exp = r.exp /\ row.eff = r.eff
    BY <1>0, <1>2, <1>4, <1>8 DEF Row, UpdateExisting
  <2>2. /\ grant' = [grant EXCEPT ![r.g] = row]
        /\ asked' = [asked EXCEPT ![r.g] = x]
        /\ op' = [op EXCEPT ![w] = o]
        /\ UNCHANGED <<now, deadline, attached, events, requests>>
    BY <1>0, <1>8 DEF UpdateExisting
  <2> QED
    BY <1>2, <1>3, <1>6, <1>7, <2>1, <2>2, UpdatePreserves
<1>9. CASE WritePatch(w)
  <2> DEFINE row == [grant[r.g] EXCEPT !.perms = r.perms, !.exp = r.exp, !.eff = r.eff]
  <2>1. row \in Row /\ row.parent = grant[r.g].parent /\ row.exp = r.exp /\ row.eff = r.eff
    BY <1>2, <1>4 DEF Row
  <2>2. /\ grant' = [grant EXCEPT ![r.g] = row]
        /\ asked' = [asked EXCEPT ![r.g] = x]
        /\ op' = [op EXCEPT ![w] = o]
        /\ UNCHANGED <<now, deadline, attached, events, requests>>
    BY <1>0, <1>9 DEF WritePatch
  <2> QED
    BY <1>2, <1>3, <1>6, <1>7, <2>1, <2>2, UpdatePreserves
<1> QED
  BY <1>8, <1>9

(* The cascades and the deadline consumer write one expiry they read.      *)
LEMMA ExpiryPreserves ==
  ASSUME IInv, NEW w \in Worker, NEW o \in OpState, NEW g \in Id, Exists(g),
         NEW e \in Time, e <= asked[g],
         grant' = [grant EXCEPT ![g] = [@ EXCEPT !.eff = e]],
         op' = [op EXCEPT ![w] = o],
         UNCHANGED <<now, deadline, attached, events, requests, asked>>,
         Bounded(o)'
  PROVE  IInv'
<1> DEFINE row == [grant[g] EXCEPT !.eff = e]
<1>1. grant[g] \in Row
  BY RowExists DEF IInv
<1>2. row \in Row /\ row.parent = grant[g].parent /\ row.exp = grant[g].exp /\ row.eff = e
  BY <1>1 DEF Row
<1>3. asked[g] \in Time /\ asked[g] \in Nat /\ row.exp <= asked[g]
  BY <1>2 DEF IInv, TypeOK, WithinAsked, Time
<1>4. asked' = [asked EXCEPT ![g] = asked[g]] /\ asked[g] <= asked[g]
  BY <1>3 DEF IInv, TypeOK
<1> QED
  BY <1>2, <1>3, <1>4, UpdatePreserves

(* ShortenWrite writes an expiry below what was asked for the descendant.  *)
LEMMA ShortenWritePreserves ==
  ASSUME IInv, NEW w \in Worker, ShortenWrite(w)
  PROVE  IInv'
<1> USE DEF IInv
<1>0. PICK r \in OpState : r = op[w]
  BY DEF TypeOK
<1> DEFINE n(c) == Without(r, c)
<1>1. PICK c \in r.writes :
        /\ grant' = [grant EXCEPT ![c] = [@ EXCEPT !.eff = r.eff]]
        /\ op' = [op EXCEPT ![w] = OrIdle(n(c))]
  BY <1>0 DEF ShortenWrite
<1>2. r \in ShortenOp /\ Bounded(r) /\ r.pc = "shorten"
  BY <1>0, OpByPc DEF ShortenWrite, InFlightBounded
<1>3. c \in Id /\ Exists(c) /\ r.eff \in Time /\ r.eff <= asked[c]
  BY <1>2 DEF ShortenOp, Bounded
<1>4. n(c) \in ShortenOp /\ n(c).writes \subseteq r.writes /\ n(c).eff = r.eff
  BY <1>2 DEF ShortenOp, Without
<1>5. OrIdle(n(c)) \in OpState
  BY <1>4 DEF OrIdle, OpState
<1>6. \A d \in Id : Exists(d) => Exists(d)'
  <2>1. grant[c] \in Row
    BY <1>3, RowExists
  <2>2. [grant[c] EXCEPT !.eff = r.eff] # Absent
    BY <2>1 DEF Row, Absent
  <2> QED
    BY <1>1, <2>2 DEF Exists, TypeOK
<1>7. asked' = asked
  BY DEF ShortenWrite
<1>8. Bounded(n(c))'
  <2>1. n(c).pc = "shorten"
    BY <1>4 DEF ShortenOp
  <2>2. \A d \in r.writes : d \in Id /\ Exists(d) /\ r.eff <= asked[d]
    BY <1>2 DEF Bounded, ShortenOp
  <2>3. \A d \in n(c).writes : Exists(d)' /\ n(c).eff <= asked'[d]
    BY <1>4, <1>6, <1>7, <2>2
  <2> QED
    BY <2>1, <2>3 DEF Bounded, Exists
<1>9. Bounded(OrIdle(n(c)))'
  BY <1>8 DEF OrIdle, Idle, Bounded
<1>10. UNCHANGED <<now, deadline, attached, events, requests, asked>>
  BY DEF ShortenWrite
<1> QED
  BY <1>1, <1>3, <1>5, <1>9, <1>10, ExpiryPreserves

(* NarrowWrite writes an expiry below what was asked for the grant.        *)
LEMMA NarrowWritePreserves ==
  ASSUME IInv, NEW w \in Worker, NarrowWrite(w)
  PROVE  IInv'
<1> USE DEF IInv
<1>0. PICK r \in OpState : r = op[w]
  BY DEF TypeOK
<1> DEFINE n(u) == Without(r, u)
<1>1. PICK u \in r.writes :
        /\ grant' = [grant EXCEPT ![u.g] = [@ EXCEPT !.eff = u.eff]]
        /\ op' = [op EXCEPT ![w] = n(u)]
  BY <1>0 DEF NarrowWrite
<1>2. r \in NarrowOp /\ Bounded(r) /\ r.pc = "narrow"
  BY <1>0, OpByPc DEF NarrowWrite, InFlightBounded
<1>3. u.g \in Id /\ Exists(u.g) /\ u.eff \in Time /\ u.eff <= asked[u.g]
  BY <1>2 DEF NarrowOp, Bounded
<1>4. n(u) \in NarrowOp /\ n(u).writes \subseteq r.writes
  BY <1>2 DEF NarrowOp, Without
<1>5. n(u) \in OpState
  BY <1>4 DEF OpState
<1>6. \A d \in Id : Exists(d) => Exists(d)'
  <2>1. grant[u.g] \in Row
    BY <1>3, RowExists
  <2>2. [grant[u.g] EXCEPT !.eff = u.eff] # Absent
    BY <2>1 DEF Row, Absent
  <2> QED
    BY <1>1, <1>3, <2>2 DEF Exists, TypeOK
<1>7. UNCHANGED <<now, deadline, attached, events, requests, asked>>
  BY DEF NarrowWrite
<1>8. Bounded(n(u))'
  <2>1. n(u).pc = "narrow"
    BY <1>4 DEF NarrowOp
  <2>2. \A d \in r.writes : d.g \in Id /\ Exists(d.g) /\ d.eff <= asked[d.g]
    BY <1>2 DEF Bounded, NarrowOp
  <2>3. \A d \in n(u).writes : d.g \in Id /\ Exists(d.g) /\ d.eff <= asked[d.g]
    BY <1>4, <2>2
  <2> QED
    BY <1>6, <1>7, <2>1, <2>3 DEF Bounded, Exists
<1> QED
  BY <1>1, <1>3, <1>5, <1>7, <1>8, ExpiryPreserves

(* cascadeRevoke changes the status of rows and nothing else.              *)
LEMMA CascadeWritePreserves ==
  ASSUME IInv, NEW w \in Worker, CascadeWrite(w)
  PROVE  IInv'
<1> USE DEF IInv
<1>1. ASSUME NEW g \in Id
      PROVE  /\ grant'[g] \in Row \cup {Absent}
             /\ Exists(g)' <=> Exists(g)
             /\ Exists(g) => /\ grant'[g].exp = grant[g].exp
                             /\ grant'[g].eff = grant[g].eff
                             /\ grant'[g].parent = grant[g].parent
  <2>1. CASE g \in op[w].seen /\ Exists(g)
    <3>1. grant[g] \in Row /\ grant'[g] = [grant[g] EXCEPT !.status = "REVOKED"]
      BY <2>1, RowExists DEF CascadeWrite
    <3>2. grant'[g] \in Row
      BY <3>1 DEF Row
    <3>3. grant'[g] # Absent
      BY <3>2 DEF Row, Absent
    <3> QED
      BY <2>1, <3>1, <3>2, <3>3 DEF Row, Exists
  <2>2. CASE ~(g \in op[w].seen /\ Exists(g))
    BY <2>2 DEF CascadeWrite, Exists, TypeOK
  <2> QED
    BY <2>1, <2>2
<1>2. grant' \in [Id -> Row \cup {Absent}]
  BY <1>1 DEF CascadeWrite
<1>3. asked' = asked /\ asked \in [Id -> Time] /\ \A g \in Id : asked[g] \in Nat
  BY DEF CascadeWrite, TypeOK, Time
<1>4. WithinAsked'
  BY <1>1, <1>3 DEF WithinAsked
<1>5. ParentsExist'
  <2>1. ASSUME NEW g \in Id, Exists(g), grant[g].parent # None
        PROVE  grant[g].parent \in Id /\ Exists(grant[g].parent)
    BY <2>1, RowExists DEF InFlightBounded, ParentsExist, Row
  <2> QED
    BY <1>1, <2>1 DEF ParentsExist
<1>6. Idle \in OpState /\ Bounded(Idle)'
  BY DEF OpState, Idle, Bounded
<1>7. \A g \in Id : Exists(g) => Exists(g)' /\ asked[g] <= asked'[g]
  BY <1>1, <1>3
<1> QED
  BY <1>2, <1>3, <1>4, <1>5, <1>6, <1>7, WritePreserves DEF CascadeWrite

(* The consumer acknowledges; the other services and the clock move on.    *)
LEMMA EnvironmentPreserves ==
  ASSUME IInv, ChangeDeadline \/ ToggleAssociation \/ Tick \/ UNCHANGED vars
  PROVE  IInv'
<1> USE DEF IInv
<1>1. UNCHANGED <<grant, op, asked>>
  BY DEF ChangeDeadline, ToggleAssociation, Tick, vars
<1>2. TypeOK'
  <2>1. now' \in Time
    BY BoundsAssumption DEF TypeOK, Time, ChangeDeadline, ToggleAssociation, Tick, vars
  <2>2. requests' \in 0 .. MaxRequests
    BY BoundsAssumption
    DEF TypeOK, Count, ChangeDeadline, ToggleAssociation, Tick, vars
  <2>3. deadline' \in Instant /\ attached' \in BOOLEAN
    BY DEF TypeOK, ChangeDeadline, ToggleAssociation, Tick, vars
  <2>4. events' \subseteq Time
    <3>1. \A d \in Instant : d # Never => d \in Time
      BY BoundsAssumption DEF Instant, Time, Never
    <3> QED
      BY <3>1 DEF TypeOK, ChangeDeadline, ToggleAssociation, Tick, vars
  <2> QED
    BY <1>1, <2>1, <2>2, <2>3, <2>4 DEF TypeOK
<1>3. WithinAsked'
  BY <1>1 DEF WithinAsked, Exists
<1>4. InFlightBounded'
  BY <1>1 DEF InFlightBounded, ParentsExist, Bounded, Exists
<1> QED
  BY <1>2, <1>3, <1>4

(* The consumer acknowledges its event.                                    *)
LEMMA AckPreserves ==
  ASSUME IInv, NEW w \in Worker, AckDeadline(w)
  PROVE  IInv'
<1> USE DEF IInv
<1>1. UNCHANGED <<now, deadline, attached, grant, requests, asked>>
      /\ events' \subseteq events /\ op' = [op EXCEPT ![w] = Idle]
  BY DEF AckDeadline
<1>2. Idle \in OpState /\ Bounded(Idle)'
  BY DEF OpState, Idle, Bounded
<1>3. WithinAsked' /\ ParentsExist'
  BY <1>1 DEF WithinAsked, InFlightBounded, ParentsExist, Exists
<1>4. \A g \in Id : Exists(g) => Exists(g)' /\ asked[g] <= asked'[g]
  BY <1>1 DEF Exists, TypeOK, Time
<1>5. grant' \in [Id -> Row \cup {Absent}] /\ asked' \in [Id -> Time]
  BY <1>1 DEF TypeOK
<1> QED
  BY <1>1, <1>2, <1>3, <1>4, <1>5, WritePreserves
-----------------------------------------------------------------------------
(* The invariant holds at the start.                                       *)
LEMMA InitIInv == Init => IInv
<1> SUFFICES ASSUME Init PROVE IInv
  OBVIOUS
<1>1. 0 \in Time /\ MaxTime \in Instant /\ Never \in Instant
  BY BoundsAssumption DEF Time, Instant, Never
<1>2. TypeOK
  BY <1>1, BoundsAssumption DEF Init, TypeOK, OpState
<1>3. \A g \in Id : ~Exists(g)
  BY DEF Init, Exists
<1>4. \A w \in Worker : Bounded(op[w])
  BY DEF Init, Bounded, Idle
<1> QED
  BY <1>2, <1>3, <1>4 DEF IInv, WithinAsked, InFlightBounded, ParentsExist

(* Every step keeps the invariant.                                         *)
LEMMA NextIInv == IInv /\ [Next]_vars => IInv'
<1> SUFFICES ASSUME IInv, [Next]_vars PROVE IInv'
  OBVIOUS
<1>1. ASSUME NEW w \in Worker, HandlerStep(w) PROVE IInv'
  BY <1>1, StartPreserves, ReadPreserves, InsertPreserves, RewritePreserves,
     ShortenWritePreserves, NarrowWritePreserves, CascadeWritePreserves, AckPreserves
  DEF HandlerStep
<1> QED
  BY <1>1, EnvironmentPreserves DEF Next

(* Every handler step and every step of the environment keeps all          *)
(* variables in their types, whatever the number of handlers.              *)
THEOREM TypeCorrect == Spec => []TypeOK
<1>1. IInv => TypeOK
  BY DEF IInv
<1> QED
  BY <1>1, InitIInv, NextIInv, PTL DEF Spec

(* However many handlers interleave, and wherever they are cut short, no   *)
(* grant lasts beyond the widest expires_at a request ever named for it.   *)
THEOREM NeverBeyondAsked == Spec => []WithinAsked
<1>1. IInv => WithinAsked
  BY DEF IInv
<1> QED
  BY <1>1, InitIInv, NextIInv, PTL DEF Spec
-----------------------------------------------------------------------------
(* Parents are older than their children: rows are numbered as they come,  *)
(* a row is inserted after its parent, and no write changes who that is.   *)
Older ==
  \A g \in Id : Exists(g) =>
    /\ grant[g].parent < g
    /\ \A h \in Id : h < g => Exists(h)

(* What a step does to rows that were there already. *)
ParentsStay ==
  \A g \in Id : /\ Exists(g)' <=> Exists(g)
                /\ Exists(g) => grant'[g].parent = grant[g].parent

RowsKept ==
  \A g \in Id : Exists(g) => Exists(g)' /\ grant'[g].parent = grant[g].parent

(* A write of one row that keeps its parent. *)
LEMMA OneRow ==
  ASSUME TypeOK, NEW g \in Id, Exists(g), NEW row \in Row, row.parent = grant[g].parent,
         grant' = [grant EXCEPT ![g] = row]
  PROVE  ParentsStay
<1>1. row # Absent
  BY DEF Row, Absent
<1> QED
  BY <1>1 DEF ParentsStay, Exists, TypeOK

(* An expiry is written and the rest of the row stays. *)
LEMMA OneExpiry ==
  ASSUME NEW r \in Row, NEW e \in Time
  PROVE  /\ [r EXCEPT !.eff = e] \in Row
         /\ [r EXCEPT !.eff = e].parent = r.parent /\ [r EXCEPT !.eff = e].exp = r.exp
         /\ [r EXCEPT !.eff = e].eff = e /\ [r EXCEPT !.eff = e].status = r.status
BY DEF Row

(* What UpdateExisting and WritePatch write. *)
LEMMA RewriteWrites ==
  ASSUME IInv, NEW w \in Worker, UpdateExisting(w) \/ WritePatch(w)
  PROVE  \E row \in Row :
           /\ op[w].g \in Id /\ Exists(op[w].g) /\ op[w].eff \in Time
           /\ grant' = [grant EXCEPT ![op[w].g] = row]
           /\ row.parent = grant[op[w].g].parent /\ row.eff = op[w].eff
           /\ WritePatch(w) => row.status = grant[op[w].g].status
           /\ op' = [op EXCEPT ![w] = [pc |-> "shorten", eff |-> op[w].eff,
                                       pending |-> {op[w].g}, writes |-> {}]]
           /\ UNCHANGED <<now, deadline, attached, events>>
<1>0. PICK r \in OpState : r = op[w]
  BY DEF IInv, TypeOK
<1>1. Bounded(r) /\ r.pc \in {"update", "patchWrite"}
  BY <1>0 DEF IInv, InFlightBounded, UpdateExisting, WritePatch
<1>2. /\ r.g \in Id /\ r.perms \in SUBSET Permission /\ r.exp \in Time /\ r.eff \in Time
      /\ r.pc = "update" => r.by \in Grantor
  BY <1>1, OpByPc DEF UpdateOp, WriteOp
<1>3. Exists(r.g)
  BY <1>1 DEF Bounded
<1>4. grant[r.g] \in Row
  BY <1>2, <1>3, RowExists DEF IInv
<1>5. CASE UpdateExisting(w)
  <2> DEFINE row == [grant[r.g] EXCEPT !.by = r.by, !.perms = r.perms, !.exp = r.exp,
                                       !.eff = r.eff, !.status = "ACTIVE"]
  <2>1. r.pc = "update" /\ ~WritePatch(w)
    BY <1>0, <1>5 DEF UpdateExisting, WritePatch
  <2>2. row \in Row /\ row.parent = grant[r.g].parent /\ row.eff = r.eff
    BY <1>0, <1>2, <1>4, <1>5, <2>1 DEF Row
  <2>3. /\ grant' = [grant EXCEPT ![r.g] = row]
        /\ op' = [op EXCEPT ![w] = [pc |-> "shorten", eff |-> r.eff, pending |-> {r.g}, writes |-> {}]]
        /\ UNCHANGED <<now, deadline, attached, events>>
    BY <1>0, <1>5 DEF UpdateExisting
  <2> QED
    BY <1>0, <1>2, <1>3, <2>1, <2>2, <2>3
<1>6. CASE WritePatch(w)
  <2> DEFINE row == [grant[r.g] EXCEPT !.perms = r.perms, !.exp = r.exp, !.eff = r.eff]
  <2>2. row \in Row /\ row.parent = grant[r.g].parent /\ row.eff = r.eff /\ row.status = grant[r.g].status
    BY <1>2, <1>4 DEF Row
  <2>3. /\ grant' = [grant EXCEPT ![r.g] = row]
        /\ op' = [op EXCEPT ![w] = [pc |-> "shorten", eff |-> r.eff, pending |-> {r.g}, writes |-> {}]]
        /\ UNCHANGED <<now, deadline, attached, events>>
    BY <1>0, <1>6 DEF WritePatch
  <2> QED
    BY <1>0, <1>2, <1>3, <2>2, <2>3
<1> QED
  BY <1>5, <1>6

(* What ShortenWrite writes. *)
LEMMA ShortenWrites ==
  ASSUME IInv, NEW w \in Worker, ShortenWrite(w)
  PROVE  \E c \in Id, row \in Row, o \in OpState :
           /\ Exists(c) /\ op[w].eff \in Time
           /\ grant' = [grant EXCEPT ![c] = row]
           /\ row.parent = grant[c].parent /\ row.eff = op[w].eff /\ row.status = grant[c].status
           /\ op' = [op EXCEPT ![w] = o]
           /\ o = Idle \/ (o.pc = "shorten" /\ o.eff = op[w].eff)
           /\ UNCHANGED <<now, deadline, attached, events>>
<1>0. PICK r \in OpState : r = op[w]
  BY DEF IInv, TypeOK
<1>1. PICK c \in r.writes :
        /\ grant' = [grant EXCEPT ![c] = [@ EXCEPT !.eff = r.eff]]
        /\ op' = [op EXCEPT ![w] = OrIdle(Without(r, c))]
  BY <1>0 DEF ShortenWrite
<1>2. r \in ShortenOp /\ Bounded(r) /\ r.pc = "shorten"
  BY <1>0, OpByPc DEF ShortenWrite, IInv, InFlightBounded
<1>3. c \in Id /\ Exists(c) /\ r.eff \in Time
  BY <1>2 DEF ShortenOp, Bounded
<1>4. grant[c] \in Row
  BY <1>3, RowExists DEF IInv
<1>5. PICK n \in ShortenOp : n = Without(r, c) /\ n.pc = "shorten" /\ n.eff = r.eff
  <2>1. Without(r, c) \in ShortenOp /\ Without(r, c).pc = "shorten" /\ Without(r, c).eff = r.eff
    BY <1>2 DEF ShortenOp, Without
  <2> QED
    BY <2>1
<1>6. PICK o \in OpState : o = OrIdle(n) /\ (o = Idle \/ o = n)
  BY DEF OrIdle, OpState
<1>7. PICK row \in Row : row = [grant[c] EXCEPT !.eff = r.eff]
  BY <1>3, <1>4, OneExpiry
<1>8. grant' = [grant EXCEPT ![c] = row]
  BY <1>1, <1>7
<1>9. row.parent = grant[c].parent /\ row.eff = r.eff /\ row.status = grant[c].status
  BY <1>3, <1>4, <1>7, OneExpiry
<1>10. UNCHANGED <<now, deadline, attached, events>>
  BY DEF ShortenWrite
<1>11. op' = [op EXCEPT ![w] = o]
  BY <1>1, <1>5, <1>6
<1> QED
  BY <1>0, <1>3, <1>5, <1>6, <1>8, <1>9, <1>10, <1>11

(* What NarrowWrite writes. *)
LEMMA NarrowWrites ==
  ASSUME IInv, NEW w \in Worker, NarrowWrite(w)
  PROVE  \E u \in op[w].writes, row \in Row, o \in NarrowOp :
           /\ u.g \in Id /\ Exists(u.g) /\ u.eff \in Time
           /\ op[w] \in NarrowOp
           /\ grant' = [grant EXCEPT ![u.g] = row]
           /\ row.parent = grant[u.g].parent /\ row.eff = u.eff /\ row.status = grant[u.g].status
           /\ op' = [op EXCEPT ![w] = o]
           /\ o.d = op[w].d /\ o.writes = op[w].writes \ {u}
           /\ UNCHANGED <<now, deadline, attached, events>>
<1>0. PICK r \in OpState : r = op[w]
  BY DEF IInv, TypeOK
<1>1. PICK u \in r.writes :
        /\ grant' = [grant EXCEPT ![u.g] = [@ EXCEPT !.eff = u.eff]]
        /\ op' = [op EXCEPT ![w] = Without(r, u)]
  BY <1>0 DEF NarrowWrite
<1>2. r \in NarrowOp /\ Bounded(r) /\ r.pc = "narrow"
  BY <1>0, OpByPc DEF NarrowWrite, IInv, InFlightBounded
<1>3. u.g \in Id /\ Exists(u.g) /\ u.eff \in Time
  BY <1>2 DEF NarrowOp, Bounded
<1>4. grant[u.g] \in Row
  BY <1>3, RowExists DEF IInv
<1>5. PICK n \in NarrowOp : n = Without(r, u) /\ n.d = r.d /\ n.writes = r.writes \ {u}
  <2>1. Without(r, u) \in NarrowOp /\ Without(r, u).d = r.d /\ Without(r, u).writes = r.writes \ {u}
    BY <1>2 DEF NarrowOp, Without
  <2> QED
    BY <2>1
<1>7. PICK row \in Row : row = [grant[u.g] EXCEPT !.eff = u.eff]
  BY <1>3, <1>4, OneExpiry
<1>8. grant' = [grant EXCEPT ![u.g] = row]
  BY <1>1, <1>7
<1>9. row.parent = grant[u.g].parent /\ row.eff = u.eff /\ row.status = grant[u.g].status
  BY <1>3, <1>4, <1>7, OneExpiry
<1>10. UNCHANGED <<now, deadline, attached, events>>
  BY DEF NarrowWrite
<1>11. op' = [op EXCEPT ![w] = n]
  BY <1>1, <1>5
<1> QED
  BY <1>0, <1>2, <1>3, <1>5, <1>8, <1>9, <1>10, <1>11

(* What CascadeWrite writes. *)
LEMMA CascadeWrites ==
  ASSUME IInv, NEW w \in Worker, CascadeWrite(w)
  PROVE  /\ ParentsStay
         /\ \A g \in Id : Exists(g) => /\ grant'[g].eff = grant[g].eff
                                       /\ grant'[g].status \in {grant[g].status, "REVOKED"}
         /\ op' = [op EXCEPT ![w] = Idle]
         /\ UNCHANGED <<now, deadline, attached, events>>
<1>1. ASSUME NEW g \in Id
      PROVE  /\ Exists(g)' <=> Exists(g)
             /\ Exists(g) => /\ grant'[g].eff = grant[g].eff
                             /\ grant'[g].parent = grant[g].parent
                             /\ grant'[g].status \in {grant[g].status, "REVOKED"}
  <2>1. CASE g \in op[w].seen /\ Exists(g)
    <3>1. grant[g] \in Row /\ grant'[g] = [grant[g] EXCEPT !.status = "REVOKED"]
      BY <2>1, RowExists DEF CascadeWrite, IInv
    <3>2. grant'[g] \in Row
      BY <3>1 DEF Row
    <3>3. grant'[g] # Absent
      BY <3>2 DEF Row, Absent
    <3> QED
      BY <2>1, <3>1, <3>2, <3>3 DEF Row, Exists
  <2>2. CASE ~(g \in op[w].seen /\ Exists(g))
    BY <2>2 DEF CascadeWrite, Exists, IInv, TypeOK
  <2> QED
    BY <2>1, <2>2
<1>2. op' = [op EXCEPT ![w] = Idle] /\ UNCHANGED <<now, deadline, attached, events>>
  BY DEF CascadeWrite
<1> QED
  BY <1>1, <1>2 DEF ParentsStay

(* The other steps write no row. *)
LEMMA ReadsOnly ==
  ASSUME NEW w \in Worker,
         \/ PostGrant(w) \/ ReadContext(w) \/ CheckCreate(w)
         \/ PostTaskGrant(w) \/ FindNone(w) \/ FindExisting(w)
         \/ PatchGrant(w) \/ CheckPatch(w) \/ ShortenRead(w)
         \/ DelegateGrant(w) \/ CheckDelegate(w)
         \/ RevokeGrant(w) \/ RevokeAll(w) \/ CascadeRead(w)
         \/ DeliverDeadline(w) \/ AckDeadline(w) \/ Abort(w)
  PROVE  UNCHANGED grant
<1>1. ASSUME NEW o, Begin(w, o) \/ Continue(w, o) PROVE UNCHANGED grant
  BY <1>1 DEF Begin, Continue
<1>2. CASE AckDeadline(w)
  BY <1>2 DEF AckDeadline
<1>3. CASE PostGrant(w) \/ ReadContext(w) \/ CheckCreate(w)
  BY <1>1, <1>3, Zenon DEF PostGrant, ReadContext, CheckCreate
<1>4. CASE PostTaskGrant(w) \/ FindNone(w) \/ FindExisting(w)
  BY <1>1, <1>4, Zenon DEF PostTaskGrant, FindNone, FindExisting
<1>5. CASE PatchGrant(w) \/ CheckPatch(w) \/ ShortenRead(w)
  BY <1>1, <1>5, Zenon DEF PatchGrant, CheckPatch, ShortenRead
<1>6. CASE DelegateGrant(w) \/ CheckDelegate(w)
  BY <1>1, <1>6, Zenon DEF DelegateGrant, CheckDelegate
<1>7. CASE RevokeGrant(w) \/ RevokeAll(w) \/ CascadeRead(w)
  BY <1>1, <1>7, Zenon DEF RevokeGrant, RevokeAll, CascadeRead
<1>8. CASE DeliverDeadline(w) \/ Abort(w)
  BY <1>1, <1>8, Zenon DEF DeliverDeadline, Abort
<1> QED
  BY <1>2, <1>3, <1>4, <1>5, <1>6, <1>7, <1>8

(* No handler moves the clock.                                             *)
LEMMA HandlersWait ==
  ASSUME NEW w \in Worker, HandlerStep(w)
  PROVE  UNCHANGED now
<1>1. ASSUME NEW o, Begin(w, o) \/ Continue(w, o) PROVE UNCHANGED now
  BY <1>1 DEF Begin, Continue
<1>2. CASE AckDeadline(w) \/ Insert(w) \/ UpdateExisting(w) \/ WritePatch(w)
           \/ ShortenWrite(w) \/ NarrowWrite(w) \/ CascadeWrite(w)
  BY <1>2 DEF AckDeadline, Insert, UpdateExisting, WritePatch, ShortenWrite, NarrowWrite,
              CascadeWrite
<1>3. CASE PostGrant(w) \/ ReadContext(w) \/ CheckCreate(w)
  BY <1>1, <1>3, Zenon DEF PostGrant, ReadContext, CheckCreate
<1>4. CASE PostTaskGrant(w) \/ FindNone(w) \/ FindExisting(w)
  BY <1>1, <1>4, Zenon DEF PostTaskGrant, FindNone, FindExisting
<1>5. CASE PatchGrant(w) \/ CheckPatch(w) \/ ShortenRead(w)
  BY <1>1, <1>5, Zenon DEF PatchGrant, CheckPatch, ShortenRead
<1>6. CASE DelegateGrant(w) \/ CheckDelegate(w)
  BY <1>1, <1>6, Zenon DEF DelegateGrant, CheckDelegate
<1>7. CASE RevokeGrant(w) \/ RevokeAll(w) \/ CascadeRead(w)
  BY <1>1, <1>7, Zenon DEF RevokeGrant, RevokeAll, CascadeRead
<1>8. CASE DeliverDeadline(w) \/ Abort(w)
  BY <1>1, <1>8, Zenon DEF DeliverDeadline, Abort
<1> QED
  BY <1>2, <1>3, <1>4, <1>5, <1>6, <1>7, <1>8, Zenon DEF HandlerStep

(* There is no row at the start.                                           *)
LEMMA OlderInit == Init => Older
BY DEF Init, Older, Exists

(* Writes that keep the parents keep them older.                           *)
LEMMA OlderKept ==
  ASSUME Older, ParentsStay
  PROVE  Older'
BY DEF Older, ParentsStay, Exists

(* Only Insert adds a row: the first that is free, below a parent that     *)
(* exists.                                                                 *)
LEMMA InsertGrows ==
  ASSUME IInv, Older, NEW w \in Worker, Insert(w)
  PROVE  Older' /\ RowsKept
<1>0. TypeOK
  BY DEF IInv
<1>1. PICK g \in Id :
        ~Exists(g) /\ (\A h \in Id : h < g => Exists(h)) /\ grant' = [grant EXCEPT ![g] = op[w].row]
  BY DEF Insert
<1>2. PICK r \in InsertOp : r = op[w] /\ Bounded(r) /\ r.pc = "insert"
  BY OpByPc DEF Insert, IInv, TypeOK, InFlightBounded
<1>3. r.row \in Row /\ r.row # Absent /\ r.row.parent \in {None} \cup Id
  BY <1>2 DEF InsertOp, Row, Absent
<1>4. r.row.parent # None => Exists(r.row.parent)
  BY <1>2, <1>3 DEF Bounded
<1>5. r.row.parent < g
  BY <1>1, <1>3, <1>4 DEF Older, Id, None
<1>6. \A h \in Id : grant'[h] = IF h = g THEN r.row ELSE grant[h]
  BY <1>0, <1>1, <1>2 DEF TypeOK
<1>7. \A h \in Id : Exists(h)' <=> (Exists(h) \/ h = g)
  BY <1>3, <1>6 DEF Exists
<1>8. Older'
  BY <1>1, <1>5, <1>6, <1>7 DEF Older, Id
<1> QED
  BY <1>1, <1>6, <1>7, <1>8 DEF RowsKept

(* No step deletes a row, changes its parent or turns the clock back.      *)
LEMMA OlderStep ==
  IInv /\ Older /\ [Next]_vars => Older' /\ RowsKept /\ now <= now'
<1> SUFFICES ASSUME IInv, Older, [Next]_vars PROVE Older' /\ RowsKept /\ now <= now'
  OBVIOUS
<1>0. TypeOK /\ now \in Nat
  BY BoundsAssumption DEF IInv, TypeOK, Time
<1>1. ASSUME ParentsStay PROVE Older' /\ RowsKept
  BY <1>1, OlderKept DEF ParentsStay, RowsKept
<1>2. ASSUME UNCHANGED grant PROVE ParentsStay
  BY <1>2 DEF ParentsStay, Exists
<1>3. ASSUME NEW w \in Worker, HandlerStep(w) PROVE Older' /\ RowsKept
  <2>1. CASE Insert(w)
    BY <2>1, InsertGrows
  <2>2. CASE UpdateExisting(w) \/ WritePatch(w)
    BY <1>0, <1>1, <2>2, RewriteWrites, OneRow
  <2>3. CASE ShortenWrite(w)
    BY <1>0, <1>1, <2>3, ShortenWrites, OneRow
  <2>4. CASE NarrowWrite(w)
    BY <1>0, <1>1, <2>4, NarrowWrites, OneRow
  <2>5. CASE CascadeWrite(w)
    BY <1>1, <2>5, CascadeWrites
  <2> QED
    BY <1>1, <1>2, <1>3, <2>1, <2>2, <2>3, <2>4, <2>5, ReadsOnly, Zenon DEF HandlerStep
<1>4. ASSUME ChangeDeadline \/ ToggleAssociation \/ Tick \/ UNCHANGED vars PROVE UNCHANGED grant
  BY <1>4 DEF ChangeDeadline, ToggleAssociation, Tick, vars
<1>5. Older' /\ RowsKept
  BY <1>1, <1>2, <1>3, <1>4, Zenon DEF Next
<1>6. now' = now \/ now' = now + 1
  <2>1. CASE \E w \in Worker : HandlerStep(w)
    BY <2>1, HandlersWait
  <2>2. CASE ChangeDeadline \/ ToggleAssociation \/ Tick \/ UNCHANGED vars
    BY <2>2 DEF ChangeDeadline, ToggleAssociation, Tick, vars
  <2> QED
    BY <2>1, <2>2 DEF Next
<1> QED
  BY <1>0, <1>5, <1>6
-----------------------------------------------------------------------------
(* A set of natural numbers has a smallest member. *)
LEMMA SmallestIs ==
  ASSUME NEW S, S \subseteq Nat, S # {}
  PROVE  \E x \in S : \A y \in S : x <= y
<1> DEFINE less == OpToRel(<, Nat)
<1>1. IsWellFoundedOn(less, Nat)
  BY NatLessThanWellFounded
<1> HIDE DEF less
<1>2. PICK x \in S : \A y \in S : <<y, x>> \notin less
  BY <1>1, WFMin
<1>3. \A y \in S : y < x => <<y, x>> \in less
  BY DEF less, OpToRel
<1>4. \A y \in S : y \in Nat /\ x \in Nat /\ ~(y < x)
  BY <1>2, <1>3
<1> QED
  BY <1>4

(* The parent of a row, as a number below the row's. *)
LEMMA ParentBelow ==
  ASSUME TypeOK, Older, NEW g \in Id, Exists(g)
  PROVE  grant[g].parent \in 0 .. (g - 1)
<1>1. grant[g].parent \in {None} \cup Id /\ grant[g].parent < g
  BY RowExists DEF Older, Row
<1> QED
  BY <1>1, BoundsAssumption DEF Id, None

(* The recursion of Ancestors ends, since parents are older: the function  *)
(* it defines exists and satisfies its equation.                           *)
LEMMA AncestorsAre ==
  ASSUME TypeOK, Older
  PROVE  \A g \in 0 .. MaxGrants :
           Ancestors[g] = IF g = None \/ ~Exists(g) THEN {}
                          ELSE ({grant[g].parent} \ {None}) \cup Ancestors[grant[g].parent]
<1> DEFINE Solves(n, f) ==
      f = [g \in 0 .. n |-> IF g = None \/ ~Exists(g) THEN {}
                            ELSE ({grant[g].parent} \ {None}) \cup f[grant[g].parent]]
           bad == {n \in 0 .. MaxGrants : ~ \E f : Solves(n, f)}
<1>0. MaxGrants \in Nat
  BY BoundsAssumption
<1>b. bad \subseteq 0 .. MaxGrants
  OBVIOUS
<1>c. \A n \in 0 .. MaxGrants : n \notin bad <=> \E f : Solves(n, f)
  BY Zenon
<1>1. bad = {}
  <2> HIDE DEF bad
  <2> SUFFICES ASSUME bad # {} PROVE FALSE
    OBVIOUS
  <2>0. bad \subseteq Nat
    BY <1>0, <1>b
  <2>1. PICK n \in bad : \A m \in bad : n <= m
    BY <2>0, SmallestIs, Zenon
  <2>2. CASE n = 0
    <3>1. Solves(0, [g \in 0 .. 0 |-> {}])
      BY DEF None
    <3> QED
      BY <1>b, <1>c, <2>1, <2>2, <3>1, Zenon
  <2>3. CASE n # 0
    <3>1. n \in 1 .. MaxGrants /\ n - 1 \in 0 .. MaxGrants /\ n - 1 \notin bad
      BY <1>0, <1>b, <2>1, <2>3
    <3>2. PICK f : Solves(n - 1, f)
      BY <1>c, <3>1, Zenon
    <3> DEFINE top == IF ~Exists(n) THEN {} ELSE ({grant[n].parent} \ {None}) \cup f[grant[n].parent]
               h == [g \in 0 .. n |-> IF g = n THEN top ELSE f[g]]
    <3>3. \A g \in 0 .. (n - 1) : h[g] = f[g]
      BY <3>1
    <3>4. \A g \in 0 .. n : g # None /\ Exists(g) => grant[g].parent \in 0 .. (g - 1)
      BY <1>0, <3>1, ParentBelow DEF Id, None
    <3>5. \A g \in 0 .. n : g # None /\ Exists(g) => h[grant[g].parent] = f[grant[g].parent]
      BY <3>1, <3>3, <3>4
    <3>6. h[n] = top
      BY <3>1
    <3> HIDE DEF h
    <3>7. ASSUME NEW g \in 0 .. n
          PROVE  h[g] = IF g = None \/ ~Exists(g) THEN {}
                        ELSE ({grant[g].parent} \ {None}) \cup h[grant[g].parent]
      <4>1. CASE g = n
        BY <3>1, <3>5, <3>6, <4>1 DEF None
      <4>2. CASE g # n
        <5>1. g \in 0 .. (n - 1)
          BY <3>1, <4>2
        <5>2. f[g] = IF g = None \/ ~Exists(g) THEN {}
                     ELSE ({grant[g].parent} \ {None}) \cup f[grant[g].parent]
          BY <3>2, <5>1
        <5> QED
          BY <3>3, <3>5, <5>1, <5>2
      <4> QED
        BY <4>1, <4>2
    <3>8. h = [g \in 0 .. n |-> h[g]]
      BY DEF h
    <3>9. Solves(n, h)
      BY <3>7, <3>8
    <3> QED
      BY <1>b, <1>c, <2>1, <3>9, Zenon
  <2> QED
    BY <2>2, <2>3
<1>d. MaxGrants \in 0 .. MaxGrants
  BY <1>0
<1>2. \E f : Solves(MaxGrants, f)
  BY <1>1, <1>c, <1>d, Zenon
<1>3. Ancestors = CHOOSE f : Solves(MaxGrants, f)
  BY DEF Ancestors
<1>4. Solves(MaxGrants, Ancestors)
  BY <1>2, <1>3
<1> QED
  BY <1>4

(* A set of grants that holds the parent of each of its members holds all  *)
(* their ancestors.                                                        *)
LEMMA ClosedHoldsAncestors ==
  ASSUME TypeOK, Older, NEW S \in SUBSET Id,
         \A h \in S : Exists(h) /\ grant[h].parent \in S \cup {None}
  PROVE  \A h \in S : Ancestors[h] \subseteq S
<1> DEFINE bad == {h \in S : ~ (Ancestors[h] \subseteq S)}
<1>0. MaxGrants \in Nat
  BY BoundsAssumption
<1> SUFFICES ASSUME bad # {} PROVE FALSE
  OBVIOUS
<1>1. PICK g \in bad : \A m \in bad : g <= m
  <2>0. bad \subseteq S /\ S \subseteq Id /\ Id \subseteq Nat
    BY <1>0 DEF Id
  <2> HIDE DEF bad
  <2>1. bad \subseteq Nat
    BY <2>0
  <2> QED
    BY <2>1, SmallestIs, Zenon
<1>2. g \in S /\ g \in Id /\ g \in 0 .. MaxGrants /\ g # None /\ Exists(g)
  BY <1>0, <1>1 DEF Id, None
<1>3. PICK p \in 0 .. (g - 1) : p = grant[g].parent
  BY <1>2, ParentBelow
<1>4. Ancestors[g] = ({p} \ {None}) \cup Ancestors[p]
  BY <1>2, <1>3, AncestorsAre
<1>5. Ancestors[p] \subseteq S
  <2>1. CASE p = None
    <3>1. 0 \in 0 .. MaxGrants
      BY <1>0
    <3>2. Ancestors[0] = {}
      BY <3>1, AncestorsAre, Zenon DEF None
    <3> QED
      BY <2>1, <3>2 DEF None
  <2>2. CASE p # None
    <3>1. p \in S
      BY <1>2, <1>3, <2>2
    <3>2. ~(g <= p)
      BY <1>0, <1>2, <1>3 DEF Id
    <3> QED
      BY <1>1, <3>1, <3>2
  <2> QED
    BY <2>1, <2>2
<1> QED
  BY <1>1, <1>2, <1>3, <1>4, <1>5

(* A row held honestly stays honest: nothing that was seen live is         *)
(* forgotten, and an expiry that is still to come was so before.           *)
LEMMA HonestStays ==
  ASSUME TypeOK, TypeOK', RowsKept, now <= now', NEW row \in Found, NEW L, NEW M,
         Honest(row, L), L \subseteq M
  PROVE  Honest(row, M)'
<1>1. row.g \in Id /\ row.eff \in Nat /\ now \in Nat /\ now' \in Nat
  BY BoundsAssumption DEF Found, Time, TypeOK
<1>2. row.eff > now' => row.eff > now
  BY <1>1
<1> QED
  BY <1>1, <1>2 DEF Honest, RowsKept

(* A check that is under way while the service does a step. *)
LEMMA WatchedStays ==
  ASSUME TypeOK, TypeOK', RowsKept, now <= now', NEW q, CheckOk(q), NEW r, r = Watched(q)
  PROVE  CheckOk(r)'
<1>1. CASE q = Resting
  <2>1. r = Resting /\ r.pc = "rest" /\ r \in CheckType
    BY <1>1 DEF Watched, CheckOk, Resting
  <2> QED
    BY <2>1 DEF CheckOk
<1>2. CASE q # Resting
  <2>0. q \in CheckType /\ q.pc # "rest"
    BY <1>2 DEF CheckOk
  <2>1. r = [q EXCEPT !.lived = @ \cup LiveNow', !.linked = @ \/ attached']
    BY <1>2 DEF Watched
  <2>2. /\ r.pc = q.pc /\ r.todo = q.todo /\ r.on = q.on /\ r.at = q.at /\ r.seen = q.seen
        /\ r.lived = q.lived \cup LiveNow' /\ r.linked = (q.linked \/ attached')
        /\ r \in CheckType
    <3>1. LiveNow' \in SUBSET Id /\ attached' \in BOOLEAN
      BY DEF LiveNow, TypeOK
    <3>2. PICK L \in SUBSET Id : L = LiveNow'
      BY <3>1
    <3>3. PICK b \in BOOLEAN : b = (q.linked \/ attached')
      OBVIOUS
    <3>4. r = [q EXCEPT !.lived = @ \cup L, !.linked = b]
      BY <2>0, <2>1, <3>2, <3>3 DEF CheckType
    <3>5. /\ r.pc = q.pc /\ r.todo = q.todo /\ r.on = q.on /\ r.at = q.at /\ r.seen = q.seen
          /\ r.lived = q.lived \cup L
      BY <2>0, <3>4 DEF CheckType
    <3>6. r.linked = b
      BY <2>0, <3>4 DEF CheckType
    <3>7. r \in CheckType
      <4>1. q.lived \cup L \in SUBSET Id
        BY <2>0, <3>2 DEF CheckType
      <4> QED
        BY <2>0, <3>3, <3>4, <4>1 DEF CheckType
    <3> QED
      BY <3>2, <3>3, <3>5, <3>6, <3>7
  <2>3. \A row \in r.todo : Honest(row, r.lived)'
    <3>1. \A row \in q.todo : row \in Found /\ Honest(row, q.lived)
      BY <1>2, <2>0 DEF CheckOk, CheckType
    <3> QED
      BY <2>2, <3>1, HonestStays
  <2>4. ASSUME r.pc \in {"climb", "judge", "allowed"}
        PROVE  (r.on \in Found /\ Honest(r.on, r.lived) /\ r.linked /\ Climbed(r))'
    <3>1. q.on \in Found /\ Honest(q.on, q.lived) /\ q.linked /\ Climbed(q)
      BY <2>2, <2>4 DEF CheckOk
    <3>2. Honest(r.on, r.lived)'
      BY <2>2, <3>1, HonestStays
    <3>3. q.seen \subseteq Id
      BY <2>0 DEF CheckType
    <3>4. Climbed(r)'
      BY <2>2, <3>1, <3>3 DEF Climbed, RowsKept
    <3>5. r.on \in Found /\ r.linked
      BY <2>2, <3>1
    <3> QED
      BY <3>2, <3>4, <3>5
  <2>5. /\ r.pc = "climb" => r.at \in Id
        /\ r.pc \in {"judge", "allowed"} => r.at = None
        /\ r.pc = "allowed" => r.on.g \in r.lived
        /\ r.pc = "attached" => r.seen = {}
        /\ r.pc # "rest"
    BY <2>0, <2>2 DEF CheckOk
  <2>6. (LiveNow \subseteq r.lived /\ (attached => r.linked))'
    BY <2>2
  <2> QED
    BY <2>2, <2>3, <2>4, <2>5, <2>6 DEF CheckOk
<1> QED
  BY <1>1, <1>2

(* On to the next grant, or to the refusal. *)
LEMMA NextOk ==
  ASSUME NEW q \in CheckType, q # Resting, LiveNow \subseteq q.lived, attached => q.linked,
         \A row \in q.todo : Honest(row, q.lived)
  PROVE  CheckOk(NextOrNone(q))
<1>1. CASE q.todo = {}
  BY <1>1 DEF NextOrNone, CheckOk, CheckType, Resting, Nothing, None
<1>2. CASE q.todo # {}
  <2>1. PICK r : r = [q EXCEPT !.pc = "attached", !.on = Nothing, !.at = None, !.seen = {}]
    OBVIOUS
  <2>2. /\ r.pc = "attached" /\ r.todo = q.todo /\ r.lived = q.lived /\ r.linked = q.linked
        /\ r.seen = {} /\ r \in CheckType
    BY <2>1 DEF CheckType
  <2>3. NextOrNone(q) = r
    BY <1>2, <2>1 DEF NextOrNone
  <2>4. CheckOk(r)
    BY <2>2 DEF CheckOk
  <2> QED
    BY <2>3, <2>4
<1> QED
  BY <1>1, <1>2

(* A check begins. *)
LEMMA FindOk ==
  ASSUME TypeOK, ChecksOk, NEW c \in Checker, FindGrants(c)
  PROVE  \E r : CheckOk(r) /\ check' = [check EXCEPT ![c] = r]
<1>1. PICK a \in Participant, perm \in Permission :
        LET found == {g \in Id : Exists(g) /\ grant[g].actor = a /\ grant[g].status # "REVOKED"} IN
        check' = [check EXCEPT ![c] =
            [Resting EXCEPT !.pc = "attached", !.lived = LiveNow, !.linked = attached,
                            !.todo = {[g |-> g, parent |-> grant[g].parent,
                                       may |-> perm \in grant[g].perms,
                                       eff |-> grant[g].eff] : g \in found}]]
  BY DEF FindGrants
<1> DEFINE found == {g \in Id : Exists(g) /\ grant[g].actor = a /\ grant[g].status # "REVOKED"}
           rowOf(g) == [g |-> g, parent |-> grant[g].parent,
                        may |-> perm \in grant[g].perms, eff |-> grant[g].eff]
<1>2. PICK T : T = {rowOf(g) : g \in found}
  OBVIOUS
<1>3. ASSUME NEW row \in T
      PROVE  row \in Found /\ Honest(row, LiveNow)
  <2>1. PICK g \in found : row = rowOf(g)
    BY <1>2
  <2>2. g \in Id /\ Exists(g) /\ grant[g] \in Row /\ grant[g].status = "ACTIVE"
    BY <2>1, RowExists DEF Row
  <2>3. row \in Found
    BY <2>1, <2>2 DEF Found, Row
  <2>4. row.g = g /\ row.parent = grant[g].parent /\ row.eff = grant[g].eff
    BY <2>1
  <2>5. row.eff > now => g \in LiveNow
    BY <2>2, <2>4 DEF LiveNow, Live
  <2> HIDE DEF found, rowOf
  <2> QED
    BY <2>2, <2>3, <2>4, <2>5 DEF Honest
<1>4. PICK r : r = [Resting EXCEPT !.pc = "attached", !.lived = LiveNow, !.linked = attached,
                                   !.todo = T]
  OBVIOUS
<1>5. check' = [check EXCEPT ![c] = r]
  BY <1>1, <1>2, <1>4
<1> HIDE DEF found, rowOf
<1>6. LiveNow \in SUBSET Id /\ attached \in BOOLEAN /\ T \in SUBSET Found
  BY <1>3 DEF LiveNow, TypeOK
<1>7. /\ r.pc = "attached" /\ r.todo = T /\ r.lived = LiveNow /\ r.linked = attached
      /\ r.seen = {} /\ r \in CheckType
  BY <1>4, <1>6 DEF CheckType, Resting, Nothing, None
<1>8. CheckOk(r)
  BY <1>3, <1>7 DEF CheckOk
<1> QED
  BY <1>5, <1>8

(* A check goes on.  The three reads and the judgement keep what it holds. *)
LEMMA StepOk ==
  ASSUME TypeOK, ChecksOk, NEW c \in Checker, CheckStep(c)
  PROVE  \E r : CheckOk(r) /\ check' = [check EXCEPT ![c] = r]
<1>0. PICK q : q = check[c] /\ CheckOk(q) /\ q \in CheckType
  BY DEF ChecksOk, CheckOk
<1>r. ASSUME q.pc # "rest"
      PROVE  /\ q # Resting /\ LiveNow \subseteq q.lived /\ (attached => q.linked)
             /\ \A row \in q.todo : row \in Found /\ Honest(row, q.lived)
             /\ CheckOk(NextOrNone(q))
  <2>1. q # Resting
    BY <1>r DEF Resting
  <2>2. /\ LiveNow \subseteq q.lived /\ (attached => q.linked)
        /\ \A row \in q.todo : row \in Found /\ Honest(row, q.lived)
    BY <1>0, <2>1 DEF CheckOk, CheckType
  <2> QED
    BY <1>0, <2>1, <2>2, NextOk
<1>1. CASE FindGrants(c)
  BY <1>1, FindOk
<1>2. CASE AskAttached(c)
  <2>0. q.pc = "attached"
    BY <1>0, <1>2 DEF AskAttached
  <2>1. PICK row \in q.todo :
          LET p == [q EXCEPT !.todo = @ \ {row}] IN
          check' = [check EXCEPT ![c] =
            IF attached THEN [p EXCEPT !.pc = IF row.parent = None THEN "judge" ELSE "climb",
                                       !.on = row, !.at = row.parent]
                        ELSE NextOrNone(p)]
    BY <1>0, <1>2 DEF AskAttached
  <2>2. PICK p : p = [q EXCEPT !.todo = @ \ {row}]
    OBVIOUS
  <2>3. /\ p \in CheckType /\ p.pc = q.pc /\ p.lived = q.lived /\ p.linked = q.linked
        /\ p.todo = q.todo \ {row} /\ p.seen = q.seen /\ p.on = q.on
    BY <1>0, <2>2 DEF CheckType
  <2>4. row \in Found /\ Honest(row, q.lived)
    BY <1>r, <2>0
  <2>5. CASE ~attached
    <3>1. p # Resting
      BY <2>0, <2>3 DEF Resting
    <3>2. CheckOk(NextOrNone(p))
      BY <1>r, <2>0, <2>3, <3>1, NextOk
    <3> QED
      BY <2>1, <2>2, <2>5, <3>2
  <2>6. CASE attached
    <3>1. PICK r : r = [p EXCEPT !.pc = IF row.parent = None THEN "judge" ELSE "climb",
                                 !.on = row, !.at = row.parent]
      OBVIOUS
    <3>2. row.parent \in {None} \cup Id
      BY <2>4 DEF Found
    <3>3. /\ r \in CheckType /\ r.pc = (IF row.parent = None THEN "judge" ELSE "climb")
          /\ r.on = row /\ r.at = row.parent /\ r.lived = q.lived /\ r.linked = q.linked
          /\ r.todo = q.todo \ {row} /\ r.seen = q.seen
      BY <2>3, <2>4, <3>1, <3>2 DEF CheckType
    <3>4. q.seen = {}
      BY <1>0, <2>0 DEF CheckOk
    <3>5. Climbed(r)
      BY <3>3, <3>4 DEF Climbed
    <3>6. r # Resting /\ r.pc \in {"judge", "climb"}
      BY <3>3 DEF Resting
    <3>7. CheckOk(r)
      BY <1>r, <2>0, <2>4, <2>6, <3>2, <3>3, <3>5, <3>6 DEF CheckOk
    <3> QED
      BY <2>1, <2>2, <2>6, <3>1, <3>7
  <2> QED
    BY <2>5, <2>6
<1>3. CASE Climb(c)
  <2>0. q.pc = "climb"
    BY <1>0, <1>3 DEF Climb
  <2>1. check' = [check EXCEPT ![c] =
           IF q.at \notin q.seen /\ Exists(q.at) /\ Live(q.at)
           THEN [q EXCEPT !.pc = IF grant[q.at].parent = None THEN "judge" ELSE "climb",
                          !.at = grant[q.at].parent, !.seen = @ \cup {q.at}]
           ELSE NextOrNone(q)]
    BY <1>0, <1>3 DEF Climb
  <2>2. CASE ~(q.at \notin q.seen /\ Exists(q.at) /\ Live(q.at))
    BY <1>r, <2>0, <2>1, <2>2
  <2>3. CASE q.at \notin q.seen /\ Exists(q.at) /\ Live(q.at)
    <3>1. q.at \in Id /\ q.on \in Found /\ Honest(q.on, q.lived) /\ q.linked /\ Climbed(q)
      BY <1>0, <2>0 DEF CheckOk
    <3>2. q.at \in LiveNow /\ grant[q.at].parent \in {None} \cup Id
      BY <2>3, <3>1, RowExists DEF LiveNow, Row
    <3>3. PICK n \in {None} \cup Id : n = grant[q.at].parent
      BY <3>2
    <3>4. PICK r : r = [q EXCEPT !.pc = IF n = None THEN "judge" ELSE "climb",
                                 !.at = n, !.seen = @ \cup {q.at}]
      OBVIOUS
    <3>5. /\ r \in CheckType /\ r.pc = (IF n = None THEN "judge" ELSE "climb")
          /\ r.on = q.on /\ r.at = n /\ r.lived = q.lived /\ r.linked = q.linked
          /\ r.todo = q.todo /\ r.seen = q.seen \cup {q.at}
      BY <1>0, <3>1, <3>3, <3>4 DEF CheckType
    <3>6. q.at \in q.lived
      BY <1>r, <2>0, <3>2
    <3>7. Climbed(r)
      BY <2>3, <3>1, <3>3, <3>5, <3>6 DEF Climbed
    <3>8. r # Resting /\ r.pc \in {"judge", "climb"}
      BY <3>5 DEF Resting
    <3>9. CheckOk(r)
      BY <1>r, <2>0, <3>1, <3>3, <3>5, <3>7, <3>8 DEF CheckOk
    <3> QED
      BY <2>1, <2>3, <3>3, <3>4, <3>9
  <2> QED
    BY <2>2, <2>3
<1>4. CASE Judge(c)
  <2>0. q.pc = "judge"
    BY <1>0, <1>4 DEF Judge
  <2>1. check' = [check EXCEPT ![c] =
           IF q.on.eff > now /\ q.on.may THEN [q EXCEPT !.pc = "allowed"] ELSE NextOrNone(q)]
    BY <1>0, <1>4 DEF Judge
  <2>2. CASE ~(q.on.eff > now /\ q.on.may)
    BY <1>r, <2>0, <2>1, <2>2
  <2>3. CASE q.on.eff > now /\ q.on.may
    <3>1. /\ q.on \in Found /\ Honest(q.on, q.lived) /\ q.linked /\ Climbed(q)
          /\ q.at = None
      BY <1>0, <2>0 DEF CheckOk
    <3>2. PICK r : r = [q EXCEPT !.pc = "allowed"]
      OBVIOUS
    <3>3. /\ r \in CheckType /\ r.pc = "allowed" /\ r.on = q.on /\ r.at = q.at
          /\ r.lived = q.lived /\ r.linked = q.linked /\ r.todo = q.todo /\ r.seen = q.seen
      BY <1>0, <3>2 DEF CheckType
    <3>4. Climbed(r) /\ r # Resting
      BY <3>1, <3>3 DEF Climbed, Resting
    <3>5. q.on.g \in q.lived
      BY <2>3, <3>1 DEF Honest
    <3>6. CheckOk(r)
      BY <1>r, <2>0, <3>1, <3>3, <3>4, <3>5 DEF CheckOk
    <3> QED
      BY <2>1, <2>3, <3>2, <3>6
  <2> QED
    BY <2>2, <2>3
<1>5. CASE AnswerCheck(c)
  <2>1. CheckOk(Resting)
    BY DEF CheckOk, CheckType, Resting, Nothing, None
  <2> QED
    BY <1>5, <2>1 DEF AnswerCheck
<1> QED
  BY <1>1, <1>2, <1>3, <1>4, <1>5 DEF CheckStep

(* The inductive invariant of the service and the checks. *)
CheckInv == IInv /\ Older /\ ChecksOk

(* No check is under way at the start. *)
LEMMA CheckInit == InitWithChecks => CheckInv
<1>1. CheckOk(Resting)
  BY DEF CheckOk, CheckType, Resting, Nothing, None
<1>2. Resting \in CheckType
  BY DEF CheckType, Resting, Nothing, None
<1> QED
  BY <1>1, <1>2, InitIInv, OlderInit DEF InitWithChecks, CheckInv, ChecksOk

(* A step of the service is watched by all checks; a step of a check       *)
(* changes that check alone.                                               *)
LEMMA CheckNext == CheckInv /\ [NextWithChecks]_<<vars, check>> => CheckInv'
<1> SUFFICES ASSUME CheckInv, [NextWithChecks]_<<vars, check>> PROVE CheckInv'
  OBVIOUS
<1>1. IInv' /\ Older' /\ RowsKept /\ now <= now' /\ TypeOK /\ TypeOK'
  <2>1. [Next]_vars
    BY DEF NextWithChecks, vars
  <2> QED
    BY <2>1, NextIInv, OlderStep DEF CheckInv, IInv
<1>2. ASSUME Next, check' = [c \in Checker |-> Watched(check[c])] PROVE ChecksOk'
  <2>0. PICK n : n = check'
    OBVIOUS
  <2>1. ASSUME NEW c \in Checker PROVE CheckOk(n[c])'
    <3>1. PICK q : q = check[c]
      OBVIOUS
    <3>2. PICK r : r = Watched(q)
      OBVIOUS
    <3>3. CheckOk(q) /\ n[c] = r
      BY <1>2, <2>0, <3>1, <3>2 DEF CheckInv, ChecksOk
    <3>4. CheckOk(r)'
      BY <1>1, <3>2, <3>3, WatchedStays
    <3> QED
      BY <3>3, <3>4
  <2>2. \A c \in Checker : n[c] \in CheckType
    BY <2>1 DEF CheckOk
  <2>3. n = [c \in Checker |-> n[c]]
    BY <1>2, <2>0
  <2>4. check' \in [Checker -> CheckType]
    BY <2>0, <2>2, <2>3
  <2> QED
    BY <2>0, <2>1, <2>4 DEF ChecksOk
<1>3. ASSUME UNCHANGED vars, NEW r, CheckOk(r) PROVE CheckOk(r)'
  BY <1>3 DEF CheckOk, Climbed, Honest, LiveNow, Live, Exists, vars
<1>4. ASSUME UNCHANGED vars, NEW c \in Checker, CheckStep(c) PROVE ChecksOk'
  <2>1. PICK r : CheckOk(r) /\ check' = [check EXCEPT ![c] = r]
    BY <1>1, <1>4, StepOk DEF CheckInv
  <2>2. \A d \in Checker : CheckOk(check'[d])
    BY <2>1 DEF CheckInv, ChecksOk
  <2> QED
    BY <1>3, <1>4, <2>1, <2>2 DEF CheckInv, ChecksOk, CheckOk
<1>5. CASE UNCHANGED <<vars, check>>
  <2>1. PICK n : n = check
    OBVIOUS
  <2>2. ASSUME NEW c \in Checker PROVE CheckOk(n[c])'
    BY <1>3, <1>5, <2>1 DEF CheckInv, ChecksOk
  <2> QED
    BY <1>1, <1>5, <2>1, <2>2 DEF CheckInv, ChecksOk
<1> QED
  BY <1>1, <1>2, <1>4, <1>5 DEF NextWithChecks, CheckInv

(* A check that allows has seen, while it ran, the document attached, the  *)
(* grant live and every ancestor live, whatever the handlers did between   *)
(* its reads.                                                              *)
THEOREM UseIsOfTheLiving == SpecWithChecks => []UseNeedsLiveAncestry
<1>1. CheckInv => UseNeedsLiveAncestry
  <2> SUFFICES ASSUME CheckInv, NEW c \in Checker, NEW q, q = check[c], q.pc = "allowed"
               PROVE  q.linked /\ {q.on.g} \cup Ancestors[q.on.g] \subseteq q.lived
    BY DEF UseNeedsLiveAncestry
  <2>0. TypeOK /\ Older /\ MaxGrants \in Nat
    BY BoundsAssumption DEF CheckInv, IInv
  <2>1. /\ q \in CheckType /\ q.linked /\ q.on \in Found /\ Honest(q.on, q.lived)
        /\ Climbed(q) /\ q.at = None /\ q.on.g \in q.lived
    BY DEF CheckInv, ChecksOk, CheckOk
  <2>2. /\ q.seen \in SUBSET Id
        /\ \A h \in q.seen : Exists(h) /\ grant[h].parent \in q.seen \cup {None}
        /\ q.seen \subseteq q.lived /\ q.on.parent \in q.seen \cup {None}
    BY <2>1 DEF CheckType, Climbed
  <2>3. \A h \in q.seen : Ancestors[h] \subseteq q.seen
    BY <2>0, <2>2, ClosedHoldsAncestors
  <2>4. PICK g \in Id : g = q.on.g
    BY <2>1 DEF Found
  <2>5. PICK p \in {None} \cup q.seen : p = q.on.parent
    BY <2>2
  <2>6. g \in 0 .. MaxGrants /\ g # None /\ Exists(g) /\ grant[g].parent = p
    BY <2>0, <2>1, <2>4, <2>5 DEF Id, None, Honest
  <2>7. Ancestors[g] = ({p} \ {None}) \cup Ancestors[p]
    BY <2>0, <2>6, AncestorsAre
  <2>8. Ancestors[p] \subseteq q.seen
    <3>1. 0 \in 0 .. MaxGrants
      BY <2>0
    <3>2. Ancestors[0] = {}
      BY <2>0, <3>1, AncestorsAre, Zenon DEF None
    <3> QED
      BY <2>3, <2>5, <3>2 DEF None
  <2> QED
    BY <2>1, <2>2, <2>4, <2>5, <2>7, <2>8
<1> QED
  BY <1>1, CheckInit, CheckNext, PTL DEF SpecWithChecks
-----------------------------------------------------------------------------
(* Handlers one at a time.  What is proved here is what the interleavings  *)
(* of the service may break: it holds as long as at most one handler is in *)
(* progress, while deadlines change, events arrive in any order and are    *)
(* redelivered, and handlers are cut short anywhere.                       *)
Alone == \A w, x \in Worker : (op[w] # Idle /\ op[x] # Idle) => w = x

(* An expiry past the deadline is excused by the event that is to come. *)
Announced(x) == x > deadline => deadline \in events

(* A handler holds no expiry that is not excused, shares again only a      *)
(* grant that is active, and narrows all grants that outlast its event.    *)
HeldOk(o) ==
  /\ o.pc \in {"create", "find"} => Announced(o.dl)
  /\ o.pc = "insert" => Announced(o.row.eff)
  /\ o.pc \in {"update", "patchWrite", "shorten"} => Announced(o.eff)
  /\ o.pc = "update" => grant[o.g].status = "ACTIVE"
  /\ o.pc = "narrow" =>
       /\ \A u \in o.writes : Announced(u.eff) /\ u.eff <= o.d
       /\ \A g \in Id : (Exists(g) /\ grant[g].status = "ACTIVE" /\ grant[g].eff > o.d)
                           => \E u \in o.writes : u.g = g

SerialInv == Alone /\ (\A w \in Worker : HeldOk(op[w])) /\ DeadlineHonoured

(* A step of handler w, which was or is in progress. *)
StepOf(w, o) ==
  /\ op' = [op EXCEPT ![w] = o]
  /\ o # Idle \/ op[w] # Idle

Quiet == UNCHANGED <<grant, deadline, events>>

(* A set of at most one member.                                            *)
LEMMA AtMostOne ==
  ASSUME NEW S, NEW a, NEW b, S \subseteq {a, b}, Cardinality(S) <= 1
  PROVE  \A x, y \in S : x = y
<1> SUFFICES ASSUME NEW x \in S, NEW y \in S, x # y PROVE FALSE
  OBVIOUS
<1>1. S = {x} \cup {y}
  OBVIOUS
<1>2. IsFiniteSet({x}) /\ Cardinality({x}) = 1
  BY FS_Singleton
<1>3. Cardinality({x} \cup {y}) = 2
  BY <1>2, FS_AddElement
<1> QED
  BY <1>1, <1>3

(* A step that leaves at most one handler in progress.                     *)
LEMMA AloneStep ==
  ASSUME TypeOK, Alone, Serial, NEW w \in Worker, NEW o, StepOf(w, o)
  PROVE  Alone'
<1>1. \A x \in Worker : op'[x] = IF x = w THEN o ELSE op[x]
  BY DEF TypeOK, StepOf
<1> DEFINE busy == {x \in Worker : op'[x] # Idle}
<1>2. \E a : busy \subseteq {a, w}
  <2>1. CASE \E a \in Worker : op[a] # Idle
    <3>1. PICK a \in Worker : op[a] # Idle
      BY <2>1
    <3>2. busy \subseteq {a, w}
      BY <1>1, <3>1 DEF Alone
    <3> QED
      BY <3>2
  <2>2. CASE ~ \E a \in Worker : op[a] # Idle
    BY <1>1, <2>2
  <2> QED
    BY <2>1, <2>2
<1>3. Cardinality(busy) <= 1
  BY DEF Serial
<1>4. \A x, y \in busy : x = y
  BY <1>2, <1>3, AtMostOne
<1> QED
  BY <1>4 DEF Alone

(* After a step of a handler the others are idle, and hold nothing. *)
LEMMA HeldStep ==
  ASSUME TypeOK, Alone, Alone', NEW w \in Worker, NEW o, StepOf(w, o), HeldOk(o)'
  PROVE  (\A x \in Worker : HeldOk(op[x]))'
<1>1. \A x \in Worker : op'[x] = IF x = w THEN o ELSE op[x]
  BY DEF TypeOK, StepOf
<1>2. \A x \in Worker : x # w => op'[x] = Idle
  BY <1>1 DEF Alone, StepOf
<1>3. ASSUME NEW x \in Worker PROVE HeldOk(op[x])'
  <2>1. CASE x = w
    BY <1>1, <2>1 DEF HeldOk, Announced, Exists
  <2>2. CASE x # w
    BY <1>2, <2>2 DEF HeldOk, Idle
  <2> QED
    BY <2>1, <2>2
<1> QED
  BY <1>3

(* A handler at these points holds no expiry.                              *)
LEMMA HeldNothing ==
  ASSUME NEW o, o.pc \in {"idle", "context", "patch", "delegate", "cascade"}
  PROVE  HeldOk(o)'
BY DEF HeldOk

(* A handler that ends, or is cut short. *)
LEMMA IdleHolds ==
  ASSUME NEW w \in Worker, op[w] # Idle, op' = [op EXCEPT ![w] = Idle]
  PROVE  \E o : o = Idle /\ StepOf(w, o) /\ HeldOk(o)'
<1>1. PICK o : o = Idle
  OBVIOUS
<1>2. o.pc = "idle"
  BY <1>1 DEF Idle
<1>3. StepOf(w, o)
  BY <1>1 DEF StepOf
<1>4. HeldOk(o)'
  BY <1>2, HeldNothing
<1> QED
  BY <1>1, <1>3, <1>4

(* Steps that begin a handler or read.  What it then holds is excused as   *)
(* what it held before was.                                                *)
LEMMA StartHolds ==
  ASSUME NEW w \in Worker,
         \/ PostGrant(w) \/ PatchGrant(w) \/ DelegateGrant(w)
         \/ RevokeGrant(w) \/ RevokeAll(w) \/ CascadeRead(w) \/ FindNone(w) \/ Abort(w)
  PROVE  Quiet /\ \E o : StepOf(w, o) /\ HeldOk(o)'
<1>1. ASSUME NEW o, Begin(w, o) \/ Continue(w, o), o.pc \in {"context", "patch", "delegate", "cascade"}
      PROVE  Quiet /\ StepOf(w, o) /\ HeldOk(o)'
  <2>1. o # Idle
    BY <1>1 DEF Idle
  <2>2. Quiet /\ op' = [op EXCEPT ![w] = o]
    BY <1>1 DEF Begin, Continue, Quiet
  <2> QED
    BY <1>1, <2>1, <2>2, HeldNothing DEF StepOf
<1>2. CASE PostGrant(w)
  <2>1. PICK a \in Participant, ps \in Grantable, e \in Time, p \in {None} \cup Id :
          Begin(w, [pc |-> "context", actor |-> a, by |-> "ADMIN", perms |-> ps,
                    exp |-> e, parent |-> p])
    BY <1>2, Zenon DEF PostGrant
  <2> QED
    BY <1>1, <2>1
<1>3. CASE PatchGrant(w)
  <2>1. PICK g \in Id, ps \in Grantable, e \in Time :
          Begin(w, [pc |-> "patch", perms |-> ps, exp |-> e, parent |-> grant[g].parent, g |-> g])
    BY <1>3, Zenon DEF PatchGrant
  <2> QED
    BY <1>1, <2>1
<1>4. CASE DelegateGrant(w)
  <2>1. PICK g, a, ps :
          Begin(w, [pc |-> "delegate", actor |-> a, perms |-> ps, g |-> g, row |-> grant[g]])
    BY <1>4, Zenon DEF DelegateGrant
  <2> QED
    BY <1>1, <2>1
<1>5. CASE RevokeGrant(w) \/ RevokeAll(w)
  <2>1. PICK S : Begin(w, [pc |-> "cascade", pending |-> S, seen |-> {}])
    BY <1>5, Zenon DEF RevokeGrant, RevokeAll
  <2> QED
    BY <1>1, <2>1
<1>6. CASE CascadeRead(w)
  <2>1. PICK S, T : Continue(w, [pc |-> "cascade", pending |-> S, seen |-> T])
    BY <1>6, Zenon DEF CascadeRead
  <2> QED
    BY <1>1, <2>1
<1>7. CASE FindNone(w)
  <2>1. PICK r : Continue(w, [pc |-> "context", actor |-> r.actor, by |-> r.by, perms |-> r.perms,
                              exp |-> r.exp, parent |-> r.parent])
    BY <1>7, Zenon DEF FindNone
  <2> QED
    BY <1>1, <2>1
<1>8. CASE Abort(w)
  <2>1. op[w] # Idle /\ op' = [op EXCEPT ![w] = Idle] /\ Quiet
    BY <1>8 DEF Abort, Continue, Quiet
  <2> QED
    BY <2>1, IdleHolds
<1> QED
  BY <1>2, <1>3, <1>4, <1>5, <1>6, <1>7, <1>8

(* An expiry up to the deadline, or up to one that is excused, is excused. *)
LEMMA AnnouncedBelow ==
  ASSUME TypeOK, NEW x \in Instant, NEW y \in Instant, y <= x, x <= deadline \/ Announced(x)
  PROVE  Announced(y)
BY BoundsAssumption DEF TypeOK, Announced, Instant, Never

(* Steps that read the deadline or compute an expiry: it is at most the    *)
(* deadline as it was read, and if the deadline has moved since, the event *)
(* that announced the move is still unread, for nobody else is there to    *)
(* read it.                                                                *)
LEMMA ReadHolds ==
  ASSUME IInv, SerialInv, NEW w \in Worker,
         \/ PostTaskGrant(w) \/ ReadContext(w) \/ CheckCreate(w) \/ FindExisting(w)
         \/ CheckPatch(w) \/ CheckDelegate(w) \/ ShortenRead(w)
  PROVE  Quiet /\ \E o : StepOf(w, o) /\ HeldOk(o)'
<1>0. TypeOK /\ deadline \in Instant /\ Announced(deadline)
  BY BoundsAssumption DEF IInv, TypeOK, Announced, Instant
<1>1. ASSUME NEW o, Begin(w, o) \/ Continue(w, o), o.pc # "idle", HeldOk(o)
      PROVE  Quiet /\ StepOf(w, o) /\ HeldOk(o)'
  <2>1. o # Idle
    BY <1>1 DEF Idle
  <2>2. Quiet /\ op' = [op EXCEPT ![w] = o]
    BY <1>1 DEF Begin, Continue, Quiet
  <2>3. HeldOk(o)'
    BY <1>1, <2>2 DEF HeldOk, Announced, Exists, Quiet
  <2> QED
    BY <2>1, <2>2, <2>3 DEF StepOf
<1>2. PICK r \in OpState : r = op[w] /\ HeldOk(r) /\ Bounded(r)
  BY DEF IInv, TypeOK, SerialInv, InFlightBounded
<1>3. ASSUME NEW o, o.pc \in {"create", "find"}, Announced(o.dl) PROVE HeldOk(o)
  BY <1>3 DEF HeldOk
<1>4. ASSUME NEW o, o.pc = "insert", Announced(o.row.eff) PROVE HeldOk(o)
  BY <1>4 DEF HeldOk
<1>5. ASSUME NEW o, o.pc \in {"patchWrite", "shorten"}, Announced(o.eff) PROVE HeldOk(o)
  BY <1>5 DEF HeldOk
<1>6. CASE PostTaskGrant(w)
  <2>1. PICK a \in Participant, ps \in Grantable, e \in Time, p \in {None} \cup Id :
          Begin(w, [pc |-> "find", actor |-> a, by |-> "EMPLOYEE", perms |-> ps,
                    exp |-> e, parent |-> p, dl |-> deadline])
    BY <1>6, Zenon DEF PostTaskGrant
  <2> QED
    BY <1>0, <1>1, <1>3, <2>1
<1>7. CASE ReadContext(w)
  <2>1. Continue(w, [pc |-> "create", actor |-> r.actor, by |-> r.by, perms |-> r.perms,
                     exp |-> r.exp, parent |-> r.parent, dl |-> deadline])
    BY <1>2, <1>7, Zenon DEF ReadContext
  <2> QED
    BY <1>0, <1>1, <1>3, <2>1
<1>8. CASE CheckCreate(w)
  <2> DEFINE e == Earliest(Earliest(r.exp, r.dl), ParentCap(r.parent))
  <2>1. Continue(w, [pc |-> "insert", derived |-> FALSE,
                     row |-> [actor |-> r.actor, by |-> r.by, perms |-> r.perms,
                              exp |-> r.exp, eff |-> e, status |-> "ACTIVE",
                              parent |-> r.parent]])
    BY <1>2, <1>8, Zenon DEF CheckCreate
  <2>2. r \in ReadOp /\ r.pc = "create" /\ (r.parent # None => Exists(r.parent))
    BY <1>2, <1>8, OpByPc DEF CheckCreate
  <2>3. r.exp \in Time /\ r.dl \in Instant /\ r.parent \in {None} \cup Id
    BY <2>2 DEF ReadOp
  <2>4. r.parent # None => grant[r.parent] \in Row
    BY <1>0, <2>2, <2>3, RowExists
  <2>5. ParentCap(r.parent) \in Instant
    BY <2>3, <2>4, BoundsAssumption DEF ParentCap, Row, Instant, Time, Never
  <2>6. e \in Instant /\ e <= r.dl
    BY <2>3, <2>5, BoundsAssumption DEF Earliest, Instant, Time, Never
  <2>7. Announced(e)
    BY <1>0, <1>2, <2>2, <2>3, <2>6, AnnouncedBelow DEF HeldOk
  <2> HIDE DEF e
  <2> QED
    BY <1>1, <1>4, <2>1, <2>7
<1>9. CASE FindExisting(w)
  <2> DEFINE e == Earliest(r.exp, r.dl)
  <2>1. PICK g \in ActiveGrantsOf(r.actor) :
          Continue(w, [pc |-> "update", by |-> r.by, perms |-> r.perms, exp |-> r.exp, eff |-> e, g |-> g])
    BY <1>2, <1>9, Zenon DEF FindExisting
  <2>2. r \in ReadOp /\ r.pc = "find"
    BY <1>2, <1>9, OpByPc DEF FindExisting
  <2>3. r.exp \in Time /\ r.dl \in Instant
    BY <2>2 DEF ReadOp
  <2>4. e \in Instant /\ e <= r.dl
    BY <2>3, BoundsAssumption DEF Earliest, Instant, Time, Never
  <2>5. Announced(e)
    BY <1>0, <1>2, <2>2, <2>3, <2>4, AnnouncedBelow DEF HeldOk
  <2>6. grant[g].status = "ACTIVE"
    BY <2>1 DEF ActiveGrantsOf
  <2> HIDE DEF e
  <2>7. PICK o : o = [pc |-> "update", by |-> r.by, perms |-> r.perms, exp |-> r.exp, eff |-> e, g |-> g]
    OBVIOUS
  <2>8. o.pc = "update" /\ HeldOk(o)
    BY <2>5, <2>6, <2>7 DEF HeldOk
  <2> QED
    BY <1>1, <2>1, <2>7, <2>8
<1>10. CASE CheckPatch(w)
  <2> DEFINE e == Earliest(Earliest(r.exp, deadline), ParentCap(r.parent))
  <2>1. Continue(w, [pc |-> "patchWrite", perms |-> r.perms, exp |-> r.exp, eff |-> e, g |-> r.g])
    BY <1>2, <1>10, Zenon DEF CheckPatch
  <2>2. r \in PatchOp /\ r.pc = "patch" /\ (r.parent # None => Exists(r.parent))
    BY <1>2, <1>10, OpByPc DEF CheckPatch, Bounded
  <2>3. r.exp \in Time /\ r.parent \in {None} \cup Id
    BY <2>2 DEF PatchOp
  <2>4. r.parent # None => grant[r.parent] \in Row
    BY <1>0, <2>2, <2>3, RowExists
  <2>5. ParentCap(r.parent) \in Instant
    BY <2>3, <2>4, BoundsAssumption DEF ParentCap, Row, Instant, Time, Never
  <2>6. e \in Instant /\ e <= deadline
    BY <1>0, <2>3, <2>5, BoundsAssumption DEF Earliest, Instant, Time, Never
  <2>7. Announced(e)
    BY <1>0, <2>6, AnnouncedBelow
  <2> HIDE DEF e
  <2> QED
    BY <1>1, <1>5, <2>1, <2>7
<1>11. CASE CheckDelegate(w)
  <2> DEFINE e == Earliest(r.row.eff, deadline)
  <2>1. Continue(w, [pc |-> "insert", derived |-> TRUE,
                     row |-> [actor |-> r.actor, by |-> r.row.by, perms |-> r.perms,
                              exp |-> r.row.exp, eff |-> e,
                              status |-> "ACTIVE", parent |-> r.g]])
    BY <1>2, <1>11, Zenon DEF CheckDelegate
  <2>2. r \in DelegateOp
    BY <1>2, <1>11, OpByPc DEF CheckDelegate
  <2>3. r.row.eff \in Time
    BY <2>2 DEF DelegateOp, Row
  <2>4. e \in Instant /\ e <= deadline
    BY <1>0, <2>3, BoundsAssumption DEF Earliest, Instant, Time, Never
  <2>5. Announced(e)
    BY <1>0, <2>4, AnnouncedBelow
  <2> HIDE DEF e
  <2> QED
    BY <1>1, <1>4, <2>1, <2>5
<1>12. CASE ShortenRead(w)
  <2>1. PICK S, T : Continue(w, OrIdle([pc |-> "shorten", eff |-> r.eff, pending |-> S, writes |-> T]))
    BY <1>2, <1>12, Zenon DEF ShortenRead
  <2>2. PICK n : n = [pc |-> "shorten", eff |-> r.eff, pending |-> S, writes |-> T]
    OBVIOUS
  <2>3. r.pc = "shorten" /\ Announced(r.eff)
    BY <1>2, <1>12 DEF ShortenRead, HeldOk
  <2>4. n.pc = "shorten" /\ HeldOk(n)
    BY <1>5, <2>2, <2>3
  <2>5. CASE OrIdle(n) = n
    BY <1>1, <2>1, <2>2, <2>4, <2>5
  <2>6. CASE OrIdle(n) = Idle
    <3>1. op[w] # Idle
      BY <1>2, <2>3 DEF Idle
    <3>2. Continue(w, Idle)
      BY <2>1, <2>2, <2>6
    <3>3. op' = [op EXCEPT ![w] = Idle] /\ Quiet
      BY <3>2 DEF Continue, Quiet
    <3> QED
      BY <3>1, <3>3, IdleHolds
  <2> QED
    BY <2>5, <2>6 DEF OrIdle
<1> QED
  BY <1>6, <1>7, <1>8, <1>9, <1>10, <1>11, <1>12

(* The consumer reads the grants that outlast its event. *)
LEMMA DeliveryHolds ==
  ASSUME IInv, SerialInv, NEW w \in Worker, DeliverDeadline(w)
  PROVE  Quiet /\ \E o : StepOf(w, o) /\ HeldOk(o)'
<1>0. TypeOK
  BY DEF IInv
<1>1. PICK d \in events :
        Continue(w, [pc |-> "narrow",
                     writes |-> {[eff |-> Earliest(grant[g].exp, d), g |-> g] :
                                   g \in {h \in Id : /\ Exists(h) /\ grant[h].status = "ACTIVE"
                                                   /\ grant[h].eff > d}},
                     d |-> d])
  BY Zenon DEF DeliverDeadline
<1> DEFINE due == {h \in Id : Exists(h) /\ grant[h].status = "ACTIVE" /\ grant[h].eff > d}
           all == {[eff |-> Earliest(grant[g].exp, d), g |-> g] : g \in due}
<1>2. d \in Time /\ d \in Instant
  BY <1>0, BoundsAssumption DEF TypeOK, Time, Instant, Never
<1>3. ASSUME NEW u \in all PROVE Announced(u.eff) /\ u.eff <= d
  <2>1. PICK g \in due : u = [eff |-> Earliest(grant[g].exp, d), g |-> g]
    OBVIOUS
  <2>2. grant[g] \in Row /\ grant[g].exp \in Time /\ grant[g].eff \in Time
    BY <1>0, RowExists DEF Row
  <2>3. u.eff \in Instant /\ u.eff <= d /\ u.eff <= grant[g].eff /\ grant[g].eff \in Instant
    BY <1>2, <2>1, <2>2, BoundsAssumption DEF Earliest, Time, Instant, Never
  <2>4. Announced(grant[g].eff)
    BY DEF SerialInv, DeadlineHonoured, Announced
  <2> QED
    BY <1>0, <2>3, <2>4, AnnouncedBelow
<1>4. ASSUME NEW g \in due PROVE \E u \in all : u.g = g
  <2>1. [eff |-> Earliest(grant[g].exp, d), g |-> g] \in all
    OBVIOUS
  <2> QED
    BY <2>1
<1>5. PICK o : o = [pc |-> "narrow", writes |-> all, d |-> d]
  OBVIOUS
<1>6. Quiet /\ op' = [op EXCEPT ![w] = o] /\ o.pc = "narrow" /\ o.writes = all /\ o.d = d
  BY <1>1, <1>5 DEF Continue, Quiet
<1> HIDE DEF all
<1>7. HeldOk(o)
  BY <1>3, <1>4, <1>6 DEF HeldOk
<1>8. HeldOk(o)'
  BY <1>6, <1>7 DEF HeldOk, Announced, Exists, Quiet
<1>9. o # Idle
  BY <1>6 DEF Idle
<1> QED
  BY <1>6, <1>8, <1>9 DEF StepOf

(* A row that is written with an excused expiry, or no longer active,      *)
(* leaves the deadline honoured.                                           *)
LEMMA HonouredOne ==
  ASSUME TypeOK, DeadlineHonoured, UNCHANGED <<deadline, events>>,
         NEW g \in Id, NEW row \in Row, grant' = [grant EXCEPT ![g] = row], Announced(row.eff)
  PROVE  DeadlineHonoured'
BY DEF TypeOK, DeadlineHonoured, Announced, Exists

(* Every write of a handler that is alone. *)
LEMMA WriteHolds ==
  ASSUME IInv, SerialInv, NEW w \in Worker,
         \/ Insert(w) \/ UpdateExisting(w) \/ WritePatch(w) \/ ShortenWrite(w)
         \/ CascadeWrite(w) \/ NarrowWrite(w)
  PROVE  DeadlineHonoured' /\ RevokedStay /\ \E o : StepOf(w, o) /\ HeldOk(o)'
<1>0. TypeOK /\ DeadlineHonoured
  BY DEF IInv, SerialInv
<1>1. PICK r \in OpState : r = op[w] /\ HeldOk(r) /\ Bounded(r)
  BY DEF IInv, TypeOK, SerialInv, InFlightBounded
<1>2. CASE Insert(w)
  <2>1. PICK g \in Id : ~Exists(g) /\ grant' = [grant EXCEPT ![g] = r.row]
    BY <1>1, <1>2 DEF Insert
  <2>2. r \in InsertOp /\ Announced(r.row.eff) /\ op[w] # Idle
    BY <1>1, <1>2, OpByPc DEF Insert, HeldOk, Idle
  <2>3. r.row \in Row
    BY <2>2 DEF InsertOp
  <2>4. op' = [op EXCEPT ![w] = Idle] /\ UNCHANGED <<deadline, events>>
    BY <1>2 DEF Insert
  <2>5. RevokedStay
    BY <1>0, <2>1 DEF RevokedStay, TypeOK
  <2> QED
    BY <1>0, <2>1, <2>2, <2>3, <2>4, <2>5, HonouredOne, IdleHolds
<1>3. CASE UpdateExisting(w) \/ WritePatch(w)
  <2>1. PICK row \in Row :
           /\ r.g \in Id /\ Exists(r.g) /\ r.eff \in Time
           /\ grant' = [grant EXCEPT ![r.g] = row]
           /\ row.eff = r.eff
           /\ WritePatch(w) => row.status = grant[r.g].status
           /\ op' = [op EXCEPT ![w] = [pc |-> "shorten", eff |-> r.eff,
                                       pending |-> {r.g}, writes |-> {}]]
           /\ UNCHANGED <<now, deadline, attached, events>>
    BY <1>1, <1>3, RewriteWrites, Zenon
  <2>2. /\ r.pc \in {"update", "patchWrite"} /\ Announced(r.eff) /\ op[w] # Idle
        /\ ~WritePatch(w) => grant[r.g].status = "ACTIVE"
    BY <1>1, <1>3 DEF UpdateExisting, WritePatch, HeldOk, Idle
  <2>3. RevokedStay
    BY <1>0, <2>1, <2>2 DEF RevokedStay, TypeOK
  <2>4. PICK o : o = [pc |-> "shorten", eff |-> r.eff, pending |-> {r.g}, writes |-> {}]
    OBVIOUS
  <2>5. StepOf(w, o)
    BY <2>1, <2>2, <2>4 DEF StepOf
  <2>6. HeldOk(o)'
    BY <2>1, <2>2, <2>4 DEF HeldOk, Announced
  <2> QED
    BY <1>0, <2>1, <2>2, <2>3, <2>5, <2>6, HonouredOne
<1>4. CASE ShortenWrite(w)
  <2>1. PICK c \in Id, row \in Row, o \in OpState :
           /\ Exists(c)
           /\ grant' = [grant EXCEPT ![c] = row]
           /\ row.eff = op[w].eff /\ row.status = grant[c].status
           /\ op' = [op EXCEPT ![w] = o]
           /\ o = Idle \/ (o.pc = "shorten" /\ o.eff = op[w].eff)
           /\ UNCHANGED <<now, deadline, attached, events>>
    BY <1>4, ShortenWrites
  <2>2. r.pc = "shorten" /\ Announced(r.eff) /\ op[w] # Idle
    BY <1>1, <1>4 DEF ShortenWrite, HeldOk, Idle
  <2>3. RevokedStay
    BY <1>0, <1>1, <2>1, <2>2 DEF RevokedStay, TypeOK
  <2>4. StepOf(w, o)
    BY <1>1, <2>1, <2>2 DEF StepOf
  <2>5. HeldOk(o)'
    BY <1>1, <2>1, <2>2 DEF HeldOk, Announced, Idle
  <2> QED
    BY <1>0, <1>1, <2>1, <2>2, <2>3, <2>4, <2>5, HonouredOne
<1>5. CASE NarrowWrite(w)
  <2>1. PICK u \in op[w].writes, row \in Row, o \in NarrowOp :
           /\ u.g \in Id /\ Exists(u.g) /\ u.eff \in Time
           /\ op[w] \in NarrowOp
           /\ grant' = [grant EXCEPT ![u.g] = row]
           /\ row.eff = u.eff /\ row.status = grant[u.g].status
           /\ op' = [op EXCEPT ![w] = o]
           /\ o.d = op[w].d /\ o.writes = op[w].writes \ {u}
           /\ UNCHANGED <<now, deadline, attached, events>>
    BY <1>5, NarrowWrites
  <2>2. r.pc = "narrow" /\ op[w] # Idle
    BY <1>1, <1>5 DEF NarrowWrite, Idle
  <2>3. /\ \A v \in r.writes : Announced(v.eff) /\ v.eff <= r.d
        /\ \A g \in Id : (Exists(g) /\ grant[g].status = "ACTIVE" /\ grant[g].eff > r.d)
                            => \E v \in r.writes : v.g = g
    BY <1>1, <2>2 DEF HeldOk
  <2>4. RevokedStay
    BY <1>0, <1>1, <2>1, <2>2 DEF RevokedStay, TypeOK
  <2>5. StepOf(w, o) /\ o.pc = "narrow"
    BY <1>1, <2>1, <2>2 DEF StepOf, NarrowOp
  <2>6. r.d \in Time
    BY <1>1, <2>1 DEF NarrowOp
  <2>7. ASSUME NEW g \in Id, Exists(g)', grant'[g].status = "ACTIVE", grant'[g].eff > o.d
        PROVE  \E v \in o.writes : v.g = g
    <3>1. CASE g = u.g
      BY <1>0, <1>1, <2>1, <2>3, <2>6, <2>7, <3>1 DEF TypeOK, Time
    <3>2. CASE g # u.g
      <4>1. grant'[g] = grant[g]
        BY <1>0, <1>1, <2>1, <3>2 DEF TypeOK
      <4>2. Exists(g) /\ grant[g].status = "ACTIVE" /\ grant[g].eff > r.d
        BY <1>1, <2>1, <2>7, <4>1 DEF Exists
      <4> QED
        BY <1>1, <2>1, <2>3, <3>2, <4>2
    <3> QED
      BY <3>1, <3>2
  <2>8. \A v \in o.writes : (v.eff > deadline' => deadline' \in events') /\ v.eff <= o.d
    BY <1>1, <2>1, <2>3 DEF Announced
  <2>9. HeldOk(o)'
    BY <2>5, <2>7, <2>8 DEF HeldOk, Announced, Exists
  <2> QED
    BY <1>0, <1>1, <2>1, <2>3, <2>4, <2>5, <2>9, HonouredOne
<1>6. CASE CascadeWrite(w)
  <2>1. /\ ParentsStay
        /\ \A g \in Id : Exists(g) => /\ grant'[g].eff = grant[g].eff
                                      /\ grant'[g].status \in {grant[g].status, "REVOKED"}
        /\ op' = [op EXCEPT ![w] = Idle]
        /\ UNCHANGED <<now, deadline, attached, events>>
    BY <1>6, CascadeWrites
  <2>2. op[w] # Idle
    BY <1>6 DEF CascadeWrite, Idle
  <2>3. RevokedStay
    BY <2>1 DEF RevokedStay
  <2>4. DeadlineHonoured'
    BY <1>0, <2>1 DEF ParentsStay, DeadlineHonoured, Exists
  <2> QED
    BY <2>1, <2>2, <2>3, <2>4, IdleHolds
<1> QED
  BY <1>2, <1>3, <1>4, <1>5, <1>6

(* An event is acknowledged when no active grant outlasts it, so that the  *)
(* deadline it announced, if it still is the deadline, is honoured.        *)
LEMMA AckHolds ==
  ASSUME IInv, SerialInv, NEW w \in Worker, AckDeadline(w)
  PROVE  DeadlineHonoured' /\ UNCHANGED grant /\ \E o : StepOf(w, o) /\ HeldOk(o)'
<1>0. TypeOK /\ DeadlineHonoured
  BY DEF IInv, SerialInv
<1>1. PICK r \in OpState : r = op[w] /\ HeldOk(r)
  BY DEF IInv, TypeOK, SerialInv
<1>2. /\ r.pc = "narrow" /\ r.writes = {} /\ op[w] # Idle
      /\ events' \in {events, events \ {r.d}}
      /\ op' = [op EXCEPT ![w] = Idle]
      /\ UNCHANGED <<grant, deadline>>
  BY <1>1 DEF AckDeadline, Idle
<1>3. r \in NarrowOp
  BY <1>2, OpByPc
<1>4. r.d \in Time
  BY <1>3 DEF NarrowOp
<1>5. \A g \in Id : ~(Exists(g) /\ grant[g].status = "ACTIVE" /\ grant[g].eff > r.d)
  BY <1>1, <1>2 DEF HeldOk
<1>6. DeadlineHonoured'
  BY <1>0, <1>2, <1>5 DEF DeadlineHonoured, Exists
<1> QED
  BY <1>2, <1>6, IdleHolds

(* A new deadline, the clock and the association. *)
LEMMA EnvironmentHolds ==
  ASSUME IInv, SerialInv, ChangeDeadline \/ ToggleAssociation \/ Tick \/ UNCHANGED vars
  PROVE  SerialInv' /\ UNCHANGED grant
<1>1. UNCHANGED <<grant, op>>
  BY DEF ChangeDeadline, ToggleAssociation, Tick, vars
<1>2. \/ UNCHANGED <<deadline, events>>
      \/ deadline' \in Instant /\ events \subseteq events' /\ (deadline' # Never => deadline' \in events')
  BY DEF ChangeDeadline, ToggleAssociation, Tick, vars
<1>3. \A x \in Instant : Announced(x) => (x > deadline' => deadline' \in events')
  BY <1>2, BoundsAssumption DEF Announced, Instant, Never
<1>4. Time \subseteq Instant
  BY BoundsAssumption DEF Time, Instant, Never
<1>5. ASSUME NEW w \in Worker PROVE HeldOk(op[w])'
  <2>1. PICK r \in OpState : r = op[w] /\ HeldOk(r)
    BY DEF IInv, TypeOK, SerialInv
  <2>2. r.pc \in {"create", "find"} => r.dl \in Instant
    BY <2>1, OpByPc DEF ReadOp
  <2>3. r.pc = "insert" => r.row.eff \in Instant
    BY <1>4, <2>1, OpByPc DEF InsertOp, Row
  <2>4. r.pc \in {"update", "patchWrite", "shorten"} => r.eff \in Instant
    BY <1>4, <2>1, OpByPc DEF UpdateOp, WriteOp, ShortenOp
  <2>5. r.pc = "narrow" => \A u \in r.writes : u.eff \in Instant
    BY <1>4, <2>1, OpByPc DEF NarrowOp
  <2> QED
    BY <1>1, <1>3, <2>1, <2>2, <2>3, <2>4, <2>5 DEF HeldOk, Announced, Exists
<1>6. DeadlineHonoured'
  <2>1. ASSUME NEW g \in Id, Exists(g), grant[g].status = "ACTIVE", grant[g].eff > deadline'
        PROVE  deadline' \in events'
    <3>1. grant[g].eff \in Instant /\ Announced(grant[g].eff)
      BY <1>4, <2>1, RowExists DEF IInv, Row, SerialInv, DeadlineHonoured, Announced
    <3> QED
      BY <1>3, <2>1, <3>1
  <2> QED
    BY <1>1, <2>1 DEF DeadlineHonoured, Exists
<1>7. Alone'
  BY <1>1 DEF SerialInv, Alone
<1> QED
  BY <1>1, <1>5, <1>6, <1>7 DEF SerialInv

(* No handler is in progress and no grant exists at the start.             *)
LEMMA SerialInit == Init => SerialInv
<1> SUFFICES ASSUME Init PROVE SerialInv
  OBVIOUS
<1>1. \A w \in Worker : op[w] = Idle
  BY DEF Init
<1>2. \A w \in Worker : HeldOk(op[w])
  BY <1>1 DEF HeldOk, Idle
<1>3. \A g \in Id : ~Exists(g)
  BY DEF Init, Exists
<1> QED
  BY <1>1, <1>2, <1>3 DEF SerialInv, Alone, DeadlineHonoured

(* Where a handler starts only when no other is in progress, every step    *)
(* keeps the invariant and brings no revoked grant back.                   *)
LEMMA SerialStep ==
  IInv /\ SerialInv /\ [Next]_vars /\ (Serial \/ UNCHANGED vars) => SerialInv' /\ RevokedStay
<1> SUFFICES ASSUME IInv, SerialInv, [Next]_vars, Serial \/ UNCHANGED vars
             PROVE  SerialInv' /\ RevokedStay
  OBVIOUS
<1>0. TypeOK /\ DeadlineHonoured /\ Alone
  BY DEF IInv, SerialInv
<1>1. UNCHANGED grant => RevokedStay
  BY DEF RevokedStay
<1>2. CASE ChangeDeadline \/ ToggleAssociation \/ Tick \/ UNCHANGED vars
  BY <1>1, <1>2, EnvironmentHolds
<1>3. ASSUME NEW w \in Worker, NEW o, StepOf(w, o), HeldOk(o)', Serial, DeadlineHonoured'
      PROVE  SerialInv'
  <2>1. Alone'
    BY <1>0, <1>3, AloneStep
  <2>2. (\A x \in Worker : HeldOk(op[x]))'
    BY <1>0, <1>3, <2>1, HeldStep
  <2> QED
    BY <1>3, <2>1, <2>2 DEF SerialInv
<1>4. Quiet => DeadlineHonoured' /\ UNCHANGED grant
  BY <1>0 DEF Quiet, DeadlineHonoured, Exists
<1>5. ASSUME NEW w \in Worker, HandlerStep(w), Serial PROVE SerialInv' /\ RevokedStay
  <2>1. CASE \/ PostGrant(w) \/ PatchGrant(w) \/ DelegateGrant(w)
             \/ RevokeGrant(w) \/ RevokeAll(w) \/ CascadeRead(w) \/ FindNone(w) \/ Abort(w)
    BY <1>1, <1>3, <1>4, <1>5, <2>1, StartHolds
  <2>2. CASE \/ PostTaskGrant(w) \/ ReadContext(w) \/ CheckCreate(w) \/ FindExisting(w)
             \/ CheckPatch(w) \/ CheckDelegate(w) \/ ShortenRead(w)
    BY <1>1, <1>3, <1>4, <1>5, <2>2, ReadHolds
  <2>3. CASE DeliverDeadline(w)
    BY <1>1, <1>3, <1>4, <1>5, <2>3, DeliveryHolds
  <2>4. CASE \/ Insert(w) \/ UpdateExisting(w) \/ WritePatch(w) \/ ShortenWrite(w)
             \/ CascadeWrite(w) \/ NarrowWrite(w)
    BY <1>3, <1>5, <2>4, WriteHolds
  <2>5. CASE AckDeadline(w)
    BY <1>1, <1>3, <1>5, <2>5, AckHolds
  <2> QED
    BY <1>5, <2>1, <2>2, <2>3, <2>4, <2>5, Zenon DEF HandlerStep
<1> QED
  BY <1>2, <1>5 DEF Next

(* Both facts of handlers that run one at a time, for the part of the      *)
(* instance in which they do.                                              *)
PartInv == IInv /\ (part = "serial" => SerialInv)

(* The invariant holds at the start of both parts.                         *)
LEMMA PartInit == InitOfPart => PartInv
BY InitIInv, SerialInit DEF InitOfPart, InitWithChecks, PartInv

(* Every step keeps it; in the serial part it brings no revoked grant      *)
(* back.                                                                   *)
LEMMA PartStep ==
  PartInv /\ [NextOfPart]_<<vars, check, part>> =>
    PartInv' /\ part' = part /\ (part = "serial" => RevokedStay)
<1> SUFFICES ASSUME PartInv, [NextOfPart]_<<vars, check, part>>
             PROVE  PartInv' /\ part' = part /\ (part = "serial" => RevokedStay)
  OBVIOUS
<1>1. [Next]_vars /\ part' = part /\ (part = "serial" => Serial \/ UNCHANGED vars)
  BY DEF NextOfPart, NextWithChecks, vars
<1>2. IInv'
  BY <1>1, NextIInv DEF PartInv
<1>3. part = "serial" => SerialInv' /\ RevokedStay
  BY <1>1, SerialStep DEF PartInv
<1> QED
  BY <1>1, <1>2, <1>3 DEF PartInv

(* Handlers one at a time: an active grant reaches past the deadline only  *)
(* while the event that announces the deadline is to be acknowledged.      *)
THEOREM DeadlineIsKept == SpecOfPart => []DeadlineKept
<1>1. PartInv => DeadlineKept
  BY DEF PartInv, SerialInv, DeadlineKept
<1> QED
  BY <1>1, PartInit, PartStep, PTL DEF SpecOfPart

(* Handlers one at a time: a revoked grant stays revoked, since the grant  *)
(* that is shared again was found active and nothing has happened since.   *)
THEOREM RevocationIsKept == SpecOfPart => RevocationKept
<1>1. PartInv /\ [NextOfPart]_<<vars, check, part>> => [part = "serial" => RevokedStay]_vars
  BY PartStep
<1> QED
  BY <1>1, PartInit, PartStep, PTL DEF SpecOfPart, RevocationKept
=============================================================================
