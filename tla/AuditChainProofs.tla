-------------------------- MODULE AuditChainProofs --------------------------
(***************************************************************************)
(* Proofs about AuditChain, for any number of transactions and events: the *)
(* chain neither forks nor repeats an event, its head stays in step, and   *)
(* the service implements AppendOnlyLog.                                   *)
(*                                                                         *)
(* The inductive invariant adds HolderIsCurrent to what is proved: a row   *)
(* that is about to be committed was computed from the log as it is,       *)
(* because its transaction holds the lock since before it read the log.    *)
(***************************************************************************)
EXTENDS AuditChain, SequenceTheorems, WellFoundedInduction, TLAPS

IInv == TypeOK /\ ChainIntact /\ OnceInChain /\ HeadInStep /\ HolderIsCurrent

(* The hash of the last row is a chain of contents.                        *)
LEMMA LastHashType ==
  ASSUME TypeOK PROVE LastHash \in Seq(Content)
<1>1. CASE log = <<>>
  BY <1>1 DEF LastHash
<1>2. CASE log # <<>>
  <2>1. Len(log) \in 1 .. Len(log)
    BY <1>2, EmptySeq DEF TypeOK
  <2>2. log[Len(log)] \in Row
    BY <2>1 DEF TypeOK
  <2> QED
    BY <1>2, <2>2 DEF LastHash, Row
<1> QED
  BY <1>1, <1>2

(* The row that extends the log is a row.                                  *)
LEMMA NextRowType ==
  ASSUME TypeOK, NEW e \in Kept
  PROVE  NextRow(e, LastHash) \in Row
<1>1. Received(e) \in Content
  BY DEF Received, Content
<1>2. Hash(Received(e), LastHash) \in Seq(Content)
  BY <1>1, LastHashType DEF Hash
<1> QED
  BY <1>2, LastHashType DEF NextRow, Row, TypeOK

(* What a transaction holds is determined by how far it is.                *)
LEMMA OpByPc ==
  ASSUME NEW o \in OpState
  PROVE  /\ o.pc \in {"idle", "find", "lock", "latest", "insert", "commit"}
         /\ o.pc # "idle" => o.e \in Kept
         /\ o.pc \in {"insert", "commit"} =>
              /\ o \in [pc: {"insert", "commit"}, e: Kept, row: Row]
              /\ o.row \in Row
BY DEF OpState, Idle

-----------------------------------------------------------------------------
(* The empty log satisfies the invariant.                                  *)
LEMMA InitHolds == Init => IInv
<1> SUFFICES ASSUME Init PROVE IInv
  OBVIOUS
<1>1. TypeOK
  BY AuditConstants DEF Init, TypeOK, OpState
<1>2. ChainIntact /\ OnceInChain /\ HeadInStep
  BY DEF Init, ChainIntact, OnceInChain, HeadInStep, LastHash
<1>3. HolderIsCurrent
  BY AuditConstants DEF Init, HolderIsCurrent, Idle
<1> QED
  BY <1>1, <1>2, <1>3 DEF IInv

(* A step of one worker that writes neither the log nor the chain head.    *)
LEMMA QuietStep ==
  ASSUME IInv, NEW w \in Worker, NEW o \in OpState,
         UNCHANGED <<log, head>>, op' = [op EXCEPT ![w] = o],
         lock' \in Worker \cup {Nobody}, calls' \in 0 .. MaxAppends,
         \A x \in Worker \ {w} : lock = x <=> lock' = x,
         o.pc \in {"latest", "insert", "commit"} <=> lock' = w,
         o.pc \in {"insert", "commit"} => o.row = NextRow(o.e, LastHash),
         o.pc = "commit" => ~InLog(o.e)
  PROVE  IInv'
<1> USE DEF IInv
<1>1. TypeOK'
  BY DEF TypeOK
<1>2. ChainIntact' /\ OnceInChain' /\ HeadInStep'
  BY DEF ChainIntact, OnceInChain, HeadInStep, LastHash
<1>3. ASSUME NEW x \in Worker
      PROVE  /\ op'[x].pc \in {"latest", "insert", "commit"} <=> lock' = x
             /\ op'[x].pc \in {"insert", "commit"} =>
                  op'[x].row = NextRow(op'[x].e, LastHash)
             /\ op'[x].pc = "commit" => ~InLog(op'[x].e)
  <2>1. CASE x = w
    BY <2>1 DEF TypeOK
  <2>2. CASE x # w
    BY <2>2 DEF TypeOK, HolderIsCurrent
  <2> QED
    BY <2>1, <2>2
<1>4. HolderIsCurrent'
  BY <1>3 DEF HolderIsCurrent, NextRow, LastHash, InLog
<1> QED
  BY <1>1, <1>2, <1>4

(* A transaction that commits its row.                                     *)
LEMMA CommitPreserves ==
  ASSUME IInv, NEW w \in Worker, Commit(w)
  PROVE  IInv'
<1> USE DEF IInv
<1>1. PICK o \in OpState : o = op[w]
  BY DEF TypeOK
<1> DEFINE n == Len(log)
           row == o.row
<1>2. /\ o.pc = "commit" /\ lock = w
      /\ row = NextRow(o.e, LastHash)
      /\ ~InLog(o.e) /\ o.e \in Kept /\ row \in Row
  BY <1>1, OpByPc DEF Commit, HolderIsCurrent
<1>3. /\ log \in Seq(Row) /\ log' = Append(log, row) /\ lock' = Nobody
      /\ head' = [hash |-> row.hash, seq |-> row.seq]
      /\ op' = [op EXCEPT ![w] = Idle] /\ calls' = calls
  BY <1>1 DEF Commit, Goto, TypeOK
<1>4. /\ n \in Nat /\ log' \in Seq(Row) /\ Len(log') = n + 1
      /\ \A i \in 1 .. n : log'[i] = log[i]
      /\ log'[n + 1] = row
  BY <1>2, <1>3
<1>5. /\ row.event = o.e /\ row.seq = n + 1 /\ row.prev = LastHash
      /\ row.hash = Hash(Received(o.e), LastHash)
  BY <1>2 DEF NextRow
<1>6. TypeOK'
  BY <1>2, <1>3, <1>4 DEF TypeOK, OpState, Row
<1>7. ChainIntact'
  <2> SUFFICES ASSUME NEW i \in 1 .. Len(log')
               PROVE  /\ log'[i].seq = i
                      /\ log'[i].prev = IF i = 1 THEN <<>> ELSE log'[i - 1].hash
                      /\ log'[i].hash = Hash(Received(log'[i].event), log'[i].prev)
    BY DEF ChainIntact, Hash, Received
  <2>1. CASE i \in 1 .. n
    BY <2>1, <1>4 DEF ChainIntact
  <2>2. CASE i = n + 1
    <3>1. LastHash = IF i = 1 THEN <<>> ELSE log'[i - 1].hash
      BY <2>2, <1>3, <1>4 DEF LastHash
    <3> QED
      BY <2>2, <1>4, <1>5, <3>1
  <2> QED
    BY <2>1, <2>2, <1>4
<1>8. OnceInChain'
  <2> SUFFICES ASSUME NEW i \in 1 .. Len(log'), NEW j \in 1 .. Len(log'),
                      log'[i].event = log'[j].event
               PROVE  i = j
    BY DEF OnceInChain
  <2>1. \A k \in 1 .. n : log'[k].event # row.event
    BY <1>2, <1>4, <1>5 DEF InLog
  <2> QED
    BY <1>4, <2>1 DEF OnceInChain
<1>9. HeadInStep'
  <2>1. LastHash' = row.hash
    BY <1>3, <1>4 DEF LastHash
  <2> QED
    BY <1>3, <1>4, <1>5, <2>1 DEF HeadInStep
<1>10. HolderIsCurrent'
  <2>1. \A x \in Worker : op'[x].pc \notin {"latest", "insert", "commit"}
    BY <1>2, <1>3 DEF TypeOK, HolderIsCurrent, Idle
  <2> QED
    BY <1>3, <2>1, AuditConstants DEF HolderIsCurrent
<1> QED
  BY <1>6, <1>7, <1>8, <1>9, <1>10

(* A transaction that is rolled back.                                      *)
LEMMA UndoPreserves ==
  ASSUME IInv, NEW w \in Worker, Undo(w)
  PROVE  IInv'
<1>1. Idle \in OpState /\ Idle.pc = "idle"
  BY DEF OpState, Idle
<1> QED
  BY <1>1, QuietStep, AuditConstants DEF Undo, Goto, IInv, TypeOK

(* Every step of the service keeps the invariant.                          *)
LEMMA StepPreserves ==
  ASSUME IInv, [Next]_vars
  PROVE  IInv'
<1> USE DEF IInv
<1>1. CASE UNCHANGED vars
  BY <1>1 DEF vars, TypeOK, ChainIntact, OnceInChain, HeadInStep, HolderIsCurrent,
              LastHash, NextRow, InLog
<1>2. ASSUME NEW w \in Worker, AppendEvent(w)
      PROVE  IInv'
  <2>1. PICK e \in Kept : op' = [op EXCEPT ![w] = [pc |-> "find", e |-> e]]
    BY <1>2 DEF AppendEvent
  <2>2. [pc |-> "find", e |-> e] \in OpState
    BY DEF OpState
  <2>3. calls' \in 0 .. MaxAppends /\ lock # w
    BY <1>2, AuditConstants DEF AppendEvent, TypeOK, HolderIsCurrent, Idle
  <2> QED
    BY <1>2, <2>1, <2>2, <2>3, QuietStep DEF AppendEvent, TypeOK
<1>3. ASSUME NEW w \in Worker, FindExisting(w)
      PROVE  IInv'
  <2>1. PICK o \in OpState : op' = [op EXCEPT ![w] = o] /\ o.pc \in {"idle", "lock"}
    <3>1. op[w].e \in Kept
      BY <1>3, OpByPc DEF FindExisting, TypeOK
    <3>2. Idle \in OpState /\ [pc |-> "lock", e |-> op[w].e] \in OpState
      BY <3>1 DEF OpState
    <3> QED
      BY <1>3, <3>2 DEF FindExisting, Goto, Idle
  <2>2. lock # w
    BY <1>3 DEF FindExisting, HolderIsCurrent
  <2> QED
    BY <1>3, <2>1, <2>2, QuietStep DEF FindExisting, Goto, TypeOK
<1>4. ASSUME NEW w \in Worker, LockHead(w)
      PROVE  IInv'
  <2>1. PICK e \in Kept : op' = [op EXCEPT ![w] = [pc |-> "latest", e |-> e]]
    BY <1>4, OpByPc DEF LockHead, Goto, TypeOK
  <2>2. [pc |-> "latest", e |-> e] \in OpState
    BY DEF OpState
  <2>3. /\ lock' = w /\ UNCHANGED <<log, head, calls>>
        /\ \A x \in Worker \ {w} : lock = x <=> lock' = x
    BY <1>4, AuditConstants DEF LockHead, Goto
  <2> QED
    BY <2>1, <2>2, <2>3, QuietStep DEF TypeOK
<1>5. ASSUME NEW w \in Worker, ReadLatest(w)
      PROVE  IInv'
  <2>1. PICK e \in Kept : /\ op[w].e = e
                           /\ op' = [op EXCEPT ![w] = [pc |-> "insert", e |-> e,
                                                       row |-> NextRow(e, LastHash)]]
    BY <1>5, OpByPc DEF ReadLatest, Goto, TypeOK
  <2>2. [pc |-> "insert", e |-> e, row |-> NextRow(e, LastHash)] \in OpState
    BY NextRowType DEF OpState
  <2>3. lock = w
    BY <1>5 DEF ReadLatest, HolderIsCurrent
  <2> QED
    BY <1>5, <2>1, <2>2, <2>3, QuietStep DEF ReadLatest, Goto, TypeOK
<1>6. ASSUME NEW w \in Worker, Insert(w)
      PROVE  IInv'
  <2>1. PICK o \in OpState : o = op[w]
    BY DEF TypeOK
  <2> DEFINE new == [pc |-> "commit", e |-> o.e, row |-> o.row]
  <2>2. /\ new \in OpState /\ lock = w /\ ~InLog(o.e)
        /\ o.row = NextRow(o.e, LastHash)
        /\ op' = [op EXCEPT ![w] = new]
    BY <1>6, <2>1, OpByPc DEF Insert, Goto, OpState, HolderIsCurrent
  <2> QED
    BY <1>6, <2>2, QuietStep DEF Insert, Goto, TypeOK
<1>7. ASSUME NEW w \in Worker, Conflict(w) \/ Fail(w)
      PROVE  IInv'
  BY <1>7, UndoPreserves DEF Conflict, Fail
<1> QED
  BY <1>1, <1>2, <1>3, <1>4, <1>5, <1>6, <1>7, CommitPreserves DEF Next, Statement

(* The invariant holds in every reachable state.                           *)
LEMMA Inductive == Spec => []IInv
<1>1. Init => IInv
  BY InitHolds
<1>2. IInv /\ [Next]_vars => IInv'
  BY StepPreserves
<1> QED
  BY <1>1, <1>2, PTL DEF Spec
-----------------------------------------------------------------------------
(* Every variable has its type, for any number of transactions. *)
THEOREM TypeCorrect == Spec => []TypeOK
BY Inductive, PTL DEF IInv

(* The hash chain has neither fork nor gap, however appends interleave and *)
(* wherever transactions are rolled back.                                  *)
THEOREM ChainNeverForks == Spec => []ChainIntact
BY Inductive, PTL DEF IInv

(* No event is chained twice, however often it is delivered. *)
THEOREM NeverTwice == Spec => []OnceInChain
BY Inductive, PTL DEF IInv

(* What a reader of the chain head sees is the last row. *)
THEOREM HeadAlwaysInStep == Spec => []HeadInStep
BY Inductive, PTL DEF IInv

(* A set of natural numbers has a smallest member. *)
LEMMA SmallestIs ==
  ASSUME NEW S, S \subseteq Nat, S # {}
  PROVE  \E x \in S : \A y \in S : x <= y
<1> DEFINE less == OpToRel(<, Nat)
<1>1. IsWellFoundedOn(less, Nat)
  BY NatLessThanWellFounded
<1> HIDE DEF less
<1>2. PICK x \in S : \A y \in S : <<y, x>> \notin less
  BY <1>1, WFMin
<1>3. \A y \in S : y < x => <<y, x>> \in less
  BY DEF less, OpToRel
<1>4. \A y \in S : y \in Nat /\ x \in Nat /\ ~(y < x)
  BY <1>2, <1>3
<1> QED
  BY <1>4

(* In an intact chain the rows that verification computes differently are  *)
(* those whose occurred_at was received in another form.                   *)
LEMMA MismatchIs ==
  ASSUME IInv, NEW i \in 1 .. Len(log)
  PROVE  Mismatch(i) <=> log[i].event \in Inexact
<1>1. log[i].prev \in Seq(Content) /\ log[i].event \in Kept
  <2>1. log[i] \in Row
    BY DEF IInv, TypeOK
  <2> QED
    BY <2>1 DEF Row
<1>2. log[i].hash = Append(log[i].prev, Received(log[i].event))
  BY DEF IInv, ChainIntact, Hash
<1>3. Mismatch(i) <=> log[i].hash # Append(log[i].prev, Stored(log[i].event))
  BY DEF IInv, ChainIntact, Mismatch, Hash
<1>4. Received(log[i].event) \in Content /\ Stored(log[i].event) \in Content
  BY <1>1 DEF Received, Stored, Content
<1>5. ASSUME NEW s \in Seq(Content), NEW c \in Content, NEW d \in Content
      PROVE  Append(s, c) = Append(s, d) => c = d
  BY AppendProperties
<1>6. Received(log[i].event) = Stored(log[i].event) <=> log[i].event \notin Inexact
  BY DEF Received, Stored
<1> QED
  BY <1>1, <1>2, <1>3, <1>4, <1>5, <1>6

(* verifyChainIntegrity finds the first row whose occurred_at was received *)
(* in another form than it is read back in, and no other: an untouched log *)
(* is reported as broken exactly where such an event was logged.           *)
THEOREM VerificationIsExact == Spec => []VerifyIsExact
<1>1. ASSUME IInv
      PROVE  VerifyIsExact
  <2> DEFINE odd == {i \in 1 .. Len(log) : log[i].event \in Inexact}
             bad == {i \in 1 .. Len(log) : Mismatch(i)}
  <2>1. bad = odd
    BY <1>1, MismatchIs
  <2>2. odd \subseteq Nat \ {0}
    BY <1>1 DEF IInv, TypeOK
  <2>3. BrokenAt = IF bad = {} THEN 0 ELSE CHOOSE i \in bad : \A j \in bad : i <= j
    BY DEF BrokenAt
  <2> HIDE DEF odd, bad
  <2>4. odd # {} => BrokenAt \in odd /\ \A i \in odd : BrokenAt <= i
    BY <2>1, <2>2, <2>3, SmallestIs
  <2>5. BrokenAt = 0 <=> odd = {}
    BY <2>1, <2>2, <2>3, <2>4
  <2> QED
    BY <2>4, <2>5 DEF VerifyIsExact, odd
<1> QED
  BY <1>1, Inductive, PTL

(* The service implements the abstract log: its rows are only ever added   *)
(* at the end, and each adds an event that was not there.                  *)
THEOREM ImplementsAppendOnlyLog == Spec => AppendsOnly
<1> DEFINE entries == [i \in 1 .. Len(log) |-> log[i].event]
<1>1. Init => Abstract!Init
  BY DEF Init, Abstract!Init
<1>2. IInv /\ [Next]_vars => [Abstract!Next]_entries
  <2> SUFFICES ASSUME IInv, [Next]_vars PROVE [Abstract!Next]_entries
    OBVIOUS
  <2>1. CASE log' = log
    BY <2>1
  <2>2. ASSUME NEW w \in Worker, Commit(w)
        PROVE  Abstract!Next
    <3>1. PICK o \in OpState : o = op[w]
      BY DEF IInv, TypeOK
    <3>2. /\ o.row = NextRow(o.e, LastHash) /\ ~InLog(o.e) /\ o.e \in Kept
          /\ o.row.event = o.e
          /\ log' = Append(log, o.row) /\ log \in Seq(Row) /\ o.row \in Row
      BY <2>2, <3>1, OpByPc DEF Commit, IInv, TypeOK, HolderIsCurrent, NextRow
    <3>3. /\ Len(log) \in Nat /\ Len(log') = Len(log) + 1 /\ log' \in Seq(Row)
          /\ \A i \in 1 .. Len(log) : log'[i] = log[i] /\ log'[Len(log) + 1] = o.row
      BY <3>2
    <3>4. /\ entries \in Seq(Kept) /\ Len(entries) = Len(log)
          /\ entries' \in Seq(Kept) /\ Len(entries') = Len(log')
      <4>1. \A i \in 1 .. Len(log) : log[i].event \in Kept
        <5>1. \A i \in 1 .. Len(log) : log[i] \in Row
          BY <3>2
        <5> QED
          BY <5>1 DEF Row
      <4>2. \A i \in 1 .. Len(log') : log'[i].event \in Kept
        <5>1. \A i \in 1 .. Len(log') : log'[i] \in Row
          BY <3>3
        <5> QED
          BY <5>1 DEF Row
      <4> QED
        BY <3>3, <4>1, <4>2, IsASeq
    <3>5. entries' = Append(entries, o.e)
      <4>1. /\ Append(entries, o.e) \in Seq(Kept)
            /\ Len(Append(entries, o.e)) = Len(log) + 1
            /\ \A i \in 1 .. Len(log) : Append(entries, o.e)[i] = entries[i]
            /\ Append(entries, o.e)[Len(log) + 1] = o.e
        BY <3>2, <3>4, AppendProperties
      <4>2. \A i \in 1 .. Len(log) + 1 : entries'[i] = Append(entries, o.e)[i]
        BY <3>2, <3>3, <4>1
      <4> QED
        BY <3>3, <3>4, <4>1, <4>2, SeqEqual
    <3>6. \A i \in 1 .. Len(entries) : entries[i] # o.e
      BY <3>2, <3>3 DEF InLog
    <3> QED
      BY <3>2, <3>5, <3>6 DEF Abstract!Next, Abstract!Add
  <2> QED
    BY <2>1, <2>2 DEF Next, Statement, vars, AppendEvent, FindExisting, LockHead, ReadLatest,
                      Insert, Conflict, Fail, Undo
<1> QED
  BY <1>1, <1>2, Inductive, PTL DEF Spec, AppendsOnly, Abstract!Spec
=============================================================================
