--------------------------- MODULE AppendOnlyLog ---------------------------
(***************************************************************************)
(* What the audit log promises, seen from outside: a list of events that   *)
(* only grows at its end and names no event twice (ADR-0002).              *)
(***************************************************************************)
EXTENDS Naturals, Sequences

CONSTANT Event

VARIABLE entries

Init == entries = <<>>

Add(e) ==
  /\ \A i \in 1 .. Len(entries) : entries[i] # e
  /\ entries' = Append(entries, e)

Next == \E e \in Event : Add(e)

Spec == Init /\ [][Next]_entries
=============================================================================
