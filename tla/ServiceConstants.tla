--------------------------- MODULE ServiceConstants ---------------------------
(* What the models of the smaller services have in common. *)
EXTENDS Naturals, Sequences, FiniteSets

Nobody == "nobody"  \* an id or address that is null
=============================================================================
