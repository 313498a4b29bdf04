---------------------------- MODULE MCSessions ----------------------------
(* An instance of Sessions for TLC.  Nothing tells two requests or two     *)
(* tokens apart, so both sets are symmetric.                               *)
EXTENDS Sessions, TLC

CONSTANTS p1, p2, t1, t2

Symmetric == Permutations({p1, p2}) \cup Permutations({t1, t2})
=============================================================================
