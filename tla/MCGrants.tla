------------------------------ MODULE MCGrants ------------------------------
(***************************************************************************)
(* Instances of Grants, with checks, for TLC.  One run explores handlers   *)
(* that run one at a time, on a chain of three grants, and two handlers    *)
(* that interleave, on two grants and with a request less: `part` says     *)
(* which.  A check begins when it has a grant with one (with handlers one  *)
(* at a time, two) ancestors to consider.                                  *)
(***************************************************************************)
EXTENDS PermissionCheck, FiniteSets, TLC

VARIABLE part

InitOfPart == InitWithChecks /\ part \in {"serial", "races"}

Serial == Cardinality({w \in Worker : op'[w] # Idle}) <= 1
Smaller == grant'[MaxGrants] = Absent /\ requests' < MaxRequests

Ancestry(row) == IF row.parent = None THEN 0
                 ELSE IF grant[row.parent].parent = None THEN 1 ELSE 2

Deep(depth) == \A c \in Checker : check[c] = Resting /\ check'[c] # Resting =>
                 \E row \in check'[c].todo : Ancestry(row) >= depth

NextOfPart ==
  /\ NextWithChecks
  /\ UNCHANGED part
  /\ part = "serial" => Serial /\ Deep(2)
  /\ part = "races" => Smaller /\ Deep(1)

SpecOfPart == InitOfPart /\ [][NextOfPart]_<<vars, check, part>>

(* Handlers are interchangeable, and so are the recipients. *)
Symmetry == Permutations(Worker) \cup Permutations(Participant)
-----------------------------------------------------------------------------
(* Handlers one at a time: no grant outlasts an announced deadline. *)
DeadlineKept == part = "serial" => DeadlineHonoured

(* Handlers one at a time: a revoked grant stays revoked. *)
RevocationKept == [][part = "serial" => RevokedStay]_vars
=============================================================================
