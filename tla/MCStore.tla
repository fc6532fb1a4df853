------------------------------ MODULE MCStore ------------------------------
(***************************************************************************)
(* A small instance of DuraflowStore for TLC.                              *)
(***************************************************************************)
EXTENDS DuraflowStore

CONSTANTS r1, o1, o2

(* An activity allowed two attempts, then one allowed the default number.  *)
TwoActivities == [charge |-> <<[timer |-> 0, max_attempts |-> 2],
                               [timer |-> 0, max_attempts |-> 0]>>]

OwnerSymmetry == Permutations({o1, o2})
=============================================================================
