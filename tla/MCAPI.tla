------------------------------- MODULE MCAPI -------------------------------
(***************************************************************************)
(* Small instances of DuraflowAPI for TLC.                                 *)
(***************************************************************************)
EXTENDS DuraflowAPI

CONSTANTS r1, r2, o1, k1, q1, q2, q3

(* Two activities, each allowed the default number of attempts.            *)
TwoActivities == [charge |-> <<[timer |-> 0, max_attempts |-> 0],
                               [timer |-> 0, max_attempts |-> 0]>>]

(* A single activity, and a definition without steps.                      *)
OneActivity == [charge |-> <<[timer |-> 0, max_attempts |-> 0]>>,
                empty |-> <<>>]

RequestSymmetry == Permutations({q1, q2, q3})
StartSymmetry == RequestSymmetry \cup Permutations({r1, r2})
=============================================================================
