---------------------------- MODULE MCDashboard ----------------------------
(***************************************************************************)
(* A small instance of DuraflowDashboard for TLC.                          *)
(***************************************************************************)
EXTENDS DuraflowDashboard

CONSTANTS r1, o1, l1, l2

(* A single activity, allowed one attempt.                                 *)
OneActivity == [charge |-> <<[timer |-> 0, max_attempts |-> 0]>>]
=============================================================================
