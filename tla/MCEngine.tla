------------------------------ MODULE MCEngine ------------------------------
(***************************************************************************)
(* Small instances of DuraflowEngine for TLC.                              *)
(***************************************************************************)
EXTENDS DuraflowEngine

CONSTANTS r1, p1, p2, w1, w2, o1, o2

(* An activity allowed two attempts, then one allowed the default number.  *)
TwoActivities == [charge |-> <<[timer |-> 0, max_attempts |-> 2],
                               [timer |-> 0, max_attempts |-> 0]>>]

(* A timer, then an activity allowed two attempts.                         *)
TimerFirst == [nap |-> <<[timer |-> 1, max_attempts |-> 0],
                         [timer |-> 0, max_attempts |-> 2]>>]

(* Two processes of one worker each.                                       *)
TwoProcesses == w1 :> p1 @@ w2 :> p2

(* Host names tell the workers apart; or two processes share a WorkerID    *)
(* (two on one host, or two whose host name cannot be read).               *)
DistinctIds == w1 :> o1 @@ w2 :> o2
SharedIds == w1 :> o1 @@ w2 :> o1
=============================================================================
