-------------------------------- MODULE MCTx --------------------------------
(***************************************************************************)
(* A small instance of StoreTx for TLC.                                    *)
(***************************************************************************)
EXTENDS StoreTx

CONSTANTS r1, o1, o2, c1, c2

(* An activity allowed the default number of attempts, then a timer.       *)
ThenTimer == [charge |-> <<[timer |-> 0, max_attempts |-> 0],
                           [timer |-> 1, max_attempts |-> 0]>>]
=============================================================================
