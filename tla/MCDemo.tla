------------------------------ MODULE MCDemo -------------------------------
(***************************************************************************)
(* A small instance of DuraflowDemo for TLC.                               *)
(***************************************************************************)
EXTENDS DuraflowDemo

CONSTANTS r1, p1, w1, w2, o1, o2

(* One process of two workers.                                             *)
OneProcess == w1 :> p1 @@ w2 :> p1
DistinctIds == w1 :> o1 @@ w2 :> o2
=============================================================================
