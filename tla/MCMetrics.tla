----------------------------- MODULE MCMetrics -----------------------------
(***************************************************************************)
(* A small instance of DuraflowMetrics for TLC.                            *)
(***************************************************************************)
EXTENDS DuraflowMetrics

CONSTANTS r1, p1, p2, w1, w2, o1, o2

(* A timer, then an activity allowed one attempt.                          *)
Nap == [nap |-> <<[timer |-> 1, max_attempts |-> 0],
                  [timer |-> 0, max_attempts |-> 1]>>]

(* Two processes of one worker each.                                       *)
TwoProcesses == w1 :> p1 @@ w2 :> p2
DistinctIds == w1 :> o1 @@ w2 :> o2

(* The processes can change places, with their workers and ids: the        *)
(* permutations that respect ProcOf and OwnerId.                           *)
Mirror ==
    {f \in Permutations({p1, p2, w1, w2, o1, o2}) :
        \A w \in {w1, w2} :
            /\ f[w] \in {w1, w2}
            /\ f[TwoProcesses[w]] = TwoProcesses[f[w]]
            /\ f[DistinctIds[w]] = DistinctIds[f[w]]}
=============================================================================
