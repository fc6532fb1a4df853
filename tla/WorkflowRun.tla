---------------------------- MODULE WorkflowRun ----------------------------
(***************************************************************************)
(* What Duraflow promises of a workflow run, with no tasks, leases,        *)
(* workers, retries or time: a run's steps complete one at a time, in      *)
(* order, each exactly once; the run is completed when, and only when, the *)
(* last one has; and a completed or cancelled run never changes again.     *)
(*                                                                         *)
(* A failed run can still make progress: an operator may replay the task   *)
(* that was dead-lettered, and the remaining steps then run (the run stays *)
(* "failed" until it completes).  It can no longer be cancelled.           *)
(***************************************************************************)
EXTENDS Integers

CONSTANTS
    Runs,        \* run ids
    Lengths      \* the lengths a workflow can have, all positive

VARIABLES
    status,      \* status[r]
    total,       \* total[r]: how many steps the run has
    done         \* done[r]: the steps that have completed

runVars == <<status, total, done>>

RunInit ==
    /\ status = [r \in Runs |-> "none"]
    /\ total = [r \in Runs |-> 0]
    /\ done = [r \in Runs |-> {}]

Start(r) ==
    /\ status[r] = "none"
    /\ \E n \in Lengths : total' = [total EXCEPT ![r] = n]
    /\ status' = [status EXCEPT ![r] = "running"]
    /\ UNCHANGED done

(* Step i is the first one not done yet.                                   *)
CompleteStep(r, i) ==
    /\ status[r] \in {"running", "failed"}
    /\ done[r] = 0 .. (i - 1)
    /\ done' = [done EXCEPT ![r] = 0 .. i]
    /\ status' = [status EXCEPT ![r] =
                    IF i = total[r] - 1 THEN "completed" ELSE @]
    /\ UNCHANGED total

Fail(r) ==
    /\ status[r] = "running"
    /\ done[r] # 0 .. (total[r] - 1)
    /\ status' = [status EXCEPT ![r] = "failed"]
    /\ UNCHANGED <<total, done>>

Cancel(r) ==
    /\ status[r] = "running"
    /\ done[r] # 0 .. (total[r] - 1)
    /\ status' = [status EXCEPT ![r] = "cancelled"]
    /\ UNCHANGED <<total, done>>

RunNext ==
    \E r \in Runs : \/ Start(r)
                    \/ \E i \in 0 .. (total[r] - 1) : CompleteStep(r, i)
                    \/ Fail(r)
                    \/ Cancel(r)

RunSpec == RunInit /\ [][RunNext]_runVars
=============================================================================
