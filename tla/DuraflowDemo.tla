---------------------------- MODULE DuraflowDemo ----------------------------
(***************************************************************************)
(* A deployment of the built-in workflows (internal/demo/demo.go): the     *)
(* engine and its counters, with the outcome of every execution decided by *)
(* the handlers demo.go registers.                                         *)
(*                                                                         *)
(* fail_n_times counts its calls in memory, per process and per key; the   *)
(* requests that ask for retry_demo here send one key, and FailTimes as    *)
(* their fail_times.                                                       *)
(***************************************************************************)
EXTENDS DuraflowMetrics

CONSTANT FailTimes   \* fail_times of the request (2 when it has none)

(* Here the database always answers, and takes every document.             *)
ASSUME DemoAssumption ==
    /\ FailTimes \in Nat \ {0}
    /\ FaultKinds \subseteq {"crash", "sigterm", "stall"}

VARIABLE calls       \* calls[p]: the counter of fail_n_times in process p

demoVars == <<runs, tasks, events, proc, pc, job, reaper, faults, counters,
              calls>>

----------------------------------------------------------------------------
(* Register.                                                               *)
Plain == [timer |-> 0, max_attempts |-> 0]

DemoDefinition ==
    [order_processing |-> <<Plain, Plain, Plain>>,
     timer_demo |-> <<Plain, [timer |-> 1, max_attempts |-> 0], Plain>>,
     retry_demo |-> <<[timer |-> 0, max_attempts |-> 6]>>,
     dlq_demo |-> <<[timer |-> 0, max_attempts |-> 3]>>,
     bench_noop |-> <<Plain>>]

(* Of the handlers only two ever return an error: noop gives its input     *)
(* back, the order's handlers a fixed document.                            *)
DemoInit == MetricsInit /\ calls = [p \in Procs |-> 0]

Handles(w, wf) == runs[job[w].run].workflow = wf

(* The counter's value for a call of fail_n_times made now.  Beyond        *)
(* FailTimes + 1 it makes no difference how large it is.                   *)
CallNumber(p) == Min({calls[p] + 1, FailTimes + 1})

(* Mutant: the error of a handler is lost on its way (a recover that       *)
(* overwrites it), so that failures look like successes.                   *)
ErrorLost(w) == TRUE

Succeeds(w) ==
    /\ ~Handles(w, "dlq_demo")
    /\ Handles(w, "retry_demo") => CallNumber(ProcOf[w]) > FailTimes

Executes(w) == pc[w] = "exec" /\ pc'[w] = "commit"

(* What a handler returns, and what it leaves in the process's memory.     *)
Handlers ==
    /\ \A w \in Workers : Executes(w) =>
          job'[w].outcome = IF Succeeds(w) THEN "json" ELSE "error"
    /\ calls' = [p \in Procs |->
          IF proc[p] \in {"exited", "down"} THEN 0
          ELSE IF \E w \in WorkersOf(p) : Executes(w) /\ Handles(w, "retry_demo")
          THEN CallNumber(p)
          ELSE calls[p]]

DemoNext == MetricsNext /\ Handlers

(* The engine's fairness: one of its execute actions is open to a worker   *)
(* whatever its handler returns.                                           *)
DemoSpec == DemoInit /\ [][DemoNext]_demoVars /\ Fairness

----------------------------------------------------------------------------
(* Properties.                                                             *)

(* What the demonstrations are for: unless it is cancelled, every run ends *)
(* the way its workflow is meant to.  For retry_demo that takes fewer      *)
(* failures than its 6 attempts, though every process, and every restart   *)
(* of one, counts to FailTimes afresh and a lost lease wastes an attempt:  *)
(* FailTimes * (Cardinality(Procs) + MaxFaults) < 6.                       *)
MeantToEnd ==
    [order_processing |-> "completed", timer_demo |-> "completed",
     retry_demo |-> "completed", dlq_demo |-> "failed",
     bench_noop |-> "completed"]

DemosEndAsMeant ==
    \A r \in Runs :
        runs[r].status = "running" ~>
            /\ runs[r].workflow # NULL
            /\ runs[r].status \in {MeantToEnd[runs[r].workflow], "cancelled"}

=============================================================================
