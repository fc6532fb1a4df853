-------------------------- MODULE DuraflowMetrics --------------------------
(***************************************************************************)
(* The Prometheus counters (internal/metrics/metrics.go) as the engine     *)
(* moves them.  Every process has its own, in memory; a process that is    *)
(* started again begins at 0.  A counter moves when the worker has learnt  *)
(* that its transaction committed, and a transaction whose fence no longer *)
(* held commits too, empty: it is counted like any other.                  *)
(*                                                                         *)
(* The histograms observe durations and the gauge QueueDepth is never set: *)
(* neither is modelled.                                                    *)
(***************************************************************************)
EXTENDS DuraflowEngine

VARIABLE counters   \* counters[p]: the counters process p exposes

metricsVars == <<runs, tasks, events, proc, pc, job, reaper, faults, counters>>

Counter == {"TasksLeased", "TasksCompleted", "TasksFailed", "TasksDead",
            "TasksReclaimed", "TimersFired", "RunsStarted", "RunsCompleted"}

NewCounters == [c \in Counter |-> 0]

MetricsInit == Init /\ counters = [p \in Procs |-> NewCounters]

Add(p, cs, n) ==
    counters' = [counters EXCEPT ![p] =
                  [c \in Counter |-> IF c \in cs THEN @[c] + n ELSE @[c]]]

Inc(w, cs) == Add(ProcOf[w], cs, 1)

----------------------------------------------------------------------------
(* advance and fail, once the store has returned nil.                      *)
CompletedCounters(w) ==
    {"TasksCompleted"} \cup
    (IF Finished(job[w].run, job[w].step) THEN {"RunsCompleted"} ELSE {})

(* Mutant: a timer that fires is counted as a task done at once.           *)
FiredIsCompleted(w) ==
    IF IsTimer(w) THEN {"TimersFired", "TasksCompleted"} ELSE {}

FiredCounters(w) == IF IsTimer(w) THEN {"TimersFired"} ELSE {}

(* Mutant: what the fence discards is not counted.                         *)
DiscardedUncounted(w) == {{}}

(* What may be counted when the transaction changed nothing: as a success  *)
(* when the fence turned it away, not at all when the database refused     *)
(* what it was given (of an error text that is not JSON, an empty          *)
(* transaction only refuses a NUL byte).                                   *)
DiscardedCounters(w) ==
    IF HoldsLease(w) THEN {{}}
    ELSE CASE job[w].outcome \in {"json", "null"} -> {CompletedCounters(w)}
           [] job[w].outcome = "error" /\ Exhausted(w) -> {{"TasksDead"}}
           [] job[w].outcome = "raw" /\ Exhausted(w) -> {{}, {"TasksDead"}}
           [] OTHER -> {{}}

CountedStep(w) ==
    \/ (Poll(w) \/ LeaseNone(w) \/ CommitRetry(w)) /\ UNCHANGED counters
    \/ /\ \E r \in Runs : \E i \in Steps : Lease(w, r, i)
       /\ Inc(w, {"TasksLeased"})
    \/ ExecuteOk(w) /\ Inc(w, FiredCounters(w))
    \/ ExecuteFail(w) /\ Inc(w, {"TasksFailed"})
    \/ CommitAdvance(w) /\ Inc(w, CompletedCounters(w))
    \/ CommitDeadLetter(w) /\ Inc(w, {"TasksDead"})
    \/ CommitNothing(w) /\ \E cs \in DiscardedCounters(w) : Inc(w, cs)

(* advance hands an error of nextStep to fail, which counts it; of the odd *)
(* outcomes only an error is counted, when it is returned.                 *)
CountedFault(w) ==
    \/ (LeaseError(w) \/ CommitError(w)) /\ UNCHANGED counters
    \/ /\ NextStepFail(w)
       /\ Inc(w, {"TasksFailed"} \cup FiredCounters(w))
    \/ /\ ExecuteOdd(w)
       /\ Inc(w, IF job'[w].outcome = "raw" THEN {"TasksFailed"} ELSE {})

(* A reap whose answer is lost took effect and is not counted.             *)
CountedReap(p) ==
    /\ Reap(p)
    /\ \/ Add(p, {"TasksReclaimed"},
              Cardinality({x \in TaskRows : tasks'[x[1]][x[2]] # tasks[x[1]][x[2]]}))
       \/ "db" \in FaultKinds /\ UNCHANGED counters

(* StartWorkflow counts a run it created, in the process that serves the   *)
(* request, unless it is not told that it did; other requests are not      *)
(* counted.                                                                *)
CountedClient ==
    /\ Client
    /\ \/ \E p \in Procs :
             /\ Alive(p)
             /\ Add(p, {"RunsStarted"},
                    Cardinality({r \in Runs : runs[r].status = "none"
                                              /\ runs'[r].status # "none"}))
       \/ "db" \in FaultKinds /\ UNCHANGED counters

(* The collectors are made anew with the process.                          *)
CountedRestart(p) ==
    /\ Restart(p)
    /\ counters' = [counters EXCEPT ![p] = NewCounters]

MetricsNext ==
    \/ \E w \in Workers : CountedStep(w) \/ CountedFault(w)
    \/ \E p \in Procs : CountedReap(p) \/ CountedRestart(p)
    \/ /\ \E p \in Procs : ReaperStop(p) \/ Sigterm(p) \/ Exit(p) \/ Crash(p)
       /\ UNCHANGED counters
    \/ CountedClient
    \/ Clock /\ UNCHANGED counters

MetricsSpec == MetricsInit /\ [][MetricsNext]_metricsVars

----------------------------------------------------------------------------
(* Properties.                                                             *)

(* The books of a process balance: every task it leased was counted as     *)
(* completed or as failed, or is still in the hands of a worker, also when *)
(* its commit was discarded or came after the order to stop.  Failures of  *)
(* the database and payloads it refuses leave leases that are counted as   *)
(* neither.                                                                *)
InHand(p) ==
    {w \in WorkersOf(p) : \/ pc[w] = "exec"
                          \/ pc[w] = "commit" /\ job[w].outcome \in Forms}

LeasesAccountedFor ==
    \A p \in Procs : Alive(p) =>
        LET c == counters[p]
            settled == c["TasksCompleted"] + c["TasksFailed"]
                       + Cardinality(InHand(p))
        IN  /\ c["TasksLeased"] >= settled
            /\ FaultKinds \cap {"db", "payload"} = {} =>
                 c["TasksLeased"] = settled

(* A discarded commit is counted like one that took effect, so the         *)
(* counters can exceed the truth; but only by as many as there are leases  *)
(* that were taken away, by the reaper or by a cancel.                     *)
Total(c) == Cardinality(UNION {{p} \X (1 .. counters[p][c]) : p \in Procs})

EventCount(type) ==
    Cardinality(UNION {{r} \X {k \in DOMAIN events[r] :
                                  events[r][k].type = type} : r \in Runs})

LeasesTakenAway ==
    EventCount("TaskReclaimed")
    + Cardinality({x \in Runs \X Steps :
                      tasks[x[1]][x[2]].status = "cancelled"})

CountsAreBacked ==
    /\ Total("TasksCompleted") + Total("TasksDead") <=
          EventCount("ActivityCompleted") + EventCount("ActivityDeadLettered")
          + LeasesTakenAway
    /\ Total("RunsCompleted") <=
          EventCount("WorkflowCompleted") + LeasesTakenAway

=============================================================================
