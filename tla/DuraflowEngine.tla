--------------------------- MODULE DuraflowEngine ---------------------------
(***************************************************************************)
(* The execution core (internal/engine/engine.go) running against the      *)
(* store: processes, each with its worker goroutines and its reaper, the   *)
(* clients that start, cancel and replay, and the clock.                   *)
(*                                                                         *)
(* A worker's loop is cut at every point where another actor can step in:  *)
(*                                                                         *)
(*   "poll"     at the loop's select on ctx (or sleeping before it)        *)
(*   "lease"    past the select, about to call LeaseTask                   *)
(*   "exec"     running the handler of the task it leased                  *)
(*   "commit"   about to call Advance, Retry or DeadLetter                 *)
(*   "stopped"  the goroutine has returned                                 *)
(*                                                                         *)
(* What goes wrong in the environment is bounded by a budget of MaxFaults  *)
(* faults, of the kinds in FaultKinds:                                     *)
(*                                                                         *)
(*   "crash"    a process dies between any two of its steps                *)
(*   "sigterm"  a process is told to shut down                             *)
(*   "stall"    a handler (or its commit) outlives its lease               *)
(*   "db"       a database call fails, or succeeds and its answer is lost  *)
(*   "payload"  a handler returns a result, or an error text, that the     *)
(*              database refuses                                           *)
(***************************************************************************)
EXTENDS DuraflowStore

CONSTANTS
    Procs,         \* processes running cmd/duraflow against one database
    Workers,       \* worker goroutines, of all processes
    ProcOf,        \* ProcOf[w]: the process of worker w
    OwnerId,       \* OwnerId[w]: WorkerID-index, what w writes in leased_by
    BackoffBase,   \* Config.BackoffBase, in clock units
    DurationBits,  \* width of time.Duration (64; small instances: fewer)
    FaultKinds,    \* kinds of faults the environment may inject
    MaxFaults      \* bound: how many it injects

ASSUME EngineAssumption ==
    /\ ProcOf \in [Workers -> Procs]
    /\ OwnerId \in [Workers -> Owners]
    /\ DurationBits \in Nat \ {0}
    /\ BackoffBase \in Nat \ {0}
    /\ BackoffBase < 2 ^ (DurationBits - 1)
    /\ MaxBackoff < 2 ^ (DurationBits - 1)
    /\ FaultKinds \subseteq {"crash", "sigterm", "stall", "db", "payload"}
    /\ MaxFaults \in Nat
    /\ NULL \notin Runs

VARIABLES
    proc,      \* proc[p]: "up", "draining" (ctx cancelled), "exited", "down"
    pc,        \* pc[w]: where worker w is
    job,       \* job[w]: the task in hand: its snapshot and the outcome
    reaper,    \* reaper[p]: "ticking" or "stopped"
    faults     \* faults injected so far

engineVars == <<proc, pc, job, reaper, faults>>
vars == <<runs, tasks, events, proc, pc, job, reaper, faults>>

(* The handler's outcome: the form of its result, or an error whose text   *)
(* the store can write ("error") or cannot ("raw").                        *)
Forms == {"json", "null", "invalid"}
Errors == {"error", "raw"}

Job == [run : Runs \cup {NULL}, step : Steps, attempt : Nat,
        outcome : {"none"} \cup Forms \cup Errors]

NoJob == [run |-> NULL, step |-> 0, attempt |-> 0, outcome |-> "none"]

WorkersOf(p) == {w \in Workers : ProcOf[w] = p}

Alive(p) == proc[p] \in {"up", "draining"}

Busy(w) == pc[w] \in {"exec", "commit"}

Init ==
    /\ StoreInit
    /\ proc = [p \in Procs |-> "up"]
    /\ pc = [w \in Workers |-> "poll"]
    /\ job = [w \in Workers |-> NoJob]
    /\ reaper = [p \in Procs |-> "ticking"]
    /\ faults = 0

Fault(kind) ==
    /\ kind \in FaultKinds
    /\ faults < MaxFaults
    /\ faults' = faults + 1

----------------------------------------------------------------------------
(* worker: the loop.                                                       *)

(* Mutant: a loop that does not look at ctx.                               *)
PollForever(w) ==
    /\ pc[w] = "poll"
    /\ pc' = [pc EXCEPT ![w] = "lease"]
    /\ UNCHANGED <<storeVars, proc, job, reaper, faults>>

(* The select at the top of the loop, and the one in sleep.                *)
Poll(w) ==
    /\ pc[w] = "poll"
    /\ pc' = [pc EXCEPT ![w] = IF proc[ProcOf[w]] = "draining"
                               THEN "stopped" ELSE "lease"]
    /\ UNCHANGED <<storeVars, proc, job, reaper, faults>>

(* Mutant: the worker looks at ctx again once it has its lease.            *)
LeaseThenStop(w, r, i) ==
    /\ pc[w] = "lease"
    /\ LeaseTask(OwnerId[w], r, i)
    /\ pc' = [pc EXCEPT ![w] = IF proc[ProcOf[w]] = "draining"
                               THEN "stopped" ELSE "exec"]
    /\ job' = [job EXCEPT ![w] = [run |-> r, step |-> i,
                                  attempt |-> tasks[r][i].attempt + 1,
                                  outcome |-> "none"]]
    /\ UNCHANGED <<proc, reaper, faults>>

(* LeaseTask is called with a background context: whatever has happened to *)
(* ctx since the select, the lease is taken and the task executed.         *)
Lease(w, r, i) ==
    /\ pc[w] = "lease"
    /\ LeaseTask(OwnerId[w], r, i)
    /\ pc' = [pc EXCEPT ![w] = "exec"]
    /\ job' = [job EXCEPT ![w] = [run |-> r, step |-> i,
                                  attempt |-> tasks[r][i].attempt + 1,
                                  outcome |-> "none"]]
    /\ UNCHANGED <<proc, reaper, faults>>

(* Nothing is due: sleep and poll again.                                   *)
LeaseNone(w) ==
    /\ pc[w] = "lease"
    /\ ~ \E r \in Runs : \E i \in Steps :
            Due(tasks[r][i]) /\ tasks[r][i].attempt < AttemptLimit
    /\ pc' = [pc EXCEPT ![w] = "poll"]
    /\ UNCHANGED <<storeVars, proc, job, reaper, faults>>

(* LeaseTask returns an error, and the worker sleeps and polls again.  The *)
(* statement may have committed all the same.                              *)
LeaseError(w) ==
    /\ pc[w] = "lease"
    /\ Fault("db")
    /\ \/ \E r \in Runs : \E i \in Steps : LeaseTask(OwnerId[w], r, i)
       \/ UNCHANGED storeVars
    /\ pc' = [pc EXCEPT ![w] = "poll"]
    /\ UNCHANGED <<proc, job, reaper>>

----------------------------------------------------------------------------
(* execute: what running the task gives.                                   *)
IsTimer(w) == tasks[job[w].run][job[w].step].kind = "timer"

Returns(w, outcome) ==
    /\ pc[w] = "exec"
    /\ job' = [job EXCEPT ![w].outcome = outcome]
    /\ pc' = [pc EXCEPT ![w] = "commit"]

(* The timer fires, or the handler returns JSON.                           *)
ExecuteOk(w) ==
    /\ Returns(w, "json")
    /\ UNCHANGED <<storeVars, proc, reaper, faults>>

(* No handler is registered, or it returns an error or panics (safeInvoke  *)
(* turns a panic into an error).                                           *)
ExecuteFail(w) ==
    /\ Returns(w, "error")
    /\ ~IsTimer(w)
    /\ UNCHANGED <<storeVars, proc, reaper, faults>>

(* The handler succeeds, or the timer fires, but nextStep cannot read the  *)
(* run: advance treats it as a failure of the task.                        *)
NextStepFail(w) ==
    /\ Returns(w, "error")
    /\ Fault("db")
    /\ UNCHANGED <<storeVars, proc, reaper>>

(* The handler returns nil bytes, bytes that are not JSON, or an error     *)
(* whose text does not survive quoting with %q as JSON.                    *)
ExecuteOdd(w) ==
    /\ \E outcome \in {"null", "invalid", "raw"} : Returns(w, outcome)
    /\ ~IsTimer(w)
    /\ Fault("payload")
    /\ UNCHANGED <<storeVars, proc, reaper>>

----------------------------------------------------------------------------
(* advance and fail: the task in hand is concluded by one transaction.     *)
HoldsLease(w) == Fenced(job[w].run, job[w].step, OwnerId[w])

ResultOf(w) == [by |-> OwnerId[w], attempt |-> job[w].attempt,
                form |-> job[w].outcome]

(* What the transaction can write; nil bytes only where no next task takes *)
(* them as its input.                                                      *)
Writable(w) ==
    \/ job[w].outcome \in {"json", "error"}
    \/ job[w].outcome = "null" /\ Finished(job[w].run, job[w].step)

(* Mutant: the attempt in hand is counted as one to come.                  *)
ExhaustedEarly(w) ==
    job[w].attempt + 1 >= tasks[job[w].run][job[w].step].max_attempts

Exhausted(w) ==
    job[w].attempt >= tasks[job[w].run][job[w].step].max_attempts

(* BackoffBase << (attempt - 1) in a signed integer of DurationBits bits.  *)
Shifted(attempt) ==
    LET u == (BackoffBase * 2 ^ (attempt - 1)) % 2 ^ DurationBits
    IN  IF u >= 2 ^ (DurationBits - 1) THEN u - 2 ^ DurationBits ELSE u

(* Mutant: a shift that overflowed is not looked for.                      *)
ExpUnchecked(attempt) ==
    IF Shifted(attempt) > MaxBackoff THEN MaxBackoff ELSE Shifted(attempt)

(* Mutant: the cap is not applied.                                         *)
ExpUncapped(attempt) ==
    IF Shifted(attempt) <= 0 THEN MaxBackoff ELSE Shifted(attempt)

(* backoff's exp: exponential in the attempt and capped at BackoffMax,     *)
(* also when the shift ran into the sign or out of the word.               *)
Exp(attempt) ==
    IF Shifted(attempt) <= 0 \/ Shifted(attempt) > MaxBackoff
    THEN MaxBackoff ELSE Shifted(attempt)

(* With full jitter the delay is any value up to exp; rng.duration answers *)
(* 0 to anything that is not positive.                                     *)
BackoffDelays(attempt) == {0} \cup 0 .. Exp(attempt)

BackToPoll(w) ==
    /\ pc[w] = "commit"
    /\ pc' = [pc EXCEPT ![w] = "poll"]
    /\ job' = [job EXCEPT ![w] = NoJob]
    /\ UNCHANGED <<proc, reaper>>

AdvanceJob(w) ==
    /\ job[w].outcome \in Forms
    /\ Advance(job[w].run, job[w].step, OwnerId[w], ResultOf(w))

RetryJob(w) ==
    /\ job[w].outcome = "error"
    /\ ~Exhausted(w)
    /\ \E d \in BackoffDelays(job[w].attempt) :
          Retry(job[w].run, job[w].step, OwnerId[w], d)

DeadLetterJob(w) ==
    /\ job[w].outcome = "error"
    /\ Exhausted(w)
    /\ DeadLetter(job[w].run, job[w].step, OwnerId[w])

CommitAdvance(w) == BackToPoll(w) /\ AdvanceJob(w) /\ UNCHANGED faults

CommitRetry(w) == BackToPoll(w) /\ RetryJob(w) /\ UNCHANGED faults

CommitDeadLetter(w) == BackToPoll(w) /\ DeadLetterJob(w) /\ UNCHANGED faults

(* The fence no longer holds (the transaction commits empty), or the       *)
(* database refuses what it would write (it rolls back, the error is       *)
(* logged).  Either way the worker goes on to its next task.               *)
CommitNothing(w) ==
    /\ BackToPoll(w)
    /\ ~(HoldsLease(w) /\ Writable(w))
    /\ UNCHANGED <<storeVars, faults>>

(* The database fails: the transaction is rolled back and the row stays    *)
(* leased, or it commits and the worker does not learn of it.  Either way  *)
(* the error is logged and nothing else.                                   *)
CommitError(w) ==
    /\ BackToPoll(w)
    /\ Fault("db")
    /\ \/ UNCHANGED storeVars
       \/ AdvanceJob(w) \/ RetryJob(w) \/ DeadLetterJob(w)

----------------------------------------------------------------------------
(* reaper: on each tick of its timer.  After ctx is cancelled the select   *)
(* may still choose a tick that is ready.                                  *)
Reap(p) ==
    /\ reaper[p] = "ticking"
    /\ ReapExpiredLeases
    /\ UNCHANGED engineVars

ReaperStop(p) ==
    /\ proc[p] = "draining"
    /\ reaper[p] = "ticking"
    /\ reaper' = [reaper EXCEPT ![p] = "stopped"]
    /\ UNCHANGED <<storeVars, proc, pc, job, faults>>

----------------------------------------------------------------------------
(* Run and main: a signal (or the HTTP server failing) cancels ctx; the    *)
(* process exits when every goroutine of the pool has returned.            *)
Sigterm(p) ==
    /\ proc[p] = "up"
    /\ Fault("sigterm")
    /\ proc' = [proc EXCEPT ![p] = "draining"]
    /\ UNCHANGED <<storeVars, pc, job, reaper>>

Exit(p) ==
    /\ proc[p] = "draining"
    /\ reaper[p] = "stopped"
    /\ \A w \in WorkersOf(p) : pc[w] = "stopped"
    /\ proc' = [proc EXCEPT ![p] = "exited"]
    /\ UNCHANGED <<storeVars, pc, job, reaper, faults>>

Crash(p) ==
    /\ Alive(p)
    /\ Fault("crash")
    /\ proc' = [proc EXCEPT ![p] = "down"]
    /\ pc' = [w \in Workers |-> IF ProcOf[w] = p THEN "stopped" ELSE pc[w]]
    /\ job' = [w \in Workers |-> IF ProcOf[w] = p THEN NoJob ELSE job[w]]
    /\ reaper' = [reaper EXCEPT ![p] = "stopped"]
    /\ UNCHANGED storeVars

(* A process is started again on the same host: its workers have the same  *)
(* ids.                                                                    *)
Restart(p) ==
    /\ proc[p] \in {"exited", "down"}
    /\ proc' = [proc EXCEPT ![p] = "up"]
    /\ pc' = [w \in Workers |-> IF ProcOf[w] = p THEN "poll" ELSE pc[w]]
    /\ reaper' = [reaper EXCEPT ![p] = "ticking"]
    /\ UNCHANGED <<storeVars, job, faults>>

----------------------------------------------------------------------------
(* Requests served by a process that is not gone, and the clock.           *)
Client ==
    /\ \E p \in Procs : Alive(p)
    /\ \E r \in Runs :
          \/ \E wf \in Workflows : \E key \in Keys \cup {NULL} :
                StartWorkflow(r, wf, key)
          \/ CancelRun(r)
          \/ \E i \in Steps : Replay(r, i)
    /\ UNCHANGED engineVars

(* The next unit of time takes the lease of a task in hand past its end.   *)
Overrun ==
    \E w \in Workers :
        /\ Busy(w)
        /\ HoldsLease(w)
        /\ tasks[job[w].run][job[w].step].lease_expires_at = 0

Clock ==
    /\ Tick
    /\ IF Overrun THEN Fault("stall") ELSE UNCHANGED faults
    /\ UNCHANGED <<proc, pc, job, reaper>>

----------------------------------------------------------------------------
WorkerStep(w) ==
    \/ Poll(w)
    \/ \E r \in Runs : \E i \in Steps : Lease(w, r, i)
    \/ LeaseNone(w)
    \/ ExecuteOk(w)
    \/ ExecuteFail(w)
    \/ CommitAdvance(w)
    \/ CommitRetry(w)
    \/ CommitDeadLetter(w)
    \/ CommitNothing(w)

WorkerFault(w) ==
    \/ LeaseError(w)
    \/ NextStepFail(w)
    \/ ExecuteOdd(w)
    \/ CommitError(w)

Next ==
    \/ \E w \in Workers : WorkerStep(w) \/ WorkerFault(w)
    \/ \E p \in Procs : \/ Reap(p) \/ ReaperStop(p)
                        \/ Sigterm(p) \/ Exit(p) \/ Crash(p) \/ Restart(p)
    \/ Client
    \/ Clock

Spec == Init /\ [][Next]_vars

(* Goroutines are scheduled, handlers return, tickers tick, time passes,   *)
(* and a process that went away is started again by its supervisor.        *)
Fairness ==
    /\ \A w \in Workers : WF_vars(WorkerStep(w))
    /\ \A p \in Procs : /\ WF_vars(Reap(p)) /\ WF_vars(ReaperStop(p))
                        /\ WF_vars(Exit(p)) /\ WF_vars(Restart(p))
    /\ WF_vars(Clock)

FairSpec == Spec /\ Fairness

----------------------------------------------------------------------------
(* Properties.                                                             *)

(* The engine's variables have their types.                                *)
EngineTypeOK ==
    /\ StoreTypeOK
    /\ proc \in [Procs -> {"up", "draining", "exited", "down"}]
    /\ pc \in [Workers -> {"poll", "lease", "exec", "commit", "stopped"}]
    /\ job \in [Workers -> Job]
    /\ reaper \in [Procs -> {"ticking", "stopped"}]
    /\ faults \in 0 .. MaxFaults

(* No two workers write the same id in leased_by: the processes run on     *)
(* hosts of different names.                                               *)
DistinctOwners ==
    \A v, w \in Workers : OwnerId[v] = OwnerId[w] => v = w

(* The fence of Advance, Retry and DeadLetter compares the owner only, yet *)
(* it never lets an old attempt through: a worker whose task is leased in  *)
(* its name is working on the attempt the row counts.                      *)
FenceIsCurrent ==
    \A w \in Workers : Busy(w) /\ HoldsLease(w) =>
        job[w].attempt = tasks[job[w].run][job[w].step].attempt

(* A result that was committed is the one computed under the last lease of *)
(* the task, never one a worker kept from a lease that had been reclaimed  *)
(* (or from before a replay reset the attempts).                           *)
CommittedByLastLease ==
    \A r \in Runs : \A i \in Steps :
        LET t == tasks[r][i]
        IN  t.status = "completed" =>
                t.result.by = t.leased_by /\ t.result.attempt = t.attempt

(* A task is dead-lettered only after its last permitted attempt.          *)
DeadOnlyExhausted ==
    \A r \in Runs : \A i \in Steps :
        tasks[r][i].status = "dead" =>
            tasks[r][i].attempt >= tasks[r][i].max_attempts

(* The delays a worker about to schedule a retry draws from are those the  *)
(* exponential law allows, whatever the shift does to the machine word: up *)
(* to BackoffBase * 2^(attempt - 1), or to the cap once that is beyond it. *)
(* (For every base whose wrapped multiples are 0, negative or above the    *)
(* cap; 500 ms under a cap of 5 min is one, at 64 bits.)                   *)
BackoffCapped ==
    \A w \in Workers :
        (pc[w] = "commit" /\ job[w].outcome = "error" /\ ~Exhausted(w)) =>
            BackoffDelays(job[w].attempt) =
                0 .. Min({MaxBackoff, BackoffBase * 2 ^ (job[w].attempt - 1)})

(* Draining abandons nothing: as long as processes are only told to stop   *)
(* (and never crash, and the database answers), every leased task is in    *)
(* the hands of the worker whose lease it is, so a process that has exited *)
(* leaves no task that must wait for its lease to expire.                  *)
NoAbandonedLease ==
    \A r \in Runs : \A i \in Steps :
        tasks[r][i].status = "leased" =>
            \E w \in Workers :
                /\ Busy(w)
                /\ job[w].run = r /\ job[w].step = i
                /\ job[w].attempt = tasks[r][i].attempt
                /\ HoldsLease(w)

(* Every run's outstanding work is concluded: crashed workers' tasks are   *)
(* reclaimed and finished, late answers are discarded without losing the   *)
(* task, and replayed tasks are carried through.                           *)
HasWork(r) == \E i \in Steps : tasks[r][i].status \in Outstanding

WorkConcludes == \A r \in Runs : HasWork(r) ~> ~HasWork(r)

(* A process told to stop exits (or dies first).                           *)
DrainTerminates == \A p \in Procs : proc[p] = "draining" ~> ~Alive(p)

(* Every step of the engine is a transaction of the store, or changes no   *)
(* row: what holds of the store under any order of well-formed commands    *)
(* holds of it under the engine.                                           *)
ImplementsStore == StoreSpec

----------------------------------------------------------------------------
(* Claims of the repository's texts that the code does not keep.           *)

(* README, delivery guarantees: "After `max_attempts`, a task is           *)
(* dead-lettered and its run is failed".  So no task is ever leased more   *)
(* often than that.                                                        *)
AttemptsWithinMax ==
    \A r \in Runs : \A i \in Steps :
        tasks[r][i].attempt <= tasks[r][i].max_attempts

(* workflow/types.go, ActivityFunc: "a non-nil error triggers              *)
(* retry/backoff (and eventually DLQ)".  So a worker that still holds the  *)
(* lease and whose handler returned an error does not leave the task       *)
(* leased behind.                                                          *)
ErrorsAreConcluded ==
    [][\A w \in Workers :
          (/\ pc[w] = "commit" /\ pc'[w] = "poll"
           /\ job[w].outcome \in Errors
           /\ HoldsLease(w)) =>
              tasks'[job[w].run][job[w].step].status \in {"pending", "dead"}
      ]_vars

=============================================================================
