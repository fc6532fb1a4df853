--------------------------- MODULE DuraflowStore ---------------------------
(***************************************************************************)
(* The PostgreSQL store (internal/store/postgres.go over schema.sql).      *)
(*                                                                         *)
(* One action per transaction of the Store interface that changes rows;    *)
(* each is atomic here.  Every operator below is the transaction that      *)
(* takes effect; the calls that commit an empty transaction (a stale fence *)
(* of Advance, Retry or DeadLetter, a reap that finds nothing, cancelling  *)
(* a run that is not running, starting under a claimed key, leasing with   *)
(* nothing due) or roll back leave every row alone, and are stuttering     *)
(* steps of this module.                                                   *)
(*                                                                         *)
(* A task row is addressed by its run and step index: UNIQUE (run_id,      *)
(* step_index) makes that pair a key, and a run's ids are fresh uuids.     *)
(***************************************************************************)
EXTENDS WorkflowTypes, FiniteSets, SequencesExt

CONSTANTS
    Runs,            \* run ids that can be allocated
    LeaseDuration,   \* Config.LeaseDuration, in clock units
    MaxBackoff,      \* bound: the longest retry delay a command carries
    AttemptLimit,    \* largest value of the INTEGER column attempt
    MaxReplays       \* bound: replays an operator makes per run

ASSUME StoreAssumption ==
    /\ LeaseDuration \in Nat \ {0}
    /\ MaxBackoff \in Nat
    /\ AttemptLimit \in Nat \ {0}
    /\ MaxReplays \in Nat

VARIABLES
    runs,     \* runs[r]: row of workflow_runs
    tasks,    \* tasks[r][i]: row of activity_tasks for step i of run r
    events    \* events[r]: the run's rows of events, in id order

storeVars == <<runs, tasks, events>>

TaskRows == Runs \X Steps    \* the keys of activity_tasks

StoreInit ==
    /\ runs = [r \in Runs |-> NoRun]
    /\ tasks = [r \in Runs |-> [i \in Steps |-> NoTask]]
    /\ events = [r \in Runs |-> <<>>]

----------------------------------------------------------------------------
(* Helpers.                                                                *)

(* insertTask: the row a NewTask becomes.                                  *)
InsertTask(t) ==
    [status |-> "pending", kind |-> t.kind, attempt |-> 0,
     max_attempts |-> t.max_attempts, available_at |-> t.available_at,
     lease_expires_at |-> NULL, leased_by |-> NULL,
     input |-> t.input, result |-> NullPayload]

(* insertEvent, for a sequence of events of one run.                       *)
AppendEvents(r, es) == [events EXCEPT ![r] = @ \o es]

(* Mutant: a fence that forgets the owner, and one that forgets the status *)
(* (the owner column outlives the lease).                                  *)
FencedByStatus(r, i, o) == tasks[r][i].status = "leased"

FencedByOwner(r, i, o) == tasks[r][i].leased_by = o

(* The WHERE clause of Advance, Retry and DeadLetter.  It names the owner  *)
(* of the lease and not the attempt it was taken for.                      *)
Fenced(r, i, o) ==
    /\ tasks[r][i].status = "leased"
    /\ tasks[r][i].leased_by = o

Due(t) == t.status = "pending" /\ t.available_at <= 0

(* Mutant: a reaper that leaves tasks without attempts to the worker.      *)
ExpiredWithAttemptsLeft(t) ==
    /\ t.status = "leased"
    /\ t.lease_expires_at # NULL
    /\ t.lease_expires_at < 0
    /\ t.attempt < t.max_attempts

(* A comparison with NULL is not true in SQL.                              *)
Expired(t) ==
    /\ t.status = "leased"
    /\ t.lease_expires_at # NULL
    /\ t.lease_expires_at < 0

(* Mutant: the idempotency pre-check looks at running runs only.           *)
KeyClaimedByRunning(key) ==
    key # NULL /\ \E q \in Runs : runs[q].status = "running"
                                  /\ runs[q].idempotency_key = key

KeyClaimed(key) ==
    key # NULL /\ \E q \in Runs : runs[q].status # "none"
                                  /\ runs[q].idempotency_key = key

----------------------------------------------------------------------------
(* StartRun: the run, its first task and two events.  With a key that a    *)
(* run already holds the existing run is returned and nothing is written.  *)
StartRun(r, wf, total, key, first) ==
    /\ runs[r].status = "none"
    /\ ~KeyClaimed(key)
    /\ runs' = [runs EXCEPT ![r] =
                 [status |-> "running", workflow |-> wf, current_step |-> 0,
                  total_steps |-> total, idempotency_key |-> key,
                  result |-> NullPayload]]
    /\ tasks' = [tasks EXCEPT ![r][0] = InsertTask(first)]
    /\ events' = AppendEvents(r, <<Ev("WorkflowStarted", NoStep),
                                   Ev("ActivityScheduled", 0)>>)

LeasedTo(t, o) ==
    [t EXCEPT !.status = "leased", !.leased_by = o,
              !.lease_expires_at = LeaseDuration, !.attempt = t.attempt + 1]

(* LeaseTask: claim a due pending task.  ORDER BY available_at orders the  *)
(* scan but SKIP LOCKED lets a caller pass over earlier rows, so any due   *)
(* row may be the one returned.  The increment of attempt fails (and the   *)
(* statement with it) at the column's limit.  No event is written.         *)
LeaseTask(o, r, i) ==
    /\ Due(tasks[r][i])
    /\ tasks[r][i].attempt < AttemptLimit
    /\ tasks' = [tasks EXCEPT ![r][i] = LeasedTo(@, o)]
    /\ UNCHANGED <<runs, events>>

(* Mutant: the result is not stored with the task.                         *)
CompletedNoResult(t, result) == [t EXCEPT !.status = "completed"]

CompletedWith(t, result) ==
    [t EXCEPT !.status = "completed", !.result = result]

(* Advance with a next step.  result becomes a JSONB, and the next task's  *)
(* input is that same value in a NOT NULL column: anything but JSON, and a *)
(* row already present for that step, fails the transaction.               *)
AdvanceNext(r, i, o, result, next) ==
    /\ Fenced(r, i, o)
    /\ result.form = "json"
    /\ tasks[r][i + 1].status = "none"
    /\ tasks' = [tasks EXCEPT ![r][i] = CompletedWith(@, result),
                              ![r][i + 1] = InsertTask(next)]
    /\ runs' = [runs EXCEPT ![r].current_step = i + 1]
    /\ events' = AppendEvents(r, <<Ev("ActivityCompleted", i),
                                   Ev("ActivityScheduled", i + 1)>>)

(* Mutant: the run is completed only if it is still running.               *)
AdvanceFinishIfRunning(r, i, o, result) ==
    /\ Fenced(r, i, o)
    /\ result.form # "invalid"
    /\ tasks' = [tasks EXCEPT ![r][i] = CompletedWith(@, result)]
    /\ runs' = IF runs[r].status = "running"
               THEN [runs EXCEPT ![r].status = "completed", ![r].result = result]
               ELSE runs
    /\ events' = AppendEvents(r, <<Ev("ActivityCompleted", i),
                                   Ev("WorkflowCompleted", NoStep)>>)

(* Advance without one: the run completes, whatever its status was.  The   *)
(* result columns are nullable.                                            *)
AdvanceFinish(r, i, o, result) ==
    /\ Fenced(r, i, o)
    /\ result.form # "invalid"
    /\ tasks' = [tasks EXCEPT ![r][i] = CompletedWith(@, result)]
    /\ runs' = [runs EXCEPT ![r].status = "completed", ![r].result = result]
    /\ events' = AppendEvents(r, <<Ev("ActivityCompleted", i),
                                   Ev("WorkflowCompleted", NoStep)>>)

BackToPending(t) ==
    [t EXCEPT !.status = "pending", !.leased_by = NULL,
              !.lease_expires_at = NULL]

(* Retry: back to pending after a delay, the lease cleared.                *)
Retry(r, i, o, delay) ==
    /\ Fenced(r, i, o)
    /\ tasks' = [tasks EXCEPT ![r][i] =
                  [BackToPending(tasks[r][i]) EXCEPT !.available_at = delay]]
    /\ events' = AppendEvents(r, <<Ev("ActivityRetryScheduled", i)>>)
    /\ UNCHANGED runs

(* DeadLetter: the task is parked and its run fails.  The lease columns    *)
(* keep their values.                                                      *)
DeadLetter(r, i, o) ==
    /\ Fenced(r, i, o)
    /\ tasks' = [tasks EXCEPT ![r][i].status = "dead"]
    /\ runs' = [runs EXCEPT ![r].status = "failed"]
    /\ events' = AppendEvents(r, <<Ev("ActivityDeadLettered", i),
                                   Ev("WorkflowFailed", NoStep)>>)

(* ReapExpiredLeases: expired leases, of any runs, go back to pending in   *)
(* one transaction, with one event each.  max_attempts is not looked at.   *)
(* A lease counts as expired if it had run out when the transaction began: *)
(* what expires before it commits is left to the next reap, so that seen   *)
(* from the commit any of the expired rows may be the ones taken.          *)
ExpiredRows == {x \in TaskRows : Expired(tasks[x[1]][x[2]])}

(* Mutant: leases are reclaimed without a trace.                           *)
NoReclaimEvents(steps) == <<>>

(* For the reclaimed steps of one run.                                     *)
ReclaimEvents(steps) ==
    LET order == SetToSeq(steps)
    IN  [k \in 1 .. Cardinality(steps) |-> Ev("TaskReclaimed", order[k])]

Reclaim(taken) ==
    /\ tasks' = [r \in Runs |-> [i \in Steps |->
                  IF <<r, i>> \in taken THEN BackToPending(tasks[r][i])
                                       ELSE tasks[r][i]]]
    /\ events' = [r \in Runs |->
                   events[r] \o ReclaimEvents({i \in Steps : <<r, i>> \in taken})]
    /\ UNCHANGED runs

ReapExpiredLeases == \E taken \in SUBSET ExpiredRows : taken # {} /\ Reclaim(taken)

(* Mutant: attempts restart at -1, for the increment of the next lease.    *)
RequeuedMinusOne(t) ==
    [t EXCEPT !.status = "pending", !.available_at = 0, !.attempt = -1]

Requeued(t) ==
    [t EXCEPT !.status = "pending", !.available_at = 0, !.attempt = 0]

(* Mutant: replaying revives the run, without an event that says so.       *)
ReplayRevives(r, i) ==
    /\ tasks[r][i].status = "dead"
    /\ tasks' = [tasks EXCEPT ![r][i] = Requeued(@)]
    /\ events' = AppendEvents(r, <<Ev("TaskReplayed", i)>>)
    /\ runs' = [runs EXCEPT ![r].status = "running"]

(* ReplayDeadLetter: a dead task is due again with its attempts reset; the *)
(* run keeps the status DeadLetter gave it.                                *)
ReplayDeadLetter(r, i) ==
    /\ tasks[r][i].status = "dead"
    /\ tasks' = [tasks EXCEPT ![r][i] = Requeued(@)]
    /\ events' = AppendEvents(r, <<Ev("TaskReplayed", i)>>)
    /\ UNCHANGED runs

(* Mutant: cancelling whatever the run's status, and cancelling the run    *)
(* but not its tasks.                                                      *)
CancelAnyStatus(r) ==
    /\ runs[r].status # "none"
    /\ runs' = [runs EXCEPT ![r].status = "cancelled"]
    /\ tasks' = [tasks EXCEPT ![r] = [i \in Steps |->
                  IF tasks[r][i].status \in {"none", "completed", "failed",
                                             "dead", "cancelled"}
                  THEN tasks[r][i]
                  ELSE [tasks[r][i] EXCEPT !.status = "cancelled"]]]
    /\ events' = AppendEvents(r, <<Ev("WorkflowCancelled", NoStep)>>)

CancelRunOnly(r) ==
    /\ runs[r].status = "running"
    /\ runs' = [runs EXCEPT ![r].status = "cancelled"]
    /\ events' = AppendEvents(r, <<Ev("WorkflowCancelled", NoStep)>>)
    /\ UNCHANGED tasks

(* CancelRun: only a running run is touched; its unfinished tasks follow.  *)
CancelRun(r) ==
    /\ runs[r].status = "running"
    /\ runs' = [runs EXCEPT ![r].status = "cancelled"]
    /\ tasks' = [tasks EXCEPT ![r] = [i \in Steps |->
                  IF tasks[r][i].status \in {"none", "completed", "failed",
                                             "dead", "cancelled"}
                  THEN tasks[r][i]
                  ELSE [tasks[r][i] EXCEPT !.status = "cancelled"]]]
    /\ events' = AppendEvents(r, <<Ev("WorkflowCancelled", NoStep)>>)

----------------------------------------------------------------------------
(* The clock: now() moves one unit on, so every instant in the future is   *)
(* one unit closer.  How far an instant lies in the past does not matter:  *)
(* 0 is due, -1 is expired.                                                *)
Closer(t) ==
    [t EXCEPT
        !.available_at = IF @ > 0 THEN @ - 1 ELSE @,
        !.lease_expires_at = IF @ # NULL /\ @ >= 0 THEN @ - 1 ELSE @]

Tick ==
    /\ \E r \in Runs : \E i \in Steps : Closer(tasks[r][i]) # tasks[r][i]
    /\ tasks' = [r \in Runs |-> [i \in Steps |-> Closer(tasks[r][i])]]
    /\ UNCHANGED <<runs, events>>

----------------------------------------------------------------------------
(* The commands the engine and the API issue.  StartWorkflow refuses an    *)
(* empty definition; nextStep compares the task's step with the definition *)
(* of the run's workflow.                                                  *)
StartWorkflow(r, wf, key) ==
    /\ TotalSteps(wf) > 0
    /\ StartRun(r, wf, TotalSteps(wf), key, BuildTask(wf, 0, RunInput))

Finished(r, i) == i + 1 >= TotalSteps(runs[r].workflow)

(* nextStep reckons available_at before the transaction begins: part of a  *)
(* timer's wait may be over when it commits.                               *)
NextTasks(wf, i, input) ==
    LET task == BuildTask(wf, i, input)
    IN  {[task EXCEPT !.available_at = at] : at \in 0 .. task.available_at}

Advance(r, i, o, result) ==
    /\ runs[r].status # "none"      \* GetRun found the run
    /\ \/ /\ ~Finished(r, i)
          /\ \E next \in NextTasks(runs[r].workflow, i + 1, result) :
                AdvanceNext(r, i, o, result, next)
       \/ /\ Finished(r, i)
          /\ AdvanceFinish(r, i, o, result)

Replays(r) == Cardinality({k \in DOMAIN events[r] :
                              events[r][k].type = "TaskReplayed"})

Replay(r, i) == Replays(r) < MaxReplays /\ ReplayDeadLetter(r, i)

(* The results that can reach Advance for a task leased by o.              *)
ResultsBy(o) == [by : {o}, attempt : 1 .. AttemptLimit,
                 form : {"json", "null", "invalid"}]

StoreNext ==
    \/ \E r \in Runs : \E wf \in Workflows : \E key \in Keys \cup {NULL} :
          StartWorkflow(r, wf, key)
    \/ \E r \in Runs : CancelRun(r)
    \/ \E r \in Runs : \E i \in Steps : Replay(r, i)
    \/ \E r \in Runs : \E i \in Steps : \E o \in Owners :
          \/ LeaseTask(o, r, i)
          \/ \E p \in ResultsBy(o) : Advance(r, i, o, p)
          \/ \E d \in 0 .. MaxBackoff : Retry(r, i, o, d)
          \/ DeadLetter(r, i, o)
    \/ ReapExpiredLeases
    \/ Tick

StoreSpec == StoreInit /\ [][StoreNext]_storeVars

----------------------------------------------------------------------------
(* Properties.                                                             *)

(* Every row and event has the type of its columns.                        *)
StoreTypeOK ==
    /\ runs \in [Runs -> RunRow]
    /\ tasks \in [Runs -> [Steps -> TaskRow]]
    /\ events \in [Runs -> Seq(Event)]

(* The shape of a run's rows.  The run points at the only step that is not *)
(* settled: every earlier step is completed and no later one is scheduled. *)
(* A running run always has a task a worker can pick up or holds, so it is *)
(* never stuck for lack of one; a completed run has completed its last     *)
(* step; a cancelled run keeps no task a worker could still pick up; and a *)
(* failed run has its dead task, or that task replayed.                    *)
TaskFits(run, t) ==
    \/ run.status = "running" /\ t.status \in Outstanding
    \/ run.status = "completed" /\ t.status = "completed"
                                /\ run.current_step = run.total_steps - 1
    \/ run.status = "failed" /\ t.status \in {"dead"} \cup Outstanding
    \/ run.status = "cancelled" /\ t.status = "cancelled"

ShapeOf(run, ts) ==
    IF run.status = "none"
    THEN \A i \in Steps : ts[i].status = "none"
    ELSE /\ run.workflow \in Workflows
         /\ run.total_steps = TotalSteps(run.workflow)
         /\ run.current_step < run.total_steps
         /\ \A i \in Steps :
               /\ i < run.current_step => ts[i].status = "completed"
               /\ i > run.current_step => ts[i].status = "none"
         /\ TaskFits(run, ts[run.current_step])

RunShape == \A r \in Runs : ShapeOf(runs[r], tasks[r])

(* The data hand-off of Advance and nextStep: the first task works on the  *)
(* run's input, every later one on exactly the result its predecessor      *)
(* committed, and a completed run reports its last step's result.          *)
HandOff ==
    \A r \in Runs : \A i \in Steps :
        LET ts == tasks[r]
        IN  /\ ts[i].status # "none" =>
                 ts[i].input = IF i = 0 THEN RunInput ELSE ts[i - 1].result
            /\ (ts[i].status = "completed" /\ runs[r].status = "completed"
                 /\ i = runs[r].total_steps - 1) =>
                 runs[r].result = ts[i].result

(* The history counts a step's completion exactly once, however often its  *)
(* task was leased, reclaimed, retried or replayed: at most one            *)
(* ActivityCompleted event per step, and one if and only if the row says   *)
(* completed.                                                              *)
CompletionEvents(r, i) ==
    {k \in DOMAIN events[r] : events[r][k] = Ev("ActivityCompleted", i)}

OneCompletionEvent ==
    \A r \in Runs : \A i \in Steps :
        /\ \A j, k \in CompletionEvents(r, i) : j = k
        /\ tasks[r][i].status = "completed" <=> CompletionEvents(r, i) # {}

(* The history alone tells a reader where the run stands.  The run's       *)
(* status is the one its latest lifecycle event announces, and a task that *)
(* is pending or leased, completed or dead is told by the latest event     *)
(* that names it (a cancelled run's task is told by the cancellation).     *)
LatestOf(r, S) ==
    LET ks == {k \in DOMAIN events[r] : events[r][k] \in S}
    IN  IF ks = {} THEN "nothing" ELSE events[r][Max(ks)].type

Announces ==
    [nothing |-> "none", WorkflowStarted |-> "running",
     WorkflowCompleted |-> "completed", WorkflowFailed |-> "failed",
     WorkflowCancelled |-> "cancelled"]

LeavesTask ==
    [nothing |-> {"none"},
     ActivityScheduled |-> Outstanding, ActivityRetryScheduled |-> Outstanding,
     TaskReclaimed |-> Outstanding, TaskReplayed |-> Outstanding,
     ActivityCompleted |-> {"completed"}, ActivityDeadLettered |-> {"dead"}]

HistoryTellsState ==
    \A r \in Runs :
        /\ runs[r].status = Announces[LatestOf(r, [type : EventType,
                                                   step : {NoStep}])]
        /\ \A i \in Steps :
             LET told == LeavesTask[LatestOf(r, [type : EventType,
                                                 step : {i}])]
             IN  \/ tasks[r][i].status \in told
                 \/ /\ tasks[r][i].status = "cancelled"
                    /\ runs[r].status = "cancelled"
                    /\ told = Outstanding

(* No later transaction, in any order, changes a run that completed or was *)
(* cancelled: not its row, not its tasks' statuses, attempts or results,   *)
(* and no event is added to its history.                                   *)
Settled(t) == <<t.status, t.attempt, t.input, t.result>>

FinalRunsFrozen ==
    [][\A r \in Runs : runs[r].status \in {"completed", "cancelled"} =>
          /\ runs'[r] = runs[r]
          /\ events'[r] = events[r]
          /\ \A i \in Steps : Settled(tasks'[r][i]) = Settled(tasks[r][i])
      ]_storeVars

(* The store implements the promise of WorkflowRun: the completed tasks of *)
(* a run are the steps done.                                               *)
Abstract == INSTANCE WorkflowRun WITH
    Lengths <- 1 .. MaxSteps,
    status <- [r \in Runs |-> runs[r].status],
    total <- [r \in Runs |-> runs[r].total_steps],
    done <- [r \in Runs |->
                {i \in Steps : tasks[r][i].status = "completed"}]

ImplementsWorkflowRun == Abstract!RunSpec

=============================================================================
