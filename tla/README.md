# Duraflow in TLA+

Duraflow is a durable workflow engine: workflows are ordered lists of steps
(activities or timers), executed by pools of workers that lease task rows from
one PostgreSQL database. This directory models the parts that decide whether a
workflow runs correctly: the store's transactions down to their statements, the
workers and reapers of any number of processes that issue them, the HTTP API, the
counters, the built-in workflows and the dashboard's page of a run, and what goes
wrong around them.

## 1. Inventory

| Component | State | Operations | Interacts with |
|---|---|---|---|
| Domain model (`internal/workflow`) | registry of definitions and handlers, fixed at start-up | look-ups | engine, API |
| Store (`internal/store`, `schema.sql`) | `workflow_runs`, `activity_tasks`, `events` | StartRun, LeaseTask, Advance, Retry, DeadLetter, ReapExpiredLeases, ReplayDeadLetter, CancelRun; reads | called by engine and API; PostgreSQL serialises row updates |
| Engine (`internal/engine`) | per process: N workers, each with a task in hand; a reaper | worker loop (poll, lease, execute, commit), reap, drain | store; user handlers |
| Process (`cmd/duraflow`) | context, HTTP server, engine | start, signal, drain, exit | engine, API |
| API (`internal/api`) | none | start, cancel, replay; reads | engine (start), store |
| Metrics (`internal/metrics`) | counters in each process's memory | incremented by the engine | engine |
| Demo (`internal/demo`) | call counters of `fail_n_times`, in memory | handlers | engine |
| Dashboard (`dashboard/`) | what was last loaded, loads under way | load, poll, cancel, replay | API |
| Migration, bench | none of the system's own | | |

What is hard here:

* **Concurrency.** Workers of several processes, reapers and clients interleave
  at every transaction, and transactions at every statement. A worker's knowledge
  of its task is the snapshot it leased; the row moves on without it.
* **Failure.** A process dies between any two steps; a database call fails, or
  succeeds and its answer is lost; a handler outlives its lease; the database
  refuses what a handler returned.
* **Ordering.** Late commits after a reclaim, a cancel or a replay; row locks
  taken in opposite orders; answers that reach a page in another order than they
  were read.
* **Time.** Leases, backoff and timers, and the drain of a process.

What makes the parts correct:

* store: a run's rows always fit together; steps complete in order and once;
  finished runs do not change; the history tells the state; interleaved transactions act as if each ran alone, and all of them end;
* engine: only the holder of the current lease concludes a task; only exhausted
  tasks are dead-lettered; every outstanding task is eventually concluded;
* process: a drained process exits and leaves no lease behind;
* API: an answer keeps what it says: one key one run, a read that is not torn,
  a cancelled run that nobody works on again, one replay per death;
* metrics: the books of a process balance, and counts are backed by events;
* demo: each workflow ends the way it is meant to demonstrate;
* dashboard: the page ends up showing the run as it is; a cancel ends and is shown.

`PROJECT.json` lists every component and, under `hazards`, the places in the
code where these can go wrong, with the properties that watch them.

## 2. Modules

| Module | What it is |
|---|---|
| `WorkflowTypes` | statuses, definitions, payloads, rows, `BuildTask` |
| `DuraflowStore` | one action per transaction of the store, and the clock |
| `WorkflowRun` | abstract: what is promised of a run |
| `StoreTx` | the transactions cut into statements, with row locks; implements `DuraflowStore` |
| `DuraflowEngine` | processes, workers, reapers, clients and faults over the store |
| `DuraflowMetrics` | the engine with its counters |
| `DuraflowDemo` | the engine and counters with the built-in workflows and handlers |
| `DuraflowAPI` | concurrent HTTP requests over the store |
| `DuraflowDashboard` | the page of a run over the store |
| `MCStore`, `MCTx`, `MCEngine`, `MCMetrics`, `MCDemo`, `MCAPI`, `MCDashboard` | instances for TLC |
| `DuraflowStoreProofs`, `StoreHistoryProofs`, `StoreTxProofs`, `DuraflowEngineProofs`, `EngineLeaseProofs`, `DuraflowAPIProofs`, `MetricsProofs`, `DashboardProofs` | theorems |

### DuraflowStore

`runs[r]`, `tasks[r][i]` and `events[r]` are the rows of the three tables. A
task is addressed by run and step index, which `UNIQUE (run_id, step_index)`
makes a key. Each action is the transaction that takes effect; the calls that
find nothing to do, or roll back, change no row and are stuttering steps.

Abstractions:

* **Payloads** are who produced them (owner and attempt) and their form: JSON,
  SQL NULL (nil bytes) or not JSON. That is all the database distinguishes: an
  invalid result fails `Advance`, and a NULL one fails the insert of the next
  task (`input` is NOT NULL). Texts of errors and of events' payloads are left
  out.
* **Time** is relative: a column holds the units left until its instant, `Tick`
  moves all of them closer, and an instant that has passed stays at 0 (due) or
  -1 (expired). The process's clock and the database's are one.
* **Definitions** are constants. `nextStep` reads the run in a call of its own
  before `Advance`; the only thing it takes from it, the workflow's name, never
  changes, so the read is merged with the commit (its failure is not:
  `NextStepFail`). The next task's `available_at` is reckoned there too, before the
  transaction begins, so part of a timer's wait may be over at the commit: `Advance`
  takes any of `NextTasks`.
* **Which expired leases** a reap takes is left open too: each reap has its own `now()`,
  and what has expired by its commit may be more than what had when it began.
  `ReapExpiredLeases` takes any of `ExpiredRows`, at least one. That is looser than the code,
  which takes every lease that was expired at its beginning; nothing is claimed that needs
  more than one of them (the engine's runs, which check that work is concluded, have one run
  and so one lease at a time).
* **Which due task** `LeaseTask` returns is left open: `ORDER BY available_at`
  is weakened by `SKIP LOCKED`. Transactions being atomic, no caller sees a row
  locked by another: the `LeaseTask` that skips the only due row because someone
  is taking it is the one that comes after and finds nothing due.

`StoreNext` issues the commands in any order with any owner: a worse client than
the engine. What holds of it holds of the engine by refinement.

### WorkflowRun

`status`, `total` and the set `done` of completed steps. Steps complete in
order, each once; the run is completed exactly when its last step is; a
completed or cancelled run does not change. A failed run can still complete
(after a replay), and can no longer be cancelled. `DuraflowStore` implements it
with `done[r]` as the steps whose task row is completed.

### StoreTx

`tx[c]` is the transaction open on connection `c`: its command, the statement under
way, the rows that statement has still to lock, and what it has written. This is
PostgreSQL's READ COMMITTED, external code modelled from how `postgres.go` uses
it: an UPDATE takes a snapshot of the committed rows that satisfy its WHERE
clause, then locks and rewrites them one at a time; a row locked by another
transaction is waited for and looked at again when that one is over.

| Action | Code |
|---|---|
| `Begin` | `pool.Begin` and the snapshot of the first UPDATE |
| `Take`, `Block` | one row locked and rewritten, or waited for |
| `EndStatement` | `RowsAffected`, the inserts that go with the statement, the next snapshot |
| `Commit`, `Rollback`, `Deadlock` | `tx.Commit`; an error and the deferred `Rollback`; the server's detector |
| `Lease`, `Start`, `TxTick` | single steps: one statement with SKIP LOCKED; rows nobody else knows; time |

Time goes on while transactions are open. `now()` is when a transaction began, so a reap
matches only what had expired by then. A lease that expires later is not in its snapshot; a row
of the snapshot that another reap returned, a worker leased again and whose lease ran out
while this reap waited for it is in `late`, and passed over when its turn comes.

`Statements` is where the lock order is written down: `Advance` and `DeadLetter`
lock the task and then the run, `CancelRun` the run and then its tasks. So a cancel
and a commit of the same run can deadlock, and one of them is rolled back. The
order is also what makes the cancel correct: its snapshot of the tasks comes after it
has the run, so the task a concurrent `Advance` inserts is either visible to it, or
belongs to a transaction that waits for the run while the cancel waits for its task, and
one of the two is rolled back. The
mutant that takes the tasks first has no deadlock, and leaves a pending task behind a
cancelled run. `Circle` is a set of transactions each of which waits for one of them and is
waited for by one of them, so that a transaction that merely queues behind a deadlock is not
part of it.

### DuraflowEngine

| Action | Code |
|---|---|
| `Poll`, `Lease`, `LeaseNone`, `LeaseError` | `worker`: the select on ctx, `LeaseTask`, `sleep` |
| `ExecuteOk`, `ExecuteFail`, `ExecuteOdd`, `NextStepFail` | `execute`, `safeInvoke`, the failing branch of `advance` |
| `CommitAdvance`, `CommitRetry`, `CommitDeadLetter` | `advance` and `fail` with the store call that takes effect |
| `CommitNothing`, `CommitError` | the same, fenced out or refused; and failing |
| `Reap`, `ReaperStop` | `reaper` |
| `Sigterm`, `Exit`, `Crash`, `Restart` | `main`, `Run` |
| `Client` | the API's start, cancel and replay |
| `Clock` | time passing |

`job[w]` is the snapshot a worker carries from lease to commit; `kind` and
`max_attempts`, which no transaction changes, are read from the row. Workers write
`OwnerId[w]` (`WorkerID-index`) in `leased_by`; a restarted process has the ids
it had before. `DistinctOwners` says that no two workers share one: it holds when
the processes run on hosts of different names, and the run `shared_ids` shows
what happens when it does not.

Faults are drawn from a budget: `crash`, `sigterm`, `stall` (a lease runs out
under a worker that still has the task), `db` (a call fails, or its answer is
lost) and `payload` (a result or an error text the database refuses). With the
budget spent, the clock waits for a worker whose lease is about to end: handlers
are otherwise assumed to finish within their lease.

`Shifted` is `BackoffBase << (attempt - 1)` in a signed word of `DurationBits` bits
(64 in the code), and `Exp` the checks that follow it. `BackoffCapped` says the
result is the exponential capped at `BackoffMax`, whatever the attempt. It holds
only for bases that do not wrap to a small positive value, such as the default of 500 ms
(`BaseLeavesRoom`, section 4). `BackoffDelays` is what `fail` draws from and is not
clipped again: without the cap in `Exp`, `Retry` would be called with delays the store's
`Retry` does not have, which `ImplementsStore` detects. The base is a configuration constant of the program that embeds the engine.

### DuraflowMetrics

`counters[p]` are the eight counters of process `p`; each action of the engine is
conjoined with what it counts. Counters move after the store has returned `nil`, and a
commit that the fence discards returns `nil`: it is counted as completed (or dead). A
commit, a reap or a start whose answer is lost took effect and is not counted. What
remains true is stated by `LeasesAccountedFor` (every lease of a process is settled
once) and `CountsAreBacked` (the over-count is bounded by the leases that were taken
away).

### DuraflowDemo

`DuraflowMetrics` with `Handlers`: the outcome of every execution is what the registered
handler returns, and `calls[p]` is the in-memory counter of `fail_n_times`. The
definitions are those of `Register`, with the timer of 5 s as one unit of time. As
every process and every restart counts afresh, `retry_demo` ends as meant
(`DemosEndAsMeant`) as long as `FailTimes * (processes + restarts)` stays below its 6
attempts: with the default of 2, three processes are enough to dead-letter it.

### DuraflowDashboard

`page` is the state of the React component, `load[l]` a call of `load()` and what it
has read. The interval starts loads whether or not the last has ended; the bound on
loads under way is the only thing that holds it back.

| Action | Code |
|---|---|
| `Open`, `PollLoad` | the effect: `load(true)`, then `setInterval` |
| `Read` | `handleGetRun`'s two statements, seen from the page |
| `Apply`, `FailLoad` | the rest of `load`: the setters, or the catch; and the finally |
| `ClickCancel`, `CancelAnswered`, `CancelFails` | `handleCancel`: before and after its await, and its catch |

### DuraflowAPI

`req[q]` is one HTTP request: what it asks for, how far its handler is and what
it was answered. A client that retries is a second request with the same
contents. Handlers are cut where another transaction can commit in between:

| Action | Code |
|---|---|
| `Send` | a client's call (`lib/api.ts`, or any other) |
| `StartRefused` | `handleStartRun` for an unregistered workflow (404) or one without steps (400) |
| `StartLookup`, `StartInsert` | `StartRun` before and from its INSERT: found (200), created (201), UNIQUE violated (400) |
| `HandleGetRun` | `GetRun`, then `GetTasks` |
| `HandleCancelRun` | 204 whether the run was cancelled or is not running; 404 without a run |
| `HandleReplayDeadLetter` | 204, or 404 for a task that is not dead |
| `HandlerError` | a call fails, or commits unknown to the handler: 400 for a start, 500 otherwise |
| `Hangup` | the request's context is cancelled before a commit |
| `WorkersGoOn` | the other transactions of the store, in any order |

As 204 does not say which of the two it was, `CancelledStaysDown` says what a client can
rely on in both: the run is not running and no task of it is pending or leased, so nobody
takes one up or can commit it. The exception is part of the property: a run that had
failed can be brought back by a replay of its dead task, and by nothing else.

A request body that is not JSON (400) does not get as far as the store and is
left out, as are the reads of one statement. The store's transactions from the
INSERT of `StartRun` on are atomic here: PostgreSQL makes the second insert of a
key wait for the first transaction and then fail.

`DuraflowAPI` and the engine's `Client` overlap on purpose: the engine's runs are about
workers and need no answers, the API's are about answers and let workers do
anything.

## 3. Runs

| Run | Bounds | Shows |
|---|---|---|
| `store_one_run` | 1 run of 2 activities, 2 owners, 3 attempts, 1 replay | row shape, data hand-off, one completion per step, history tells state, final runs frozen, refinement of `WorkflowRun` |
| `store_tx` | 2 connections, 1 run of an activity and a timer, 1 replay | interleaved statements implement the atomic store, history in commit order, deadlocks only with a cancel, every transaction ends |
| `engine_faults` | 2 processes, 2 faults of any kind, a timer and an activity of two attempts, 1 replay | fence, last lease commits, dead only when exhausted, refinement of the store, outstanding work is concluded |
| `engine_metrics` | 2 processes, 2 faults of any kind, a timer and an activity, 2 attempts | leases are settled once, over-counts are bounded |
| `demo` | the 5 workflows, 1 process of 2 workers, 2 of sigterm/stall, 6 attempts | runs end as meant, the process exits, no lease abandoned, backoff capped, books balance exactly |
| `api_starts` | 3 starts, 2 runs, 1 key, failing calls | one key is answered with one run, and one run is created |
| `api_run` | 3 requests of any kind, 1 key, 1 run of 2 activities, 2 replays, failing calls | reads fit together, cancelled runs are not worked on, one replay per death, refinement of the store |
| `dashboard` | 2 loads at a time, 2 failing requests, 1 run, 1 replay | the page converges, a cancel ends and is shown |
| `attempts_beyond_max` | 2 crashes | **violated**: README's bound on attempts |
| `shared_ids` | 1 stall, both workers with one id | **violated**: the fence's promise in `store.go` |
| `raw_error_text` | 1 payload fault | **violated**: an error leads to retry or DLQ |
| `start_race` | 2 starts with one key | **violated**: the second returns the existing run |

Why the bounds are enough to be interesting: two steps exercise both forms of
`Advance`; `max_attempts` of 2 and of the default 1 give a retry and an
immediate dead-letter; two owners are the stale one and the current one, and a
third attempt leaves room for a reclaim on top of a retry; one replay gives a
second life to a dead task while an old lease is in flight; two faults allow a
stall or a lost answer together with a crash of the other process. A lease
of one unit expires on the second tick. In `api_run` a task is leased once for each of its
lives (`AttemptLimit` 1), which is enough for it to complete, to die and to be replayed;
`engine_metrics` has no replays, which count nothing and for which
`CountersAreBacked` stands.

Three requests are two that race and a third that sees the result, or a start, a
replay and its double. Two connections are the two sides of every pair of
transactions that meet on a row. With one run there is at most one lease to reclaim: a row
that is leased again and expires under a reap (`late`) is reached, two reapers that lock several
rows in different orders, or leases of other runs that expire after a reap began, are not.
`TransactionsAreSerializable` (section 4) is about any number of runs and covers them, and a
deadlock of theirs is resolved like any other. Two loads are one that overtakes the other.

`DurationBits` is 2 or 3 in the runs: with bases of 1 and 2 and up to six attempts the shift
passes through the sign and out of the word, as it would at 64 bits from the 36th
attempt on.

In the store's and the API's configurations owners, runs or requests are
symmetric, and in `engine_metrics` the two processes; no liveness is checked there. The
store's, the API's and the dashboard's configurations switch deadlock checking off
where, once the only run is finished and every request answered, there is nothing left
to do. The engine's do not: its workers poll for ever.

### Fairness

`FairSpec` assumes: a worker goroutine that can step does (the Go scheduler is
fair and handlers return); the reaper's ticker ticks and its goroutine sees a
cancelled context; a process whose goroutines have all returned exits; time
passes; and a process that went away is started again. The last is an assumption
on the deployment (a supervisor), not something the repository provides: without
it nobody is left to reap. Nothing is assumed of clients or of faults. `DemoSpec`
assumes the same.

`TxSpec`: a transaction that can go on does, and the server looks for deadlocks (weak
fairness); a row for which a transaction waits comes to it in the end (strong fairness
of `Take`), because PostgreSQL queues those who wait for a row. That requests are made at all,
or that the clock moves, is not assumed.

`DashboardSpec`: the interval fires, and requests are answered or fail (weak fairness). A
cancel's load waits for a free one of `Loads` only because the model bounds them, hence
strong fairness of `CancelAnswered`. Users need not click, and the store need not move.

`WorkConcludes` says outstanding work comes to an end (completed, dead or
cancelled), not that runs succeed.

## 4. Proofs

The theorems hold for all values of the constants that satisfy the named
assumptions (`TypesAssumption`, `StoreAssumption`, `TxAssumption`, `EngineAssumption`,
`APIAssumption`): any number of runs, steps, connections, workers, processes, requests
and faults.

* `StoreSafety`: `StoreSpec => [](StoreTypeOK /\ RunShape)`. The inductive
  invariant is the conjunction itself (`StoreInv`). Types alone are not
  inductive: `Advance` builds the next task from the run's definition, and it is
  the shape that says the run has one and that the leased task is at
  `current_step`. The key lemma, `ActiveIsCurrent`, says that a task that is
  pending, leased or dead is the one the run points at; every fenced transaction
  then touches only that task, and `ShapeRewrite` does the rest.
* `FinalRunsStayFrozen` and `StoreRefinesWorkflowRun`: from `StoreInv`, by one
  case per transaction. `NextByRun` and `OtherRuns` reduce a step to the run it
  is about; `DoneByShape` computes the set of completed steps from the shape.
* `EngineRefinesStore`: every engine step is a store step or leaves the rows
  alone (`EngineStep`), with the invariant that a busy worker's job names a run,
  a step and an attempt the store can hold (`JobsOK`). `EngineRefinesWorkflowRun`
  carries the store's theorems over.
* `FenceAdmitsOnlyCurrent`: with `DistinctOwners`, `[]FenceIsCurrent`. No
  transaction but `LeaseTask` creates a lease or changes its owner or attempt
  (`LeasesKept`), `LeaseTask` is called only by a worker without a task
  (`LeaseByIdle`), and a lease taken under another id is not the worker's
  (`LeasedElsewhere`). That is why a fence on the owner alone is enough: a
  worker does not lease while it executes.

* `APIRefinesStore`: every step of the API is a store step or leaves the rows
  alone, with the invariant that a handler at its INSERT has a registered
  workflow and that every other request names a run (`RequestsOK`).
* `CancelKeepsDown` (`CancelledStaysDown`) strengthens "not running" to "completed,
  failed or cancelled": an absent run could still be started (`DownStays`, from the
  refinement of `WorkflowRun`). That no task is pending or leased is kept with
  `WorkedOnlyIfReplayed`: in a run that is down, a pending or leased task is that of a failed run
  whose latest failure or replay is the replay (`WorkedStepReplayed`). What follows, commits
  and reclaims included, adds neither until the task dies again.
* `AnswersFit`: between the two reads of a get, the row that was read still fits
  the tasks now in the table (`ReadsFit`). It does because what a run's row
  promises of its tasks stays true: completed and scheduled steps stay so
  (`ProgressStays`), and a cancelled run is frozen. Reading the tasks first would
  break it, which is the mutant of this property.

* `APITypes`: requests hold what their handlers can have read; from `StoreInv` and
  `RequestsOK`.

What the history and the data say (`StoreHistoryProofs`) rests on one lemma, `RunEffects`:
whatever transaction the store takes, one run is started, advanced, finished,
dead-lettered, cancelled, has its current task returned to the queue, or keeps its
statuses, results and history. Each form says which task changes and which events are
appended, so the theorems below look at seven forms and not at ten transactions:

* `DataIsHandedOn` (`HandOff`): inductive together with `StoreInv`; a completed task is
  never rewritten, so an input that was its result stays it.
* `StepsCompleteOnce` (`OneCompletionEvent`): stated of one sequence (`CompletedOnce`) so
  that appending can be reasoned about (`CompletionsAppend`).
* `HistoryIsFaithful` (`HistoryTellsState`): the latest event of a kind after an append is
  the latest appended one, or the old one if none was (`LatestAppend`). The invariant adds
  that a run without a row has no events.
* That two runs never hold one key (`KeyNamesOneRun`) is what the UNIQUE constraint enforces;
  it serves `StartsAreIdempotent` only, with the invariant that only a run
  that was started holds a key (`KeysHeld`).

The statements (`StoreTxProofs`). `TransactionsAreSerializable` is the refinement
`TxSpec => TxImplementsStore`: READ COMMITTED and the order in which these transactions lock
their rows are enough for each to act as if it ran alone at its commit, for any number of
connections. The inductive invariant is `TxInv`:

* the committed rows satisfy `StoreInv`, and no row is locked twice (`Exclusive`);
* every open transaction has one of eleven forms (`Form`), one for each point its statements
  can have reached: still searching, has its task, has written it and wants the run, has both,
  and so on for a cancel and a reap. A form says what was written **in terms of the rows
  committed now**, so it is at once what the commit will be judged by and what others must not
  disturb.

A transaction's own steps lead from one form to the next (`Take...`, `End...`). The steps of the
others keep a form because they write only rows they have locked, and everything a form
depends on is locked: whoever has the lock of a run's current task has the fate of the run.
That is the argument of `Undisturbed`; `Aloof` is what it asks of the others. At its commit each form
is exactly one transaction of the store (`Commit...`): an `Advance` whose fence was passed when it
locked the task passes it still, and a cancel that holds the run and its task finds no other
outstanding one. A reap becomes the `Reclaim` of the rows it locked (`CommitReaped`), which are
expired still (`StillExpired`) but need not be all that are by then. A clock tick also rewrites
what open transactions, reaps included, have written (`TickForm`); the timer `Advance` inserts
before it commits is why `NextTasks` is a range.

* `HistoryKeepsCommitOrder` (`HistoryInCommitOrder`): who has written an event of a run holds
  the lock of its current task (`LockedIsCurrent`), and locks are exclusive.
* `OnlyCancelDeadlocksWorkers` (`DeadlockNeedsCancel`), for circles of any length: an `Advance`
  or `DeadLetter` that is waited for holds its task and waits for its run's row, and only a
  cancel of that run can hold it.
* `TransactionsKeepPromise`: the run's shape, frozen final runs and `WorkflowRun` hold of the
  interleaved statements.

The fairness of `TxSpec` is not used in any of them.

The engine (`EngineLeaseProofs`), by `EngineRefinesStore` or with the invariants named:

* `EngineTypes`, and `EngineKeepsHistory`: the three properties of `StoreHistoryProofs` for the whole engine.
* `ResultsAreCurrent` (`CommittedByLastLease`) and `OnlyTheExhaustedDie`
  (`DeadOnlyExhausted`), both under `DistinctOwners`: only `CommitAdvance` completes a task
  and only `CommitDeadLetter` kills one (`EngineEnds`), each by a worker that
  `FenceIsCurrent` says has the row's own attempt; every other step leaves completed and
  dead rows as they are, up to the clock (`EndKept`).
* `DrainingAbandonsNothing` (`NoAbandonedLease`) under `NoBreakdowns`, which is what the
  property is about: `FaultKinds` has only `sigterm` and `stall`. The invariant adds that
  the workers of a process that is gone have stopped and that what is committed is a
  result or an error (`HandsOK`). A worker gives a task up only in the transaction that
  releases it (`ConcludedIsReleased`) or when it no longer has the lease.
* `BackoffIsCapped` (`BackoffCapped`) for every attempt, under `BaseLeavesRoom`: the base is
  m * 2^k with `BackoffMax` * m below half the word. Then whatever the shift loses is a
  multiple of 2^(k + attempt - 1), and so is what it leaves; once m * 2^(k + attempt - 1)
  is out of the word, that power alone is above the cap, and the remainder is zero, negative or
  above it too. The default base satisfies it: 500 ms are 1953125 * 2^8 ns, and 1953125 times
  5 minutes is below 2^63 ns. The laws of powers the argument needs (positive, sum of exponents)
  are proved by counting: 2^n is the number of subsets of 1 .. n.

Requests that repeat one another (also `DuraflowAPIProofs`):

* `StartsAreIdempotent` (`SameKeySameRun`): a start that was answered
  with a run names one that holds its key, for ever (`StartsKeyed`), and each run was
  created for one request (`OneCreator`).
* `ReplaysAreNotRepeated` (`OneReplayPerDeath`): the replays accepted for a task, plus one
  while it is dead, are at most its deaths in the history (`ReplaysFor`). The addend is
  what makes it inductive: it is the death the next replay may use.

The counters (`MetricsProofs`):

* `TheBooksBalance` (`LeasesAccountedFor`): what a worker's step takes out of hand it
  counts, at most once (`StepBooks`, `FaultBooks`), so the balance of its process is kept
  (`BooksOK`, which adds that the workers in hand are finitely many). For the equality the
  invariant adds that without `db` and `payload` faults every outcome is a result or an
  error.
* `CountersAreBacked` (`CountsAreBacked`), where workers may even share an id, under
  `FiniteDeployment`: finitely many processes, workers and run ids, so that there is something to
  add up. The sums are cardinalities of sets of pairs (`Total`, `EventCount`), because the laws of
  folds take an operator as a parameter. The property is not inductive: a worker whose
  lease was taken away is still going to count its task, so the tasks in hand must be weighed
  too. `TasksBacked` says that

      tasks in hand + counted  <=  leases at work + endings in the history + leases taken away

  where a lease is at work if some worker has its task in hand and the fence would admit
  it; `RunsBacked` says the same of the tasks of last steps. Each step pays for what it
  does: `Lease` adds one to both sides (`TakenOwed`), a commit that takes effect turns a
  lease at work into an event (`ConcludedOwed`, `CommitEvents`), one that is discarded only
  moves a task from in hand to counted, a cancel turns a lease at work into a cancelled task
  (`StandingOwed`), and a reap writes one event for each
  lease it takes (`ReapedOwed`). A crash drops tasks and leases at work; each lease that
  stops being worked had a worker among those that died, and different leases had different
  workers (`DroppedCovers`). At any time a worker holds at most one lease, so leases at work
  are no more than tasks in hand (`WorkedIsHeld`), which gives the property.

The page (`DashboardProofs`):

* `CancelIsShown` (`CancelShown`): the load of a cancel begins when the server has answered,
  so the run is down (completed, failed or cancelled) and, by `DownStays`, stays so between
  the two reads (`CancelLoadsOK`). The page and its loads name only runs that exist
  (`PageOK`).

Every invariant and every action property that a passing run checks is stated by one of these
theorems, and so are the refinements. Only model-checked is liveness: `WorkConcludes`,
`DrainTerminates`, `DemosEndAsMeant`, `TxEnds`, `CancelEnds` and `PageConverges`. Their
arguments are about fairness and `ENABLED`, which are out of the prover's reach. The
properties of the four runs that end in a violation do not hold.

## 5. Findings

`PROJECT.json` quotes the text each of these contradicts.

1. Crashed attempts are not bounded by `max_attempts`: the reaper requeues a task
   whatever its count.
2. Processes with one host name share worker ids, and the fence then lets a stale
   commit through.
3. An error text that `%q` does not turn into JSON makes `Retry` and `DeadLetter`
   fail each time; the task is repeated whenever its lease expires.
4. Of two concurrent starts with one key, the second may be answered with 400
   instead of the run (a retry then finds it).

Smaller differences between a text and the code, visible in the actions and
without a run of their own:

* a worker past the select leases after shutdown has begun (`Lease` has no guard on the
  process; it finishes what it leased, and `NoAbandonedLease` holds);
* leases are not in the history (`HistoryTellsState` shows that it tells where the run
  stands all the same);
* cancelling a run that is not running succeeds, where the comment of `CancelRun`
  (`postgres.go:567`) announces an error; and a failed run with a replayed task, which that
  code takes for terminal (`postgres.go:592`), can still complete and cannot be cancelled;
* `duraflow_tasks_completed_total`, "Activity tasks completed successfully"
  (`metrics.go:29`), also counts commits the fence discarded, and
  `duraflow_queue_depth` is registered and never set;
* `retry_demo` with several processes or restarts may exhaust its attempts.

## 6. Not modelled, and what is open

Left out for good:

* CORS, logging and panic recovery of the HTTP server, configuration and connection
  set-up: they keep no state of the system;
* the migration script: one idempotent statement before anything else; its constraints are
  guards of the store's actions;
* the benchmark: a harness that starts runs, polls the statistics and reports latencies
  (it waits for ever if one of its runs fails; its handler does not);
* reads of a single statement (lists, history, statistics, health): each is an
  observation of one state;
* the dashboard's overview and dead-letter page: the loads are those of
  `DuraflowDashboard`, with a start or a replay in the place of the cancel;
* the skew between a process's clock and the database's, and definitions that change
  under running workflows: the code promises nothing about either. They are hazards
  all the same, and `PROJECT.json` lists them.

Open: two clocks that drift within a bound, and a deployment that changes definitions under
running workflows; for both the code would first have to say what it promises.
