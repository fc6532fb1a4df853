------------------------------ MODULE StoreTx ------------------------------
(***************************************************************************)
(* The transactions of the store cut into their statements, as PostgreSQL  *)
(* runs them under READ COMMITTED (internal/store/postgres.go).            *)
(*                                                                         *)
(* An UPDATE takes a snapshot of the committed rows that satisfy its WHERE *)
(* clause, then locks and rewrites them one by one.  A row somebody else   *)
(* has rewritten it waits for, and looks at again once that transaction is *)
(* over.  What a transaction has written nobody sees before it commits.    *)
(* An INSERT of a task or of events takes no lock another transaction      *)
(* wants (the foreign keys lock the run in a mode that UPDATEs of status   *)
(* and current_step do not conflict with), so it is part of the step that  *)
(* ends the statement before it.                                           *)
(*                                                                         *)
(* runs, tasks and events are the committed rows.  StartRun writes rows    *)
(* nobody else knows of, and its race for a key is modelled in             *)
(* DuraflowAPI; LeaseTask is a single statement that skips locked rows:    *)
(* both are one step here.                                                 *)
(***************************************************************************)
EXTENDS DuraflowStore

CONSTANT Conns    \* connections of the pools, of all processes

ASSUME TxAssumption == NULL \notin RunRow      \* NULL is no row

VARIABLE tx       \* tx[c]: the transaction open on connection c

txVars == <<runs, tasks, events, tx>>

(* A lockable row: <<r, i>> of activity_tasks, <<r, NoStep>> of            *)
(* workflow_runs.                                                          *)
RunOf(r) == <<r, NoStep>>

(* stmt is the statement under way, todo its rows still to be locked,      *)
(* waits the one it waits for, and late those of a reap's rows whose       *)
(* leases have expired after it began; rows, run and log are what the      *)
(* transaction has written so far.  The rows it has written are the rows   *)
(* it has locked.                                                          *)
NoCmd == [op |-> "none"]
NoTx == [cmd |-> NoCmd, stmt |-> 0, todo |-> {}, waits |-> NULL, late |-> {},
         rows |-> <<>>, run |-> NULL, log |-> [r \in Runs |-> <<>>]]

TxInit ==
    /\ StoreInit
    /\ tx = [c \in Conns |-> NoTx]

Open(c) == tx[c].cmd # NoCmd

Locks(c) ==
    DOMAIN tx[c].rows
      \cup (IF tx[c].run = NULL THEN {} ELSE {RunOf(tx[c].cmd.run)})

LockedByOther(c, row) == \E d \in Conns \ {c} : row \in Locks(d)

----------------------------------------------------------------------------
(* The commands and their statements.                                      *)

(* Mutant: the tasks are cancelled before the run (which would avoid the   *)
(* deadlock with Advance), and Advance moves the run before its task.      *)
CancelTasksFirst(op) ==
    CASE op \in {"advance", "dead", "cancel"} -> <<"task", "run">>
      [] OTHER -> <<"task">>

AdvanceRunFirst(op) ==
    CASE op = "dead" -> <<"task", "run">>
      [] op \in {"advance", "cancel"} -> <<"run", "task">>
      [] OTHER -> <<"task">>

(* The table each UPDATE of a transaction is on, in their order.           *)
Statements(op) ==
    CASE op \in {"advance", "dead"} -> <<"task", "run">>
      [] op = "cancel" -> <<"run", "task">>
      [] OTHER -> <<"task">>

(* The WHERE clauses, of the committed rows.                               *)
TaskMatches(cmd, r, i) ==
    CASE cmd.op \in {"advance", "retry", "dead"} ->
             r = cmd.run /\ i = cmd.step /\ Fenced(r, i, cmd.owner)
      [] cmd.op = "replay" ->
             /\ r = cmd.run /\ i = cmd.step /\ tasks[r][i].status = "dead"
             /\ Replays(r) < MaxReplays
      [] cmd.op = "cancel" -> r = cmd.run /\ tasks[r][i].status \in Outstanding
      [] cmd.op = "reap" -> Expired(tasks[r][i])

RunMatches(cmd) == cmd.op = "cancel" => runs[cmd.run].status = "running"

Matching(cmd, table) ==
    IF table = "task"
    THEN {x \in TaskRows : TaskMatches(cmd, x[1], x[2])}
    ELSE {x \in {RunOf(cmd.run)} : RunMatches(cmd)}

(* The SET clauses.                                                        *)
NewTaskRow(cmd, t) ==
    CASE cmd.op = "advance" -> CompletedWith(t, cmd.result)
      [] cmd.op = "retry" -> [BackToPending(t) EXCEPT !.available_at = cmd.delay]
      [] cmd.op = "dead" -> [t EXCEPT !.status = "dead"]
      [] cmd.op = "replay" -> Requeued(t)
      [] cmd.op = "cancel" -> [t EXCEPT !.status = "cancelled"]
      [] cmd.op = "reap" -> BackToPending(t)

NewRunRow(cmd, run) ==
    CASE cmd.op = "cancel" -> [run EXCEPT !.status = "cancelled"]
      [] cmd.op = "dead" -> [run EXCEPT !.status = "failed"]
      [] cmd.op = "advance" /\ ~Finished(cmd.run, cmd.step) ->
             [run EXCEPT !.current_step = cmd.step + 1]
      [] cmd.op = "advance" /\ Finished(cmd.run, cmd.step) ->
             [run EXCEPT !.status = "completed", !.result = cmd.result]

(* The rows written so far, and one more.                                  *)
WithRow(rows, x, row) ==
    [y \in DOMAIN rows \cup {x} |-> IF y = x THEN row ELSE rows[y]]

(* The task Advance inserts once it has completed its own.                 *)
WithInsert(cmd, table, rows) ==
    IF cmd.op = "advance" /\ table = "task" /\ ~Finished(cmd.run, cmd.step)
    THEN WithRow(rows, <<cmd.run, cmd.step + 1>>,
                 InsertTask(BuildTask(runs[cmd.run].workflow, cmd.step + 1,
                                      cmd.result)))
    ELSE rows

(* Mutant: the cancellation is recorded before the tasks are cancelled.    *)
CancelEventEarly(table) ==
    IF table = "run" THEN <<Ev("WorkflowCancelled", NoStep)>> ELSE <<>>

CancelEvent(table) ==
    IF table = "task" THEN <<Ev("WorkflowCancelled", NoStep)>> ELSE <<>>

(* The events of a run inserted after a statement; reclaimed are the steps *)
(* of that run a reap took back.                                           *)
EventsAfter(cmd, table, reclaimed) ==
    CASE cmd.op = "advance" /\ table = "task" ->
             <<Ev("ActivityCompleted", cmd.step)>> \o
             (IF Finished(cmd.run, cmd.step) THEN <<>>
              ELSE <<Ev("ActivityScheduled", cmd.step + 1)>>)
      [] cmd.op = "advance" /\ table = "run" ->
             IF Finished(cmd.run, cmd.step)
             THEN <<Ev("WorkflowCompleted", NoStep)>> ELSE <<>>
      [] cmd.op = "retry" -> <<Ev("ActivityRetryScheduled", cmd.step)>>
      [] cmd.op = "dead" /\ table = "task" ->
             <<Ev("ActivityDeadLettered", cmd.step)>>
      [] cmd.op = "dead" /\ table = "run" -> <<Ev("WorkflowFailed", NoStep)>>
      [] cmd.op = "replay" -> <<Ev("TaskReplayed", cmd.step)>>
      [] cmd.op = "cancel" -> CancelEvent(table)
      [] cmd.op = "reap" -> ReclaimEvents(reclaimed)

----------------------------------------------------------------------------
(* A transaction's steps.                                                  *)

(* BEGIN and the snapshot of the first UPDATE.  A transaction whose first  *)
(* snapshot is empty commits empty, having locked and written nothing: it  *)
(* is left out.                                                            *)
Begin(c, cmd) ==
    /\ ~Open(c)
    /\ Matching(cmd, Statements(cmd.op)[1]) # {}
    /\ tx' = [tx EXCEPT ![c] =
                [NoTx EXCEPT !.cmd = cmd, !.stmt = 1,
                             !.todo = Matching(cmd, Statements(cmd.op)[1])]]
    /\ UNCHANGED storeVars

(* The row to rewrite is locked: wait for the transaction that holds it.   *)
Block(c) ==
    /\ tx[c].waits = NULL
    /\ \E row \in tx[c].todo :
          /\ LockedByOther(c, row)
          /\ tx' = [tx EXCEPT ![c].waits = row]
    /\ UNCHANGED storeVars

(* Every row of a statement is done.  If the first one affected none, the  *)
(* transaction has nothing more to do; otherwise it inserts what goes with *)
(* the statement and takes the snapshot of the next.                       *)
Ended(t) ==
    LET order == Statements(t.cmd.op)
        table == order[t.stmt]
        reclaimed(r) == {i \in Steps : <<r, i>> \in DOMAIN t.rows}
        names(r) == t.cmd.op # "reap" => r = t.cmd.run
    IN  IF t.rows = <<>> /\ t.run = NULL
        THEN [t EXCEPT !.stmt = Len(order) + 1]
        ELSE [t EXCEPT
                !.stmt = @ + 1,
                !.todo = IF t.stmt < Len(order)
                         THEN Matching(t.cmd, order[t.stmt + 1]) ELSE {},
                !.rows = WithInsert(t.cmd, table, @),
                !.log = [r \in Runs |->
                   IF names(r) THEN @[r] \o EventsAfter(t.cmd, table,
                                                        reclaimed(r))
                               ELSE @[r]]]

(* The row rewritten, or passed over if it no longer satisfies the WHERE   *)
(* clause.  A reap compares with its own now().                            *)
Rewritten(t, row) ==
    LET table == Statements(t.cmd.op)[t.stmt]
        rest == [t EXCEPT !.todo = @ \ {row}, !.waits = NULL]
    IN  IF row \notin Matching(t.cmd, table) \ t.late THEN rest
        ELSE IF table = "task"
        THEN [rest EXCEPT !.rows =
                 WithRow(@, row, NewTaskRow(t.cmd, tasks[row[1]][row[2]]))]
        ELSE [rest EXCEPT !.run = NewRunRow(t.cmd, runs[t.cmd.run])]

(* The row is free and is locked.  The last row of the last statement ends *)
(* it; before another statement there is a step to come.                   *)
Take(c) ==
    /\ \E row \in tx[c].todo :
          /\ tx[c].waits \in {NULL, row}
          /\ ~LockedByOther(c, row)
          /\ LET t == Rewritten(tx[c], row)
                 last == t.todo = {} /\ t.stmt = Len(Statements(t.cmd.op))
             IN  tx' = [tx EXCEPT ![c] = IF last THEN Ended(t) ELSE t]
    /\ UNCHANGED storeVars

EndStatement(c) ==
    /\ Open(c)
    /\ tx[c].todo = {}
    /\ tx[c].stmt <= Len(Statements(tx[c].cmd.op))
    /\ tx' = [tx EXCEPT ![c] = Ended(@)]
    /\ UNCHANGED storeVars

(* COMMIT: what was written becomes visible, and the locks are released.   *)
Commit(c) ==
    LET t == tx[c]
    IN  /\ Open(c) /\ t.stmt > Len(Statements(t.cmd.op))
        /\ tasks' = [r \in Runs |-> [i \in Steps |->
              IF <<r, i>> \in DOMAIN t.rows THEN t.rows[<<r, i>>]
                                            ELSE tasks[r][i]]]
        /\ runs' = IF t.run = NULL THEN runs
                   ELSE [runs EXCEPT ![t.cmd.run] = t.run]
        /\ events' = [r \in Runs |-> events[r] \o t.log[r]]
        /\ tx' = [tx EXCEPT ![c] = NoTx]

(* Mutant: an error path that returns the connection to the pool with its  *)
(* transaction open.                                                       *)
KeepsLocks(c) ==
    /\ Open(c)
    /\ tx' = [tx EXCEPT ![c] = [NoTx EXCEPT !.rows = tx[c].rows]]
    /\ UNCHANGED storeVars

(* A statement fails, the process dies or its context is cancelled: the    *)
(* deferred Rollback, or the server, undoes everything.                    *)
Rollback(c) ==
    /\ Open(c)
    /\ tx' = [tx EXCEPT ![c] = NoTx]
    /\ UNCHANGED storeVars

(* Transactions that wait for each other in circles: each waits for one    *)
(* row, which one other holds, and is waited for.                          *)
WaitsFor(c, d) == c # d /\ tx[c].waits # NULL /\ tx[c].waits \in Locks(d)

Circle(D) ==
    \A c \in D : /\ \E d \in D : WaitsFor(c, d)
                 /\ \E b \in D : WaitsFor(b, c)

(* The server's deadlock detector rolls one of them back.                  *)
Deadlock(c) ==
    /\ \E D \in SUBSET Conns : c \in D /\ Circle(D)
    /\ tx' = [tx EXCEPT ![c] = NoTx]
    /\ UNCHANGED storeVars

----------------------------------------------------------------------------
(* What is asked of the store, by workers for a task and an owner and by   *)
(* clients, about rows that are committed.  (The store does not read the   *)
(* result a worker brings: one value stands for all.)                      *)
WorkerCommands(r, i, o) ==
    {[op |-> "advance", run |-> r, step |-> i, owner |-> o,
      result |-> [by |-> o, attempt |-> 1, form |-> "json"]],
     [op |-> "dead", run |-> r, step |-> i, owner |-> o]}
      \cup [op : {"retry"}, run : {r}, step : {i}, owner : {o},
            delay : 0 .. MaxBackoff]

ClientCommands(r, i) ==
    {[op |-> "cancel", run |-> r], [op |-> "replay", run |-> r, step |-> i]}

CommandsAbout(x) ==
    ClientCommands(x[1], x[2])
      \cup UNION {WorkerCommands(x[1], x[2], o) : o \in Owners}

Commands ==
    {[op |-> "reap"]}
      \cup UNION {CommandsAbout(x) :
                    x \in {y \in TaskRows : tasks[y[1]][y[2]].status # "none"}}

(* SKIP LOCKED: a row that is locked is passed over.                       *)
Lease ==
    /\ \E r \in Runs : \E i \in Steps : \E o \in Owners :
          /\ \A c \in Conns : <<r, i>> \notin Locks(c)
          /\ LeaseTask(o, r, i)
    /\ UNCHANGED tx

Start ==
    /\ \E r \in Runs : \E wf \in Workflows : \E key \in Keys \cup {NULL} :
          StartWorkflow(r, wf, key)
    /\ UNCHANGED tx

(* now() is the time a transaction began.  A reap that is under way does   *)
(* not match a lease that expires meanwhile, be it a new lease of a row of *)
(* its snapshot: it is late for this reap and left to the next one.        *)
ExpiresNow == ExpiredRows' \ ExpiredRows

TxTick ==
    /\ Tick
    /\ tx' = [c \in Conns |->
                [tx[c] EXCEPT
                   !.rows = [x \in DOMAIN @ |-> Closer(@[x])],
                   !.late = IF tx[c].cmd.op = "reap"
                            THEN @ \cup (ExpiresNow \cap tx[c].todo) ELSE {}]]

TxNext ==
    \/ \E c \in Conns :
          \/ \E cmd \in Commands : Begin(c, cmd)
          \/ Block(c)
          \/ Take(c)
          \/ EndStatement(c)
          \/ Commit(c)
          \/ Rollback(c)
          \/ Deadlock(c)
    \/ Lease
    \/ Start
    \/ TxTick

(* A transaction that can go on does, one that must wait goes to sleep,    *)
(* and the server looks for deadlocks.  The server queues those that wait  *)
(* for a row, so that latecomers do not pass them by for ever.             *)
TxFairness ==
    \A c \in Conns :
        /\ SF_txVars(Take(c))
        /\ WF_txVars(Block(c) \/ EndStatement(c) \/ Commit(c) \/ Deadlock(c))

TxSpec == TxInit /\ [][TxNext]_txVars /\ TxFairness

----------------------------------------------------------------------------
(* Properties.                                                             *)

(* However the statements of transactions interleave, the committed rows   *)
(* change as if each transaction had run alone at its commit: no           *)
(* completion is lost, no task is scheduled behind a cancellation, and no  *)
(* fence is passed on a row that has changed since.                        *)
TxImplementsStore == StoreSpec

(* The history is read in the order of the events' ids, which are drawn    *)
(* when an event is inserted and not when it is committed.  Both orders    *)
(* agree for each run: a transaction that inserts an event of a run finds  *)
(* no other one under way that has inserted one.                           *)
HistoryInCommitOrder ==
    \A c, d \in Conns : \A r \in Runs :
        tx[c].log[r] # <<>> /\ tx[d].log[r] # <<>> => c = d

(* CancelRun locks the run before its tasks, Advance and DeadLetter the    *)
(* task before its run.  That is the only way a worker's commit is ever    *)
(* caught in a deadlock.  (Two reapers can block each other, when each     *)
(* meets their rows in its own order, but no worker is caught with them.)  *)
DeadlockNeedsCancel ==
    \A D \in SUBSET Conns :
        (Circle(D) /\ \E c \in D : tx[c].cmd.op \in {"advance", "dead"}) =>
            \E c, d \in D : /\ tx[c].cmd.op \in {"advance", "dead"}
                            /\ tx[d].cmd = [op |-> "cancel",
                                            run |-> tx[c].cmd.run]

(* Every transaction ends, committed or rolled back: nobody waits for ever *)
(* for a row.                                                              *)
TxEnds == \A c \in Conns : Open(c) ~> ~Open(c)

=============================================================================
