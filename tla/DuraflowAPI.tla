---------------------------- MODULE DuraflowAPI ----------------------------
(***************************************************************************)
(* The HTTP API (internal/api/handlers.go): requests of concurrent clients *)
(* against the store, while workers and reapers go on.  A handler is cut   *)
(* at every statement after which another transaction can commit:          *)
(*                                                                         *)
(*   start    the SELECT of StartRun's idempotency check, then the INSERTs *)
(*            (whose UNIQUE constraint is the second check)                *)
(*   get      GetRun, then GetTasks, in two statements without a           *)
(*            transaction around them                                      *)
(*   cancel, replay  one transaction each                                  *)
(*                                                                         *)
(* Each member of Requests is one HTTP request; a client that retries is a *)
(* second request with the same contents.                                  *)
(***************************************************************************)
EXTENDS DuraflowStore

CONSTANTS
    Requests,      \* bound: the requests clients send
    Ops,           \* the operations they ask for
    Unreliable     \* whether a database call of a handler may fail

ASSUME APIAssumption ==
    /\ Ops \subseteq {"start", "get", "cancel", "replay"}
    /\ Unreliable \in BOOLEAN
    /\ NULL \notin Runs

VARIABLE req       \* req[q]: the request, how far its handler is, its answer

apiVars == <<runs, tasks, events, req>>

(* What an answer shows of a run and of its tasks.                         *)
RunView == [status : RunStatus, current_step : Nat, total_steps : Nat]
NoView == [status |-> "none", current_step |-> 0, total_steps |-> 0]
ViewOf(run) == [status |-> run.status, current_step |-> run.current_step,
                total_steps |-> run.total_steps]

TasksView == [Steps -> TaskStatus]
StatusesOf(ts) == [i \in Steps |-> ts[i].status]
NoStatuses == [i \in Steps |-> "none"]

Stage == {"idle", "sent", "insert", "tasks", "done", "gone"}
Code == {0, 200, 201, 204, 400, 404, 500}

(* code is the HTTP status, 0 before there is one.  A start names a        *)
(* workflow (NULL for a name that is not registered) and perhaps a key;    *)
(* the others name a run, and replay one of its steps.  run is also where  *)
(* the answer to a start says which run it is about.                       *)
Request ==
    [op : Ops, wf : Workflows \cup {NULL}, key : Keys \cup {NULL},
     run : Runs \cup {NULL}, step : Steps, view : RunView,
     tasks : TasksView, stage : Stage, code : Code]

APIInit ==
    /\ StoreInit
    /\ req \in [Requests ->
          [op : Ops, wf : {NULL}, key : {NULL}, run : {NULL}, step : {0},
           view : {NoView}, tasks : {NoStatuses}, stage : {"idle"},
           code : {0}]]

At(q, op, stage) == req[q].op = op /\ req[q].stage = stage

GoTo(q, stage) == req' = [req EXCEPT ![q].stage = stage]

Answer(q, code) ==
    req' = [req EXCEPT ![q].stage = "done", ![q].code = code]

AnswerRun(q, code, r) ==
    req' = [req EXCEPT ![q].stage = "done", ![q].code = code, ![q].run = r]

----------------------------------------------------------------------------
(* A client sends a request.                                               *)
Send(q) ==
    /\ req[q].stage = "idle"
    /\ \/ /\ req[q].op = "start"
          /\ \E wf \in Workflows \cup {NULL} : \E key \in Keys \cup {NULL} :
                req' = [req EXCEPT ![q].wf = wf, ![q].key = key,
                                   ![q].stage = "sent"]
       \/ /\ req[q].op # "start"
          /\ \E r \in Runs : \E i \in Steps :
                /\ req[q].op = "replay" \/ i = 0
                /\ req' = [req EXCEPT ![q].run = r, ![q].step = i,
                                      ![q].stage = "sent"]
    /\ UNCHANGED storeVars

(* handleStartRun: a workflow that is not registered, or has no steps.     *)
StartRefused(q) ==
    /\ At(q, "start", "sent")
    /\ \/ req[q].wf = NULL /\ Answer(q, 404)
       \/ req[q].wf # NULL /\ TotalSteps(req[q].wf) = 0 /\ Answer(q, 400)
    /\ UNCHANGED storeVars

(* StartRun's look-up of the key.  The run found is answered as it is.     *)
StartLookup(q) ==
    /\ At(q, "start", "sent")
    /\ req[q].wf # NULL /\ TotalSteps(req[q].wf) > 0
    /\ \/ /\ KeyClaimed(req[q].key)
          /\ \E r \in Runs : /\ runs[r].idempotency_key = req[q].key
                             /\ AnswerRun(q, 200, r)
       \/ ~KeyClaimed(req[q].key) /\ GoTo(q, "insert")
    /\ UNCHANGED storeVars

(* Its inserts and commit.  If another start has claimed the key since the *)
(* look-up, the UNIQUE constraint fails the insert, and the handler        *)
(* answers any error of StartWorkflow that it does not know with 400.      *)
StartInsert(q) ==
    /\ At(q, "start", "insert")
    /\ \/ \E r \in Runs : /\ StartWorkflow(r, req[q].wf, req[q].key)
                          /\ AnswerRun(q, 201, r)
       \/ /\ KeyClaimed(req[q].key)
          /\ Answer(q, 400)
          /\ UNCHANGED storeVars

(* Mutant: the tasks are read before the run.                              *)
GetTasksFirst(q) ==
    /\ \/ /\ At(q, "get", "sent")
          /\ req' = [req EXCEPT ![q].stage = "tasks",
                                ![q].tasks = StatusesOf(tasks[req[q].run])]
       \/ /\ At(q, "get", "tasks")
          /\ IF runs[req[q].run].status = "none" THEN Answer(q, 404)
             ELSE req' = [req EXCEPT ![q].stage = "done", ![q].code = 200,
                                     ![q].view = ViewOf(runs[req[q].run])]
    /\ UNCHANGED storeVars

(* handleGetRun: the run (404 without one), then the tasks.                *)
HandleGetRun(q) ==
    /\ \/ /\ At(q, "get", "sent")
          /\ IF runs[req[q].run].status = "none" THEN Answer(q, 404)
             ELSE req' = [req EXCEPT ![q].stage = "tasks",
                                     ![q].view = ViewOf(runs[req[q].run])]
       \/ /\ At(q, "get", "tasks")
          /\ req' = [req EXCEPT ![q].stage = "done", ![q].code = 200,
                                ![q].tasks = StatusesOf(tasks[req[q].run])]
    /\ UNCHANGED storeVars

(* handleCancelRun: 204 when the run was cancelled and also when there was *)
(* nothing to cancel because it is not running.  The transaction's look-up *)
(* of a run it did not update is one step with the update: nobody can name *)
(* a run whose start has not committed.                                    *)
HandleCancelRun(q) ==
    /\ At(q, "cancel", "sent")
    /\ \/ CancelRun(req[q].run) /\ Answer(q, 204)
       \/ /\ runs[req[q].run].status = "none"
          /\ Answer(q, 404)
          /\ UNCHANGED storeVars
       \/ /\ runs[req[q].run].status \notin {"none", "running"}
          /\ Answer(q, 204)
          /\ UNCHANGED storeVars

(* Mutant: a replay accepted whatever has become of the task.              *)
ReplayAnyTask(q) ==
    /\ At(q, "replay", "sent")
    /\ Replays(req[q].run) < MaxReplays
    /\ tasks[req[q].run][req[q].step].status \in {"pending", "dead"}
    /\ tasks' = [tasks EXCEPT ![req[q].run][req[q].step] = Requeued(@)]
    /\ events' = AppendEvents(req[q].run, <<Ev("TaskReplayed", req[q].step)>>)
    /\ Answer(q, 204)
    /\ UNCHANGED runs

(* handleReplayDeadLetter: only a task that is dead.                       *)
HandleReplayDeadLetter(q) ==
    /\ At(q, "replay", "sent")
    /\ \/ Replay(req[q].run, req[q].step) /\ Answer(q, 204)
       \/ /\ tasks[req[q].run][req[q].step].status # "dead"
          /\ Answer(q, 404)
          /\ UNCHANGED storeVars

(* A call to the database fails and the transaction rolls back, or it      *)
(* commits and the handler does not learn of it.  A start is answered with *)
(* 400 and anything else with 500.  A start that is refused makes no call. *)
HandlerError(q) ==
    /\ Unreliable
    /\ req[q].stage \in {"sent", "insert", "tasks"}
    /\ req[q].op = "start" => req[q].wf # NULL /\ TotalSteps(req[q].wf) > 0
    /\ Answer(q, IF req[q].op = "start" THEN 400 ELSE 500)
    /\ \/ UNCHANGED storeVars
       \/ /\ At(q, "start", "insert")
          /\ \E r \in Runs : StartWorkflow(r, req[q].wf, req[q].key)
       \/ req[q].op = "cancel" /\ CancelRun(req[q].run)
       \/ req[q].op = "replay" /\ Replay(req[q].run, req[q].step)

(* The client goes away: the request's context is cancelled, and what the  *)
(* handler has not committed is rolled back.                               *)
Hangup(q) ==
    /\ req[q].stage \in {"sent", "insert", "tasks"}
    /\ GoTo(q, "gone")
    /\ UNCHANGED storeVars

----------------------------------------------------------------------------
(* The transactions of workers and reapers, in any order.                  *)
WorkersGoOn ==
    /\ \/ \E r \in Runs : \E i \in Steps : \E o \in Owners :
             \/ LeaseTask(o, r, i)
             \/ \E p \in ResultsBy(o) : Advance(r, i, o, p)
             \/ \E d \in 0 .. MaxBackoff : Retry(r, i, o, d)
             \/ DeadLetter(r, i, o)
       \/ ReapExpiredLeases
       \/ Tick
    /\ UNCHANGED req

APINext ==
    \/ \E q \in Requests :
          \/ Send(q)
          \/ StartRefused(q) \/ StartLookup(q) \/ StartInsert(q)
          \/ HandleGetRun(q)
          \/ HandleCancelRun(q)
          \/ HandleReplayDeadLetter(q)
          \/ HandlerError(q)
          \/ Hangup(q)
    \/ WorkersGoOn

APISpec == APIInit /\ [][APINext]_apiVars

----------------------------------------------------------------------------
(* Properties.                                                             *)

(* Requests have their type.                                               *)
APITypeOK == StoreTypeOK /\ req \in [Requests -> Request]

Started(q) == req[q].op = "start" /\ req[q].code \in {200, 201}

(* Idempotent starts, as clients see them: however starts with one key     *)
(* overlap, fail and are retried, all that are answered with a run are     *)
(* answered with the same one, and one at most is told that it created it. *)
SameKeySameRun ==
    \A p, q \in Requests :
        (Started(p) /\ Started(q) /\ req[p].key = req[q].key
         /\ req[p].key # NULL) =>
            /\ req[p].run = req[q].run
            /\ req[p].code = 201 /\ req[q].code = 201 => p = q

(* handleGetRun reads the run and its tasks at two moments, and may show a *)
(* combination that never was in the database.  It never shows a run ahead *)
(* of its tasks: the steps before the current one are completed and the    *)
(* current one is there; a completed run's last step is completed; and a   *)
(* cancelled run has no task that is still to be done.                     *)
FitTogether(run, ts) ==
    /\ \A i \in Steps : i < run.current_step => ts[i] = "completed"
    /\ ts[run.current_step] # "none"
    /\ run.status = "completed" => ts[run.total_steps - 1] = "completed"
    /\ run.status = "cancelled" => \A i \in Steps : ts[i] \notin Outstanding

AnswersFitTogether ==
    \A q \in Requests : (req[q].op = "get" /\ req[q].code = 200) =>
        FitTogether(req[q].view, req[q].tasks)

(* What a cancel that was answered with 204 means, then and ever after,    *)
(* though 204 does not say that the run was cancelled: it is not running,  *)
(* and none of its tasks is pending or leased, so that no worker takes one *)
(* up or can commit one, unless the run failed and its dead task has been  *)
(* replayed since.                                                         *)
ReplayedSince(r) ==
    LatestOf(r, [type : {"WorkflowFailed", "TaskReplayed"},
                 step : Steps \cup {NoStep}]) = "TaskReplayed"

CancelledStaysDown ==
    \A q \in Requests : (req[q].op = "cancel" /\ req[q].code = 204) =>
        LET r == req[q].run
        IN  /\ runs[r].status # "running"
            /\ \A i \in Steps : tasks[r][i].status \in Outstanding =>
                  runs[r].status = "failed" /\ ReplayedSince(r)

(* Handlers issue only well-formed transactions of the store, so what      *)
(* holds of it holds under the API.                                        *)
APIImplementsStore == StoreSpec

(* Two replays of a dead task that race (a double click, a retry) are not  *)
(* both accepted: a task is replayed at most once for each time it died.   *)
AcceptedReplays(r, i) ==
    {q \in Requests : /\ req[q].op = "replay" /\ req[q].code = 204
                      /\ req[q].run = r /\ req[q].step = i}

Deaths(r, i) ==
    {k \in DOMAIN events[r] : events[r][k] = Ev("ActivityDeadLettered", i)}

OneReplayPerDeath ==
    \A r \in Runs : \A i \in Steps :
        Cardinality(AcceptedReplays(r, i)) <= Cardinality(Deaths(r, i))

----------------------------------------------------------------------------
(* A claim of the repository's texts that the code does not keep.          *)

(* README, delivery guarantees: "re-starting with the same key returns the *)
(* existing run".  So with a database that answers, a start of a proper    *)
(* workflow is answered with a run.                                        *)
StartsReturnARun ==
    \A q \in Requests :
        /\ req[q].op = "start" /\ req[q].stage = "done"
        /\ req[q].wf # NULL /\ TotalSteps(req[q].wf) > 0
        => req[q].code \in {200, 201}

=============================================================================
