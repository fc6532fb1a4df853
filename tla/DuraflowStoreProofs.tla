------------------------ MODULE DuraflowStoreProofs ------------------------
(***************************************************************************)
(* Proofs about DuraflowStore, for any set of runs, owners, keys and       *)
(* workflow definitions.                                                   *)
(***************************************************************************)
EXTENDS DuraflowStore, FiniteSetTheorems, TLAPS

(* A definition's steps are among Steps, and buildTask makes a task of a   *)
(* step that exists.                                                       *)
LEMMA BuildTaskType ==
    ASSUME NEW wf \in Workflows, NEW i \in Nat, i < TotalSteps(wf),
           NEW p \in Payload
    PROVE  /\ BuildTask(wf, i, p) \in NewTask
           /\ BuildTask(wf, i, p).input = p
           /\ i \in Steps
<1>1. Definition[wf] \in Seq(Step) /\ Len(Definition[wf]) <= MaxSteps
  BY TypesAssumption
<1>2. Definition[wf][i + 1] \in Step
  BY <1>1 DEF TotalSteps
<1>3. i \in Steps
  BY <1>1, TypesAssumption DEF TotalSteps, Steps
<1> QED
  BY <1>2, <1>3, TypesAssumption DEF BuildTask, NewTask, Step, TaskKind

(* However late it commits, what nextStep built is a task for that step.   *)
LEMMA NextTaskType ==
    ASSUME NEW wf \in Workflows, NEW i \in Nat, i < TotalSteps(wf),
           NEW p \in Payload, NEW next \in NextTasks(wf, i, p)
    PROVE  /\ next \in NewTask
           /\ next.input = p
           /\ i \in Steps
<1> DEFINE task == BuildTask(wf, i, p)
<1>1. task \in NewTask /\ task.input = p /\ i \in Steps
  BY BuildTaskType
<1>2. \E at \in 0 .. task.available_at : next = [task EXCEPT !.available_at = at]
  BY DEF NextTasks
<1> HIDE DEF task
<1> QED BY <1>1, <1>2 DEF NewTask

(* insertTask makes a row.                                                 *)
LEMMA InsertTaskType ==
    ASSUME NEW t \in NewTask
    PROVE  InsertTask(t) \in TaskRow
  BY DEF InsertTask, NewTask, TaskRow, TaskStatus, NullPayload, Payload

(* What the transactions make of a row is a row.                           *)
LEMMA RowTypes ==
    ASSUME NEW t \in TaskRow
    PROVE  /\ \A o \in Owners : LeasedTo(t, o) \in TaskRow
           /\ \A p \in Payload : CompletedWith(t, p) \in TaskRow
           /\ BackToPending(t) \in TaskRow
           /\ \A d \in Nat : [BackToPending(t) EXCEPT !.available_at = d] \in TaskRow
           /\ Requeued(t) \in TaskRow
           /\ \A st \in TaskStatus : [t EXCEPT !.status = st] \in TaskRow
           /\ Closer(t) \in TaskRow
<1>1. ASSUME NEW o \in Owners PROVE LeasedTo(t, o) \in TaskRow
  <2> DEFINE n == t.attempt + 1
  <2>1. n \in Nat
    BY DEF TaskRow
  <2>2. LeaseDuration \in Int \cup {NULL}
    BY StoreAssumption
  <2>3. LeasedTo(t, o) = [t EXCEPT !.status = "leased", !.leased_by = o,
                                   !.lease_expires_at = LeaseDuration,
                                   !.attempt = n]
    BY DEF LeasedTo
  <2> HIDE DEF n
  <2> QED BY <2>1, <2>2, <2>3 DEF TaskRow, TaskStatus
<1>2. ASSUME NEW p \in Payload PROVE CompletedWith(t, p) \in TaskRow
  BY DEF CompletedWith, TaskRow, TaskStatus
<1>3. BackToPending(t) \in TaskRow
  BY DEF BackToPending, TaskRow, TaskStatus
<1>4. ASSUME NEW d \in Nat
      PROVE  [BackToPending(t) EXCEPT !.available_at = d] \in TaskRow
  BY <1>3 DEF TaskRow
<1>5. Requeued(t) \in TaskRow
  BY DEF Requeued, TaskRow, TaskStatus
<1>6. ASSUME NEW st \in TaskStatus PROVE [t EXCEPT !.status = st] \in TaskRow
  BY DEF TaskRow
<1>7. Closer(t) \in TaskRow
  <2> DEFINE a == IF t.available_at > 0 THEN t.available_at - 1 ELSE t.available_at
             l == IF t.lease_expires_at # NULL /\ t.lease_expires_at >= 0
                  THEN t.lease_expires_at - 1 ELSE t.lease_expires_at
  <2>1. a \in Nat
    BY DEF TaskRow
  <2>2. l \in Int \cup {NULL}
    BY DEF TaskRow
  <2>3. Closer(t) = [t EXCEPT !.available_at = a, !.lease_expires_at = l]
    BY DEF Closer
  <2> HIDE DEF a, l
  <2> QED BY <2>1, <2>2, <2>3 DEF TaskRow
<1> QED
  BY <1>1, <1>2, <1>3, <1>4, <1>5, <1>6, <1>7

(* The payloads every run starts with.                                     *)
LEMMA FixedPayloads == RunInput \in Payload /\ NullPayload \in Payload
  BY DEF RunInput, NullPayload, Payload

(* Appending events to a history gives a history.                          *)
LEMMA AppendEventsType ==
    ASSUME StoreTypeOK, NEW r \in Runs, NEW es \in Seq(Event)
    PROVE  AppendEvents(r, es) \in [Runs -> Seq(Event)]
  BY DEF StoreTypeOK, AppendEvents

(* The steps a reap takes, put in some order.                              *)
LEMMA ReclaimEventsType ==
    ASSUME NEW S \in SUBSET Steps
    PROVE  ReclaimEvents(S) \in Seq(Event)
<1> DEFINE n == Cardinality(S)
<1>1. IsFiniteSet(S)
  <2>1. IsFiniteSet(Steps)
    BY FS_Interval, TypesAssumption DEF Steps
  <2> QED BY <2>1, FS_Subset
<1>2. n \in Nat /\ \E f : f \in Bijection(1 .. n, S)
  BY <1>1, FS_CardinalityType DEF ExistsBijection
<1>3. \E f \in [1 .. n -> S] : IsInjective(f)
  BY <1>2 DEF Bijection, Injection, Surjection, IsInjective
<1>4. SetToSeq(S) \in [1 .. n -> S]
  BY <1>3 DEF SetToSeq
<1>5. \A k \in 1 .. n : SetToSeq(S)[k] \in Steps
  BY <1>4
<1>6. \A k \in 1 .. n : Ev("TaskReclaimed", SetToSeq(S)[k]) \in Event
  BY <1>5 DEF Ev, Event, EventType
<1> QED
  BY <1>2, <1>6 DEF ReclaimEvents

----------------------------------------------------------------------------
(* Type correctness.  What it takes of a command is what the engine's      *)
(* commands satisfy: tasks are built from the definition.                  *)
LEMMA StartType ==
    ASSUME StoreTypeOK, NEW r \in Runs, NEW wf \in Workflows,
           NEW key \in Keys \cup {NULL}, StartWorkflow(r, wf, key)
    PROVE  StoreTypeOK'
<1> DEFINE first == BuildTask(wf, 0, RunInput)
<1>1. /\ TotalSteps(wf) \in Nat
      /\ InsertTask(first) \in TaskRow
      /\ 0 \in Steps
  BY BuildTaskType, InsertTaskType, FixedPayloads, TypesAssumption
     DEF StartWorkflow, TotalSteps
<1>2. runs' \in [Runs -> RunRow]
  BY <1>1, FixedPayloads DEF StartWorkflow, StartRun, StoreTypeOK, RunRow, RunStatus
<1>3. tasks' \in [Runs -> [Steps -> TaskRow]]
  BY <1>1 DEF StartWorkflow, StartRun, StoreTypeOK
<1>4. <<Ev("WorkflowStarted", NoStep), Ev("ActivityScheduled", 0)>> \in Seq(Event)
  BY <1>1 DEF Ev, Event, EventType
<1> QED
  BY <1>2, <1>3, <1>4, AppendEventsType DEF StartWorkflow, StartRun, StoreTypeOK

LEMMA LeaseType ==
    ASSUME StoreTypeOK, NEW o \in Owners, NEW r \in Runs, NEW i \in Steps,
           LeaseTask(o, r, i)
    PROVE  StoreTypeOK'
<1>1. LeasedTo(tasks[r][i], o) \in TaskRow
  BY RowTypes DEF StoreTypeOK
<1> QED
  BY <1>1 DEF LeaseTask, StoreTypeOK

LEMMA AdvanceType ==
    ASSUME StoreTypeOK, NEW r \in Runs, NEW i \in Steps, NEW o \in Owners,
           NEW p \in Payload, runs[r].workflow \in Workflows,
           Advance(r, i, o, p)
    PROVE  StoreTypeOK'
<1>1. CompletedWith(tasks[r][i], p) \in TaskRow
  BY RowTypes DEF StoreTypeOK
<1>0. i \in Nat
  BY TypesAssumption DEF Steps
<1>2. ASSUME ~Finished(r, i),
             NEW next \in NextTasks(runs[r].workflow, i + 1, p),
             AdvanceNext(r, i, o, p, next)
      PROVE  StoreTypeOK'
  <2>1. i + 1 \in Nat /\ i + 1 < TotalSteps(runs[r].workflow)
    BY <1>0, <1>2, TypesAssumption DEF Finished, TotalSteps
  <2>2. InsertTask(next) \in TaskRow /\ i + 1 \in Steps
    BY <2>1, NextTaskType, InsertTaskType
  <2>3. tasks' \in [Runs -> [Steps -> TaskRow]]
    BY <1>1, <1>2, <2>2 DEF AdvanceNext, StoreTypeOK
  <2>4. runs' \in [Runs -> RunRow]
    BY <1>2, <2>1 DEF AdvanceNext, StoreTypeOK, RunRow
  <2>5. <<Ev("ActivityCompleted", i), Ev("ActivityScheduled", i + 1)>> \in Seq(Event)
    BY <2>2 DEF Ev, Event, EventType
  <2> QED
    BY <1>2, <2>3, <2>4, <2>5, AppendEventsType DEF AdvanceNext, StoreTypeOK
<1>3. CASE AdvanceFinish(r, i, o, p)
  <2>1. tasks' \in [Runs -> [Steps -> TaskRow]]
    BY <1>1, <1>3 DEF AdvanceFinish, StoreTypeOK
  <2>2. runs' \in [Runs -> RunRow]
    <3>1. runs[r] \in RunRow /\ "completed" \in RunStatus /\ p \in Payload
      BY <1>1 DEF StoreTypeOK, RunStatus
    <3>2. [runs[r] EXCEPT !.status = "completed", !.result = p] \in RunRow
      BY <3>1 DEF RunRow
    <3> QED BY <1>3, <3>2 DEF AdvanceFinish, StoreTypeOK
  <2>3. <<Ev("ActivityCompleted", i), Ev("WorkflowCompleted", NoStep)>> \in Seq(Event)
    BY DEF Ev, Event, EventType
  <2> QED
    BY <1>3, <2>1, <2>2, <2>3, AppendEventsType DEF AdvanceFinish, StoreTypeOK
<1> QED
  BY <1>2, <1>3 DEF Advance

LEMMA RetryType ==
    ASSUME StoreTypeOK, NEW r \in Runs, NEW i \in Steps, NEW o \in Owners,
           NEW d \in Nat, Retry(r, i, o, d)
    PROVE  StoreTypeOK'
<1>1. [BackToPending(tasks[r][i]) EXCEPT !.available_at = d] \in TaskRow
  BY RowTypes DEF StoreTypeOK
<1>2. <<Ev("ActivityRetryScheduled", i)>> \in Seq(Event)
  BY DEF Ev, Event, EventType
<1> QED
  BY <1>1, <1>2, AppendEventsType DEF Retry, StoreTypeOK

LEMMA DeadLetterType ==
    ASSUME StoreTypeOK, NEW r \in Runs, NEW i \in Steps, NEW o \in Owners,
           DeadLetter(r, i, o)
    PROVE  StoreTypeOK'
<1>1. [tasks[r][i] EXCEPT !.status = "dead"] \in TaskRow
  BY RowTypes DEF StoreTypeOK, TaskStatus
<1>2. [runs[r] EXCEPT !.status = "failed"] \in RunRow
  BY DEF StoreTypeOK, RunRow, RunStatus
<1>3. <<Ev("ActivityDeadLettered", i), Ev("WorkflowFailed", NoStep)>> \in Seq(Event)
  BY DEF Ev, Event, EventType
<1> QED
  BY <1>1, <1>2, <1>3, AppendEventsType DEF DeadLetter, StoreTypeOK

LEMMA ReapType ==
    ASSUME StoreTypeOK, ReapExpiredLeases
    PROVE  StoreTypeOK'
<1>1. \A t \in TaskRow : BackToPending(t) \in TaskRow
  BY RowTypes
<1>2. PICK taken \in SUBSET ExpiredRows : Reclaim(taken)
  BY DEF ReapExpiredLeases
<1>3. tasks' \in [Runs -> [Steps -> TaskRow]]
  BY <1>1, <1>2 DEF Reclaim, StoreTypeOK
<1>4. ASSUME NEW r \in Runs
      PROVE  events[r] \o ReclaimEvents({i \in Steps : <<r, i>> \in taken}) \in Seq(Event)
  <2>1. ReclaimEvents({i \in Steps : <<r, i>> \in taken}) \in Seq(Event)
    <3>1. {i \in Steps : <<r, i>> \in taken} \in SUBSET Steps
      OBVIOUS
    <3> QED BY <3>1, ReclaimEventsType
  <2> QED BY <2>1 DEF StoreTypeOK
<1> QED
  BY <1>2, <1>3, <1>4 DEF Reclaim, StoreTypeOK

LEMMA ReplayType ==
    ASSUME StoreTypeOK, NEW r \in Runs, NEW i \in Steps, ReplayDeadLetter(r, i)
    PROVE  StoreTypeOK'
<1>1. Requeued(tasks[r][i]) \in TaskRow
  BY RowTypes DEF StoreTypeOK
<1>2. <<Ev("TaskReplayed", i)>> \in Seq(Event)
  BY DEF Ev, Event, EventType
<1> QED
  BY <1>1, <1>2, AppendEventsType DEF ReplayDeadLetter, StoreTypeOK

LEMMA CancelType ==
    ASSUME StoreTypeOK, NEW r \in Runs, CancelRun(r)
    PROVE  StoreTypeOK'
<1>1. \A t \in TaskRow : [t EXCEPT !.status = "cancelled"] \in TaskRow
  BY RowTypes DEF TaskStatus
<1>2. tasks' \in [Runs -> [Steps -> TaskRow]]
  BY <1>1 DEF CancelRun, StoreTypeOK
<1>3. runs' \in [Runs -> RunRow]
  <2>1. runs[r] \in RunRow /\ "cancelled" \in RunStatus
    BY DEF StoreTypeOK, RunStatus
  <2>2. [runs[r] EXCEPT !.status = "cancelled"] \in RunRow
    BY <2>1 DEF RunRow
  <2> QED BY <2>2 DEF CancelRun, StoreTypeOK
<1>4. <<Ev("WorkflowCancelled", NoStep)>> \in Seq(Event)
  BY DEF Ev, Event, EventType
<1> QED
  BY <1>2, <1>3, <1>4, AppendEventsType DEF CancelRun, StoreTypeOK

LEMMA TickType ==
    ASSUME StoreTypeOK, Tick
    PROVE  StoreTypeOK'
<1>1. \A t \in TaskRow : Closer(t) \in TaskRow
  BY RowTypes
<1> QED
  BY <1>1 DEF Tick, StoreTypeOK
----------------------------------------------------------------------------
(* The shape of a run.                                                     *)

(* What the transactions do to a row's status.                             *)
LEMMA RowStatus ==
    ASSUME NEW t \in TaskRow
    PROVE  /\ \A o : LeasedTo(t, o).status = "leased"
           /\ \A p : CompletedWith(t, p).status = "completed"
           /\ BackToPending(t).status = "pending"
           /\ \A d : [BackToPending(t) EXCEPT !.available_at = d].status = "pending"
           /\ Requeued(t).status = "pending"
           /\ Closer(t).status = t.status
           /\ \A u : InsertTask(u).status = "pending"
  BY DEF LeasedTo, CompletedWith, BackToPending, Requeued, Closer, InsertTask,
         TaskRow

(* A task that is pending, leased or dead is the one its run points at,    *)
(* and the run is running or failed.                                       *)
LEMMA ActiveIsCurrent ==
    ASSUME NEW run \in RunRow, NEW ts \in [Steps -> TaskRow],
           ShapeOf(run, ts), NEW i \in Steps,
           ts[i].status \in {"pending", "leased", "dead"}
    PROVE  /\ i = run.current_step
           /\ run.status \in {"running", "failed"}
           /\ run.workflow \in Workflows
           /\ run.total_steps = TotalSteps(run.workflow)
           /\ run.current_step < run.total_steps
<1>1. run.status # "none"
  BY DEF ShapeOf
<1>2. i \in Int /\ run.current_step \in Int
  BY TypesAssumption DEF Steps, RunRow
<1>3. i = run.current_step
  BY <1>1, <1>2 DEF ShapeOf
<1> QED
  BY <1>1, <1>3 DEF ShapeOf, TaskFits

(* A step that leaves the run pointing at the same step, and every other   *)
(* task's status alone, keeps the shape if the current task still fits.    *)
LEMMA ShapeStays ==
    ASSUME NEW run \in RunRow, NEW ts, ShapeOf(run, ts), run.status # "none",
           NEW run2 \in RunRow, NEW ts2,
           run2.status # "none",
           run2.workflow = run.workflow,
           run2.total_steps = run.total_steps,
           run2.current_step = run.current_step,
           \A j \in Steps : j # run.current_step => ts2[j].status = ts[j].status,
           TaskFits(run2, ts2[run.current_step])
    PROVE  ShapeOf(run2, ts2)
<1>1. run.current_step \in Int /\ \A j \in Steps : j \in Int
  BY TypesAssumption DEF Steps, RunRow
<1> QED
  BY <1>1 DEF ShapeOf

(* A transaction on one run leaves the others' shape alone.                *)
LEMMA ShapeElsewhere ==
    ASSUME RunShape, NEW r \in Runs,
           \A q \in Runs \ {r} : runs'[q] = runs[q] /\ tasks'[q] = tasks[q],
           ShapeOf(runs'[r], tasks'[r])
    PROVE  RunShape'
  BY DEF RunShape, ShapeOf, TaskFits
(* A transaction that rewrites only the row of a run's current task, to    *)
(* pending or leased, from pending, leased or dead.                        *)
LEMMA ShapeRewrite ==
    ASSUME StoreTypeOK, RunShape, NEW r \in Runs, NEW i \in Steps,
           tasks[r][i].status \in {"pending", "leased", "dead"},
           NEW row \in TaskRow, row.status \in Outstanding,
           runs' = runs, tasks' = [tasks EXCEPT ![r][i] = row]
    PROVE  RunShape'
<1>1. ShapeOf(runs[r], tasks[r])
  BY DEF RunShape
<1>2. runs[r] \in RunRow /\ tasks[r] \in [Steps -> TaskRow]
  BY DEF StoreTypeOK
<1>3. /\ i = runs[r].current_step
      /\ runs[r].status \in {"running", "failed"}
  BY <1>1, <1>2, ActiveIsCurrent
<1>4. tasks'[r] = [tasks[r] EXCEPT ![i] = row]
  BY DEF StoreTypeOK
<1>5. TaskFits(runs[r], tasks'[r][i])
  BY <1>2, <1>3, <1>4 DEF TaskFits
<1>6. ShapeOf(runs'[r], tasks'[r])
  BY <1>1, <1>2, <1>3, <1>4, <1>5, ShapeStays
<1>7. \A q \in Runs \ {r} : runs'[q] = runs[q] /\ tasks'[q] = tasks[q]
  BY DEF StoreTypeOK
<1> QED
  BY <1>6, <1>7, ShapeElsewhere

LEMMA StartShape ==
    ASSUME StoreTypeOK, RunShape, NEW r \in Runs, NEW wf \in Workflows,
           NEW key \in Keys \cup {NULL}, StartWorkflow(r, wf, key)
    PROVE  RunShape'
<1> DEFINE first == InsertTask(BuildTask(wf, 0, RunInput))
<1>1. TotalSteps(wf) \in Nat /\ 0 < TotalSteps(wf) /\ 0 \in Steps
  BY TypesAssumption DEF StartWorkflow, TotalSteps, Steps
<1>2. \A j \in Steps : tasks[r][j].status = "none"
  BY DEF RunShape, ShapeOf, StartWorkflow, StartRun
<1>3. /\ runs'[r].status = "running" /\ runs'[r].workflow = wf
      /\ runs'[r].current_step = 0 /\ runs'[r].total_steps = TotalSteps(wf)
  BY DEF StartWorkflow, StartRun, StoreTypeOK
<1>4. tasks'[r] = [tasks[r] EXCEPT ![0] = first]
  BY DEF StartWorkflow, StartRun, StoreTypeOK
<1>5. first.status = "pending"
  BY DEF InsertTask
<1>6. /\ tasks'[r][0].status = "pending"
      /\ \A j \in Steps : j # 0 => tasks'[r][j].status = "none"
  <2> HIDE DEF first
  <2> QED BY <1>1, <1>2, <1>4, <1>5 DEF StoreTypeOK
<1>7. ShapeOf(runs'[r], tasks'[r])
  <2>1. \A j \in Steps : j \in Int /\ ~(j < 0)
    BY DEF Steps
  <2>2. TaskFits(runs'[r], tasks'[r][0])
    BY <1>3, <1>6 DEF TaskFits, Outstanding
  <2> QED BY <1>1, <1>3, <1>6, <2>1, <2>2 DEF ShapeOf
<1>8. \A q \in Runs \ {r} : runs'[q] = runs[q] /\ tasks'[q] = tasks[q]
  BY DEF StartWorkflow, StartRun, StoreTypeOK
<1> QED
  BY <1>7, <1>8, ShapeElsewhere

LEMMA AdvanceNextShape ==
    ASSUME StoreTypeOK, RunShape, NEW r \in Runs, NEW i \in Steps, NEW o,
           NEW p, NEW next, ~Finished(r, i), AdvanceNext(r, i, o, p, next)
    PROVE  RunShape'
<1>1. /\ ShapeOf(runs[r], tasks[r])
      /\ runs[r] \in RunRow /\ tasks[r] \in [Steps -> TaskRow]
  BY DEF RunShape, StoreTypeOK
<1>2. /\ i = runs[r].current_step
      /\ runs[r].status \in {"running", "failed"}
      /\ runs[r].workflow \in Workflows
      /\ runs[r].total_steps = TotalSteps(runs[r].workflow)
  BY <1>1, ActiveIsCurrent DEF AdvanceNext, Fenced
<1>3. i \in Nat /\ i + 1 \in Steps /\ i + 1 < runs[r].total_steps
  BY <1>2, TypesAssumption DEF Finished, Steps, TotalSteps
<1>4. /\ runs'[r].status = runs[r].status
      /\ runs'[r].workflow = runs[r].workflow
      /\ runs'[r].total_steps = runs[r].total_steps
      /\ runs'[r].current_step = i + 1
  BY DEF AdvanceNext, StoreTypeOK, RunRow
<1>5. tasks'[r] = [tasks[r] EXCEPT ![i] = CompletedWith(tasks[r][i], p),
                                   ![i + 1] = InsertTask(next)]
  BY <1>3 DEF AdvanceNext, StoreTypeOK
<1>6. /\ CompletedWith(tasks[r][i], p).status = "completed"
      /\ InsertTask(next).status = "pending"
  BY <1>1, RowStatus
<1>7. /\ tasks'[r][i].status = "completed"
      /\ tasks'[r][i + 1].status = "pending"
      /\ \A j \in Steps \ {i, i + 1} : tasks'[r][j] = tasks[r][j]
  BY <1>1, <1>3, <1>5, <1>6
<1>8. ASSUME NEW j \in Steps
      PROVE  /\ j < i + 1 => tasks'[r][j].status = "completed"
             /\ j > i + 1 => tasks'[r][j].status = "none"
  <2>1. j \in Nat BY DEF Steps
  <2>2. /\ j < i => tasks[r][j].status = "completed"
        /\ j > i => tasks[r][j].status = "none"
    BY <1>1, <1>2 DEF ShapeOf
  <2>3. CASE j = i
    BY <1>7, <1>3, <2>3
  <2>4. CASE j = i + 1
    BY <1>7, <1>3, <2>4
  <2>5. CASE j # i /\ j # i + 1
    BY <1>7, <1>3, <2>1, <2>2, <2>5
  <2> QED BY <2>3, <2>4, <2>5
<1>9. TaskFits(runs'[r], tasks'[r][i + 1])
  BY <1>2, <1>4, <1>7 DEF TaskFits, Outstanding
<1>10. ShapeOf(runs'[r], tasks'[r])
  BY <1>2, <1>3, <1>4, <1>8, <1>9 DEF ShapeOf
<1>11. \A q \in Runs \ {r} : runs'[q] = runs[q] /\ tasks'[q] = tasks[q]
  BY DEF AdvanceNext, StoreTypeOK
<1> QED
  BY <1>10, <1>11, ShapeElsewhere

LEMMA AdvanceFinishShape ==
    ASSUME StoreTypeOK, RunShape, NEW r \in Runs, NEW i \in Steps, NEW o,
           NEW p \in Payload, Finished(r, i), AdvanceFinish(r, i, o, p)
    PROVE  RunShape'
<1>1. /\ ShapeOf(runs[r], tasks[r])
      /\ runs[r] \in RunRow /\ tasks[r] \in [Steps -> TaskRow]
  BY DEF RunShape, StoreTypeOK
<1>2. /\ i = runs[r].current_step
      /\ runs[r].status \in {"running", "failed"}
      /\ runs[r].total_steps = TotalSteps(runs[r].workflow)
      /\ runs[r].current_step < runs[r].total_steps
  BY <1>1, ActiveIsCurrent DEF AdvanceFinish, Fenced
<1>3. runs[r].current_step = runs[r].total_steps - 1
  BY <1>1, <1>2 DEF Finished, RunRow
<1>4. runs'[r] = [runs[r] EXCEPT !.status = "completed", !.result = p]
  BY DEF AdvanceFinish, StoreTypeOK
<1>5. /\ runs'[r] \in RunRow
      /\ runs'[r].status = "completed"
      /\ runs'[r].workflow = runs[r].workflow
      /\ runs'[r].total_steps = runs[r].total_steps
      /\ runs'[r].current_step = runs[r].current_step
  BY <1>1, <1>4 DEF RunRow, RunStatus
<1>6. tasks'[r] = [tasks[r] EXCEPT ![i] = CompletedWith(tasks[r][i], p)]
  BY DEF AdvanceFinish, StoreTypeOK
<1>7. CompletedWith(tasks[r][i], p).status = "completed"
  BY <1>1, RowStatus
<1>8. TaskFits(runs'[r], tasks'[r][i])
  BY <1>1, <1>3, <1>5, <1>6, <1>7 DEF TaskFits
<1>9. ShapeOf(runs'[r], tasks'[r])
  BY <1>1, <1>2, <1>5, <1>6, <1>8, ShapeStays
<1>10. \A q \in Runs \ {r} : runs'[q] = runs[q] /\ tasks'[q] = tasks[q]
  BY DEF AdvanceFinish, StoreTypeOK
<1> QED
  BY <1>9, <1>10, ShapeElsewhere

LEMMA DeadLetterShape ==
    ASSUME StoreTypeOK, RunShape, NEW r \in Runs, NEW i \in Steps, NEW o,
           DeadLetter(r, i, o)
    PROVE  RunShape'
<1>1. /\ ShapeOf(runs[r], tasks[r])
      /\ runs[r] \in RunRow /\ tasks[r] \in [Steps -> TaskRow]
  BY DEF RunShape, StoreTypeOK
<1>2. i = runs[r].current_step /\ runs[r].status \in {"running", "failed"}
  BY <1>1, ActiveIsCurrent DEF DeadLetter, Fenced
<1>3. runs'[r] = [runs[r] EXCEPT !.status = "failed"]
  BY DEF DeadLetter, StoreTypeOK
<1>4. /\ runs'[r] \in RunRow
      /\ runs'[r].status = "failed"
      /\ runs'[r].workflow = runs[r].workflow
      /\ runs'[r].total_steps = runs[r].total_steps
      /\ runs'[r].current_step = runs[r].current_step
  BY <1>1, <1>3 DEF RunRow, RunStatus
<1>5. tasks'[r] = [tasks[r] EXCEPT ![i] = [tasks[r][i] EXCEPT !.status = "dead"]]
  BY DEF DeadLetter, StoreTypeOK
<1>6. [tasks[r][i] EXCEPT !.status = "dead"].status = "dead"
  BY <1>1 DEF TaskRow
<1>7. TaskFits(runs'[r], tasks'[r][i])
  BY <1>1, <1>4, <1>5, <1>6 DEF TaskFits
<1>8. ShapeOf(runs'[r], tasks'[r])
  BY <1>1, <1>2, <1>4, <1>5, <1>7, ShapeStays
<1>9. \A q \in Runs \ {r} : runs'[q] = runs[q] /\ tasks'[q] = tasks[q]
  BY DEF DeadLetter, StoreTypeOK
<1> QED
  BY <1>8, <1>9, ShapeElsewhere

LEMMA CancelShape ==
    ASSUME StoreTypeOK, RunShape, NEW r \in Runs, CancelRun(r)
    PROVE  RunShape'
<1>1. /\ ShapeOf(runs[r], tasks[r])
      /\ runs[r] \in RunRow /\ tasks[r] \in [Steps -> TaskRow]
      /\ runs[r].status = "running"
  BY DEF RunShape, StoreTypeOK, CancelRun
<1> DEFINE c == runs[r].current_step
<1>2. c \in Steps
  BY <1>1, TypesAssumption DEF ShapeOf, RunRow, TotalSteps, Steps
<1>3. tasks[r][c].status \in Outstanding
  BY <1>1 DEF ShapeOf, TaskFits
<1>4. runs'[r] = [runs[r] EXCEPT !.status = "cancelled"]
  BY DEF CancelRun, StoreTypeOK
<1>5. /\ runs'[r] \in RunRow
      /\ runs'[r].status = "cancelled"
      /\ runs'[r].workflow = runs[r].workflow
      /\ runs'[r].total_steps = runs[r].total_steps
      /\ runs'[r].current_step = c
  BY <1>1, <1>4 DEF RunRow, RunStatus
<1>6. \A j \in Steps :
        tasks'[r][j] = IF tasks[r][j].status \in {"none", "completed", "failed",
                                                  "dead", "cancelled"}
                       THEN tasks[r][j]
                       ELSE [tasks[r][j] EXCEPT !.status = "cancelled"]
  BY DEF CancelRun, StoreTypeOK
<1>7. tasks'[r][c].status = "cancelled"
  BY <1>1, <1>2, <1>3, <1>6 DEF Outstanding, TaskRow
<1>8. ASSUME NEW j \in Steps, j # c
      PROVE  tasks'[r][j].status = tasks[r][j].status
  <2>1. j \in Int /\ c \in Int
    BY <1>2 DEF Steps
  <2>2. tasks[r][j].status \in {"completed", "none"}
    BY <1>1, <1>8, <2>1 DEF ShapeOf
  <2> QED BY <1>6, <2>2
<1>9. TaskFits(runs'[r], tasks'[r][c])
  BY <1>5, <1>7 DEF TaskFits
<1>10. ShapeOf(runs'[r], tasks'[r])
  BY <1>1, <1>5, <1>8, <1>9, ShapeStays
<1>11. \A q \in Runs \ {r} : runs'[q] = runs[q] /\ tasks'[q] = tasks[q]
  BY DEF CancelRun, StoreTypeOK
<1> QED
  BY <1>10, <1>11, ShapeElsewhere

(* Reap and Tick rewrite tasks of every run; no status changes but from    *)
(* leased to pending.                                                      *)
LEMMA ShapeReclaim ==
    ASSUME StoreTypeOK, RunShape, runs' = runs,
           \A q \in Runs : \A j \in Steps :
              \/ tasks'[q][j].status = tasks[q][j].status
              \/ tasks[q][j].status = "leased" /\ tasks'[q][j].status = "pending"
    PROVE  RunShape'
<1> SUFFICES ASSUME NEW r \in Runs
             PROVE  ShapeOf(runs[r], tasks'[r])
  BY DEF RunShape
<1>1. /\ ShapeOf(runs[r], tasks[r])
      /\ runs[r] \in RunRow /\ tasks[r] \in [Steps -> TaskRow]
  BY DEF RunShape, StoreTypeOK
<1>2. CASE runs[r].status = "none"
  BY <1>1, <1>2 DEF ShapeOf
<1>3. CASE runs[r].status # "none"
  <2> DEFINE c == runs[r].current_step
  <2>1. c \in Steps
    BY <1>1, <1>3, TypesAssumption DEF ShapeOf, RunRow, TotalSteps, Steps
  <2>2. \A j \in Steps : j # c => tasks'[r][j].status = tasks[r][j].status
    BY <1>1, ActiveIsCurrent
  <2>3. TaskFits(runs[r], tasks'[r][c])
    BY <1>1, <1>3, <2>1 DEF ShapeOf, TaskFits, Outstanding
  <2> QED BY <1>1, <1>3, <2>2, <2>3, ShapeStays
<1> QED BY <1>2, <1>3
(* The two together are inductive: Advance builds the next task from the   *)
(* definition of the run's workflow, and it is the shape that says the run *)
(* has one.                                                                *)
StoreInv == StoreTypeOK /\ RunShape

LEMMA StoreInitInv == StoreInit => StoreInv
<1> SUFFICES ASSUME StoreInit PROVE StoreInv
  OBVIOUS
<1>1. NoRun \in RunRow /\ NoTask \in TaskRow
  BY FixedPayloads DEF NoRun, RunRow, RunStatus, NoTask, TaskRow, TaskStatus, TaskKind
<1>2. StoreTypeOK
  BY <1>1 DEF StoreInit, StoreTypeOK
<1>3. RunShape
  BY DEF StoreInit, RunShape, ShapeOf, NoRun, NoTask
<1> QED BY <1>2, <1>3 DEF StoreInv

(* Results that reach Advance are payloads, for a run that has a workflow. *)
LEMMA AdvanceInv ==
    ASSUME StoreInv, NEW r \in Runs, NEW i \in Steps, NEW o \in Owners,
           NEW p \in ResultsBy(o), Advance(r, i, o, p)
    PROVE  StoreInv'
<1>1. p \in Payload
  BY DEF ResultsBy, Payload
<1>2. /\ ShapeOf(runs[r], tasks[r])
      /\ runs[r] \in RunRow /\ tasks[r] \in [Steps -> TaskRow]
  BY DEF StoreInv, RunShape, StoreTypeOK
<1>3. tasks[r][i].status = "leased"
  BY DEF Advance, AdvanceNext, AdvanceFinish, Fenced
<1>4. runs[r].workflow \in Workflows
  BY <1>2, <1>3, ActiveIsCurrent
<1>5. StoreTypeOK'
  BY <1>1, <1>4, AdvanceType DEF StoreInv
<1>6. RunShape'
  BY <1>1, AdvanceNextShape, AdvanceFinishShape DEF StoreInv, Advance
<1> QED BY <1>5, <1>6 DEF StoreInv

LEMMA StoreStepInv ==
    ASSUME StoreInv, [StoreNext]_storeVars
    PROVE  StoreInv'
<1> USE DEF StoreInv
<1>1. ASSUME NEW r \in Runs, NEW wf \in Workflows, NEW key \in Keys \cup {NULL},
             StartWorkflow(r, wf, key)
      PROVE  StoreInv'
  BY <1>1, StartType, StartShape
<1>2. ASSUME NEW r \in Runs, CancelRun(r)
      PROVE  StoreInv'
  BY <1>2, CancelType, CancelShape
<1>3. ASSUME NEW r \in Runs, NEW i \in Steps, Replay(r, i)
      PROVE  StoreInv'
  <2>1. ReplayDeadLetter(r, i)
    BY <1>3 DEF Replay
  <2>2. StoreTypeOK'
    BY <2>1, ReplayType
  <2>3. tasks[r][i] \in TaskRow
    BY DEF StoreTypeOK
  <2>4. Requeued(tasks[r][i]) \in TaskRow /\ Requeued(tasks[r][i]).status \in Outstanding
    BY <2>3, RowTypes, RowStatus DEF Outstanding
  <2>5. /\ tasks[r][i].status = "dead" /\ runs' = runs
        /\ tasks' = [tasks EXCEPT ![r][i] = Requeued(tasks[r][i])]
    BY <2>1 DEF ReplayDeadLetter
  <2> QED BY <2>2, <2>4, <2>5, ShapeRewrite
<1>4. ASSUME NEW r \in Runs, NEW i \in Steps, NEW o \in Owners, LeaseTask(o, r, i)
      PROVE  StoreInv'
  <2>1. StoreTypeOK'
    BY <1>4, LeaseType
  <2>2. tasks[r][i] \in TaskRow
    BY DEF StoreTypeOK
  <2>3. LeasedTo(tasks[r][i], o) \in TaskRow
    BY <2>2, RowTypes
  <2>5. LeasedTo(tasks[r][i], o).status \in Outstanding
    <3>1. LeasedTo(tasks[r][i], o).status = "leased"
      BY <2>2, RowStatus
    <3> QED BY <3>1 DEF Outstanding
  <2>4. /\ tasks[r][i].status = "pending" /\ runs' = runs
        /\ tasks' = [tasks EXCEPT ![r][i] = LeasedTo(tasks[r][i], o)]
    BY <1>4 DEF LeaseTask, Due
  <2> QED BY <2>1, <2>3, <2>4, <2>5, ShapeRewrite
<1>5. ASSUME NEW r \in Runs, NEW i \in Steps, NEW o \in Owners,
             NEW p \in ResultsBy(o), Advance(r, i, o, p)
      PROVE  StoreInv'
  BY <1>5, AdvanceInv
<1>6. ASSUME NEW r \in Runs, NEW i \in Steps, NEW o \in Owners,
             NEW d \in 0 .. MaxBackoff, Retry(r, i, o, d)
      PROVE  StoreInv'
  <2>1. d \in Nat
    BY StoreAssumption
  <2>2. StoreTypeOK'
    BY <1>6, <2>1, RetryType
  <2> DEFINE row == [BackToPending(tasks[r][i]) EXCEPT !.available_at = d]
  <2>3. tasks[r][i] \in TaskRow
    BY DEF StoreTypeOK
  <2>4. row \in TaskRow
    BY <2>1, <2>3, RowTypes
  <2>6. row.status \in Outstanding
    <3>1. row.status = "pending"
      BY <2>3, RowStatus
    <3> QED BY <3>1 DEF Outstanding
  <2>5. /\ tasks[r][i].status = "leased" /\ runs' = runs
        /\ tasks' = [tasks EXCEPT ![r][i] = row]
    BY <1>6 DEF Retry, Fenced
  <2> HIDE DEF row
  <2> QED BY <2>2, <2>4, <2>5, <2>6, ShapeRewrite
<1>7. ASSUME NEW r \in Runs, NEW i \in Steps, NEW o \in Owners, DeadLetter(r, i, o)
      PROVE  StoreInv'
  BY <1>7, DeadLetterType, DeadLetterShape
<1>8. CASE ReapExpiredLeases
  <2>1. PICK taken \in SUBSET ExpiredRows : Reclaim(taken)
    BY <1>8 DEF ReapExpiredLeases
  <2>2. ASSUME NEW q \in Runs, NEW j \in Steps
        PROVE  \/ tasks'[q][j].status = tasks[q][j].status
               \/ tasks[q][j].status = "leased" /\ tasks'[q][j].status = "pending"
    <3>1. /\ tasks[q][j] \in TaskRow
          /\ tasks'[q][j] = IF <<q, j>> \in taken THEN BackToPending(tasks[q][j])
                                                 ELSE tasks[q][j]
      BY <2>1 DEF Reclaim, StoreTypeOK
    <3>2. <<q, j>> \in taken => tasks[q][j].status = "leased"
      BY DEF ExpiredRows, Expired
    <3>3. BackToPending(tasks[q][j]).status = "pending"
      BY <3>1, RowStatus
    <3> QED BY <3>1, <3>2, <3>3
  <2>3. runs' = runs
    BY <2>1 DEF Reclaim
  <2> QED BY <1>8, <2>2, <2>3, ReapType, ShapeReclaim
<1>9. CASE Tick
  <2>1. \A q \in Runs : \A j \in Steps : tasks'[q][j].status = tasks[q][j].status
    BY <1>9, RowStatus DEF Tick, StoreTypeOK
  <2> QED BY <1>9, <2>1, TickType, ShapeReclaim DEF Tick
<1>10. CASE UNCHANGED storeVars
  BY <1>10 DEF storeVars, StoreTypeOK, RunShape, ShapeOf, TaskFits
<1> QED
  BY <1>1, <1>2, <1>3, <1>4, <1>5, <1>6, <1>7, <1>8, <1>9, <1>10 DEF StoreNext

(* Every row keeps its type, and every run its shape: under any order of   *)
(* the store's transactions a running run has exactly one task that can be *)
(* worked on, its predecessors are completed, nothing beyond it is         *)
(* scheduled, and a run that ended keeps no task of the wrong kind.        *)
THEOREM StoreSafety == StoreSpec => [](StoreTypeOK /\ RunShape)
<1>1. StoreInit => StoreInv
  BY StoreInitInv
<1>2. StoreInv /\ [StoreNext]_storeVars => StoreInv'
  BY StoreStepInv
<1> QED
  BY <1>1, <1>2, PTL DEF StoreSpec, StoreInv

----------------------------------------------------------------------------
(* What the shape of a run gives: a run that completed or was cancelled is *)
(* frozen, and the store implements WorkflowRun.                           *)

(* The transactions that name a run, and what each leaves of the others.   *)
RunStep(r) ==
    \/ \E wf \in Workflows : \E key \in Keys \cup {NULL} : StartWorkflow(r, wf, key)
    \/ CancelRun(r)
    \/ \E i \in Steps : Replay(r, i)
    \/ \E i \in Steps : \E o \in Owners :
          \/ LeaseTask(o, r, i)
          \/ \E p \in ResultsBy(o) : Advance(r, i, o, p)
          \/ \E d \in 0 .. MaxBackoff : Retry(r, i, o, d)
          \/ DeadLetter(r, i, o)

(* Every transaction is one of these, a reap, or the clock.                *)
LEMMA NextByRun ==
    StoreNext <=> (\E r \in Runs : RunStep(r)) \/ ReapExpiredLeases \/ Tick
  BY DEF StoreNext, RunStep

(* A transaction on one run touches no row or event of another.            *)
LEMMA OtherRuns ==
    ASSUME StoreTypeOK, NEW r \in Runs, RunStep(r), NEW q \in Runs, q # r
    PROVE  runs'[q] = runs[q] /\ tasks'[q] = tasks[q] /\ events'[q] = events[q]
<1> USE DEF StoreTypeOK, AppendEvents
<1>1. ASSUME NEW wf \in Workflows, NEW key \in Keys \cup {NULL},
             StartWorkflow(r, wf, key)
      PROVE  runs'[q] = runs[q] /\ tasks'[q] = tasks[q] /\ events'[q] = events[q]
  BY <1>1 DEF StartWorkflow, StartRun
<1>2. CASE CancelRun(r)
  BY <1>2 DEF CancelRun
<1>3. ASSUME NEW i \in Steps, Replay(r, i)
      PROVE  runs'[q] = runs[q] /\ tasks'[q] = tasks[q] /\ events'[q] = events[q]
  BY <1>3 DEF Replay, ReplayDeadLetter
<1>4. ASSUME NEW i \in Steps, NEW o \in Owners, LeaseTask(o, r, i)
      PROVE  runs'[q] = runs[q] /\ tasks'[q] = tasks[q] /\ events'[q] = events[q]
  BY <1>4 DEF LeaseTask
<1>5. ASSUME NEW i \in Steps, NEW o \in Owners, NEW p \in ResultsBy(o),
             Advance(r, i, o, p)
      PROVE  runs'[q] = runs[q] /\ tasks'[q] = tasks[q] /\ events'[q] = events[q]
  <2>1. ASSUME NEW next, AdvanceNext(r, i, o, p, next)
        PROVE  runs'[q] = runs[q] /\ tasks'[q] = tasks[q] /\ events'[q] = events[q]
    BY <2>1 DEF AdvanceNext
  <2>2. CASE AdvanceFinish(r, i, o, p)
    BY <2>2 DEF AdvanceFinish
  <2> QED BY <1>5, <2>1, <2>2 DEF Advance
<1>6. ASSUME NEW i \in Steps, NEW o \in Owners, NEW d \in 0 .. MaxBackoff,
             Retry(r, i, o, d)
      PROVE  runs'[q] = runs[q] /\ tasks'[q] = tasks[q] /\ events'[q] = events[q]
  BY <1>6 DEF Retry
<1>7. ASSUME NEW i \in Steps, NEW o \in Owners, DeadLetter(r, i, o)
      PROVE  runs'[q] = runs[q] /\ tasks'[q] = tasks[q] /\ events'[q] = events[q]
  BY <1>7 DEF DeadLetter
<1> QED
  BY <1>1, <1>2, <1>3, <1>4, <1>5, <1>6, <1>7 DEF RunStep

(* A transaction that names a run needs it absent, or running or failed.   *)
LEMMA FinalRunsTakeNoStep ==
    ASSUME StoreInv, NEW r \in Runs, RunStep(r)
    PROVE  runs[r].status \notin {"completed", "cancelled"}
<1>1. /\ ShapeOf(runs[r], tasks[r])
      /\ runs[r] \in RunRow /\ tasks[r] \in [Steps -> TaskRow]
  BY DEF StoreInv, RunShape, StoreTypeOK
<1>2. ASSUME NEW i \in Steps, tasks[r][i].status \in {"pending", "leased", "dead"}
      PROVE  runs[r].status \in {"running", "failed"}
  BY <1>1, <1>2, ActiveIsCurrent
<1>3. \/ runs[r].status \in {"none", "running"}
      \/ \E i \in Steps : tasks[r][i].status \in {"pending", "leased", "dead"}
  <2>1. ASSUME NEW i \in Steps, NEW o \in Owners,
               \/ LeaseTask(o, r, i) \/ DeadLetter(r, i, o)
               \/ \E p \in ResultsBy(o) : Advance(r, i, o, p)
               \/ \E d \in 0 .. MaxBackoff : Retry(r, i, o, d)
        PROVE  tasks[r][i].status \in {"pending", "leased"}
    BY <2>1 DEF LeaseTask, Due, Advance, AdvanceNext, AdvanceFinish, Retry,
                DeadLetter, Fenced
  <2> QED BY <2>1 DEF RunStep, StartWorkflow, StartRun, CancelRun, Replay,
                      ReplayDeadLetter
<1> QED BY <1>2, <1>3

----------------------------------------------------------------------------
(* Nothing in a final run is leased, so a reap finds nothing there.        *)
LEMMA NothingToReap ==
    ASSUME StoreInv, NEW r \in Runs,
           runs[r].status \in {"completed", "cancelled"}
    PROVE  \A i \in Steps : ~Expired(tasks[r][i])
<1>1. /\ ShapeOf(runs[r], tasks[r])
      /\ runs[r] \in RunRow /\ tasks[r] \in [Steps -> TaskRow]
  BY DEF StoreInv, RunShape, StoreTypeOK
<1>2. ASSUME NEW i \in Steps PROVE tasks[r][i].status # "leased"
  BY <1>1, ActiveIsCurrent
<1> QED BY <1>2 DEF Expired

(* A run of which a reap takes no row keeps its tasks and its history.     *)
LEMMA NothingTaken ==
    ASSUME StoreTypeOK, NEW r \in Runs, NEW taken, Reclaim(taken),
           \A i \in Steps : <<r, i>> \notin taken
    PROVE  /\ events'[r] = events[r]
           /\ \A i \in Steps : tasks'[r][i] = tasks[r][i]
<1>1. {i \in Steps : <<r, i>> \in taken} = {}
  OBVIOUS
<1>2. Cardinality({}) = 0
  BY FS_EmptySet
<1>3. ReclaimEvents({}) = <<>>
  BY <1>2 DEF ReclaimEvents
<1>4. events[r] \in Seq(Event) /\ events'[r] = events[r] \o <<>>
  BY <1>1, <1>3 DEF Reclaim, StoreTypeOK
<1> QED BY <1>4 DEF Reclaim

FrozenStep ==
    \A r \in Runs : runs[r].status \in {"completed", "cancelled"} =>
        /\ runs'[r] = runs[r]
        /\ events'[r] = events[r]
        /\ \A i \in Steps : Settled(tasks'[r][i]) = Settled(tasks[r][i])

LEMMA FrozenByStep ==
    ASSUME StoreInv, [StoreNext]_storeVars
    PROVE  FrozenStep
<1> SUFFICES ASSUME NEW r \in Runs,
                    runs[r].status \in {"completed", "cancelled"}
             PROVE  /\ runs'[r] = runs[r]
                    /\ events'[r] = events[r]
                    /\ \A i \in Steps :
                          Settled(tasks'[r][i]) = Settled(tasks[r][i])
  BY DEF FrozenStep
<1>1. ASSUME NEW q \in Runs, RunStep(q)
      PROVE  runs'[r] = runs[r] /\ tasks'[r] = tasks[r] /\ events'[r] = events[r]
  <2>1. q # r
    BY <1>1, FinalRunsTakeNoStep
  <2> QED BY <1>1, <2>1, OtherRuns DEF StoreInv
<1>2. CASE ReapExpiredLeases
  <2>1. PICK taken \in SUBSET ExpiredRows : Reclaim(taken)
    BY <1>2 DEF ReapExpiredLeases
  <2>2. \A i \in Steps : <<r, i>> \notin taken
    BY <2>1, NothingToReap DEF ExpiredRows
  <2>3. events'[r] = events[r] /\ \A i \in Steps : tasks'[r][i] = tasks[r][i]
    BY <2>1, <2>2, NothingTaken DEF StoreInv
  <2> QED BY <2>1, <2>3 DEF Reclaim
<1>3. CASE Tick
  <2>1. \A t \in TaskRow : Settled(Closer(t)) = Settled(t)
    BY DEF Settled, Closer, TaskRow
  <2>2. \A i \in Steps : Settled(tasks'[r][i]) = Settled(tasks[r][i])
    BY <1>3, <2>1 DEF Tick, StoreInv, StoreTypeOK
  <2> QED BY <1>3, <2>2 DEF Tick
<1>4. CASE UNCHANGED storeVars
  BY <1>4 DEF storeVars
<1> QED
  BY <1>1, <1>2, <1>3, <1>4, NextByRun

(* No transaction, whatever stale command it carries, changes a run that   *)
(* completed or was cancelled.                                             *)
THEOREM FinalRunsStayFrozen == StoreSpec => FinalRunsFrozen
<1>1. StoreInv /\ [StoreNext]_storeVars => [FrozenStep]_storeVars
  BY FrozenByStep
<1>2. StoreSpec => []StoreInv
  BY StoreSafety, PTL DEF StoreInv
<1> QED
  BY <1>1, <1>2, PTL DEF StoreSpec, FinalRunsFrozen, FrozenStep
----------------------------------------------------------------------------
(* The refinement.  DoneIn is what the mapping calls done, for one run.    *)
DoneIn(ts) == {i \in Steps : ts[i].status = "completed"}

(* The steps done are those before the current one, and the current one    *)
(* too once the run has completed.                                         *)
LEMMA DoneByShape ==
    ASSUME NEW run \in RunRow, NEW ts \in [Steps -> TaskRow], ShapeOf(run, ts)
    PROVE  /\ run.status = "none" => DoneIn(ts) = {}
           /\ run.status \in {"running", "failed", "cancelled"} =>
                 /\ DoneIn(ts) = 0 .. (run.current_step - 1)
                 /\ DoneIn(ts) # 0 .. (run.total_steps - 1)
           /\ run.status = "completed" =>
                 DoneIn(ts) = 0 .. (run.total_steps - 1)
<1>1. CASE run.status = "none"
  BY <1>1 DEF ShapeOf, DoneIn
<1>2. CASE run.status # "none"
  <2> DEFINE c == run.current_step
  <2>1. /\ c \in Nat /\ run.total_steps \in Nat /\ c < run.total_steps
        /\ run.total_steps <= MaxSteps /\ MaxSteps \in Nat
        /\ c \in Steps
    BY <1>2, TypesAssumption DEF ShapeOf, RunRow, TotalSteps, Steps
  <2>2. \A i \in Steps : /\ i \in Nat
                         /\ i < c => ts[i].status = "completed"
                         /\ i > c => ts[i].status = "none"
    BY <1>2 DEF ShapeOf, Steps
  <2>3. \A i \in 0 .. (c - 1) : i \in Steps
    BY <2>1 DEF Steps
  <2>4. CASE run.status \in {"running", "failed", "cancelled"}
    <3>1. ts[c].status # "completed"
      BY <1>2, <2>4 DEF ShapeOf, TaskFits, Outstanding
    <3>2. DoneIn(ts) = 0 .. (c - 1)
      BY <2>1, <2>2, <2>3, <3>1 DEF DoneIn
    <3>3. c \in 0 .. (run.total_steps - 1) /\ c \notin 0 .. (c - 1)
      BY <2>1
    <3> QED BY <2>4, <3>2, <3>3
  <2>5. CASE run.status = "completed"
    <3>1. ts[c].status = "completed" /\ c = run.total_steps - 1
      BY <1>2, <2>5 DEF ShapeOf, TaskFits
    <3>2. DoneIn(ts) = 0 .. c
      BY <2>1, <2>2, <2>3, <3>1 DEF DoneIn
    <3> QED BY <2>5, <3>1, <3>2
  <2> QED BY <1>2, <2>4, <2>5 DEF RunRow, RunStatus
<1> QED BY <1>1, <1>2

(* A step of the store on run r, seen through the mapping, is described by *)
(* what it does to the status, length and done steps of r alone.           *)
SameAbove(r) ==
    /\ runs'[r].status = runs[r].status
    /\ runs'[r].total_steps = runs[r].total_steps
    /\ DoneIn(tasks'[r]) = DoneIn(tasks[r])

StartsAbove(r) ==
    /\ runs[r].status = "none"
    /\ runs'[r].status = "running"
    /\ runs'[r].total_steps \in 1 .. MaxSteps
    /\ DoneIn(tasks'[r]) = DoneIn(tasks[r])

CompletesAbove(r, i) ==
    /\ runs[r].status \in {"running", "failed"}
    /\ i \in 0 .. (runs[r].total_steps - 1)
    /\ DoneIn(tasks[r]) = 0 .. (i - 1)
    /\ DoneIn(tasks'[r]) = 0 .. i
    /\ runs'[r].total_steps = runs[r].total_steps
    /\ runs'[r].status = IF i = runs[r].total_steps - 1 THEN "completed"
                                                        ELSE runs[r].status

EndsAbove(r) ==
    /\ runs[r].status = "running"
    /\ DoneIn(tasks[r]) # 0 .. (runs[r].total_steps - 1)
    /\ runs'[r].status \in {"failed", "cancelled"}
    /\ runs'[r].total_steps = runs[r].total_steps
    /\ DoneIn(tasks'[r]) = DoneIn(tasks[r])

LEMMA AbstractStep ==
    ASSUME StoreTypeOK, StoreTypeOK', NEW r \in Runs,
           \A q \in Runs \ {r} : SameAbove(q),
           \/ SameAbove(r)
           \/ StartsAbove(r)
           \/ \E i \in Nat : CompletesAbove(r, i)
           \/ EndsAbove(r)
    PROVE  [Abstract!RunNext]_(Abstract!runVars)
<1> DEFINE st == [q \in Runs |-> runs[q].status]
           tot == [q \in Runs |-> runs[q].total_steps]
           dn == [q \in Runs |-> DoneIn(tasks[q])]
           stN == [q \in Runs |-> runs'[q].status]
           totN == [q \in Runs |-> runs'[q].total_steps]
           dnN == [q \in Runs |-> DoneIn(tasks'[q])]
<1>1. CASE SameAbove(r)
  <2>1. stN = st /\ totN = tot /\ dnN = dn
    BY <1>1 DEF SameAbove
  <2> QED BY <2>1 DEF Abstract!runVars, DoneIn
<1>2. CASE StartsAbove(r)
  <2>1. /\ st[r] = "none"
        /\ totN = [tot EXCEPT ![r] = runs'[r].total_steps]
        /\ stN = [st EXCEPT ![r] = "running"]
        /\ dnN = dn
    BY <1>2 DEF StartsAbove, SameAbove
  <2>2. Abstract!Start(r)
    BY <1>2, <2>1 DEF Abstract!Start, DoneIn, StartsAbove
  <2> QED BY <2>2 DEF Abstract!RunNext
<1>3. ASSUME NEW i \in Nat, CompletesAbove(r, i)
      PROVE  Abstract!RunNext
  <2>1. /\ st[r] \in {"running", "failed"}
        /\ dn[r] = 0 .. (i - 1)
        /\ dnN = [dn EXCEPT ![r] = 0 .. i]
        /\ stN = [st EXCEPT ![r] = IF i = tot[r] - 1 THEN "completed" ELSE st[r]]
        /\ totN = tot
        /\ i \in 0 .. (tot[r] - 1)
    BY <1>3 DEF CompletesAbove, SameAbove
  <2>2. Abstract!CompleteStep(r, i)
    BY <2>1 DEF Abstract!CompleteStep, DoneIn
  <2> QED BY <2>1, <2>2 DEF Abstract!RunNext
<1>4. CASE EndsAbove(r)
  <2>1. /\ st[r] = "running"
        /\ dn[r] # 0 .. (tot[r] - 1)
        /\ stN = [st EXCEPT ![r] = runs'[r].status]
        /\ totN = tot /\ dnN = dn
    BY <1>4 DEF EndsAbove, SameAbove
  <2>2. Abstract!Fail(r) \/ Abstract!Cancel(r)
    BY <1>4, <2>1 DEF Abstract!Fail, Abstract!Cancel, DoneIn, EndsAbove
  <2> QED BY <2>2 DEF Abstract!RunNext
<1> QED BY <1>1, <1>2, <1>3, <1>4
(* The shape before and after a step tells the steps done before and after *)
(* it, from the run's row alone.                                           *)
LEMMA SameRow ==
    ASSUME StoreInv, StoreInv', NEW r \in Runs, runs'[r] = runs[r]
    PROVE  SameAbove(r)
<1>1. /\ ShapeOf(runs[r], tasks[r]) /\ ShapeOf(runs[r], tasks'[r])
      /\ runs[r] \in RunRow
      /\ tasks[r] \in [Steps -> TaskRow] /\ tasks'[r] \in [Steps -> TaskRow]
  BY DEF StoreInv, RunShape, StoreTypeOK
<1> QED
  BY <1>1, DoneByShape DEF SameAbove, RunRow, RunStatus

LEMMA RunStepAbove ==
    ASSUME StoreInv, StoreInv', NEW r \in Runs, RunStep(r)
    PROVE  \/ SameAbove(r)
           \/ StartsAbove(r)
           \/ \E i \in Nat : CompletesAbove(r, i)
           \/ EndsAbove(r)
<1>1. /\ ShapeOf(runs[r], tasks[r]) /\ ShapeOf(runs'[r], tasks'[r])
      /\ runs[r] \in RunRow /\ runs'[r] \in RunRow
      /\ tasks[r] \in [Steps -> TaskRow] /\ tasks'[r] \in [Steps -> TaskRow]
  BY DEF StoreInv, RunShape, StoreTypeOK
<1>2. ASSUME NEW wf \in Workflows, NEW key \in Keys \cup {NULL},
             StartWorkflow(r, wf, key)
      PROVE  StartsAbove(r)
  <2>1. /\ runs[r].status = "none" /\ runs'[r].status = "running"
        /\ runs'[r].current_step = 0 /\ runs'[r].total_steps = TotalSteps(wf)
        /\ TotalSteps(wf) > 0
    BY <1>2 DEF StartWorkflow, StartRun, StoreInv, StoreTypeOK
  <2>2. runs'[r].total_steps \in 1 .. MaxSteps
    BY <2>1, TypesAssumption DEF TotalSteps
  <2>3. DoneIn(tasks[r]) = {} /\ DoneIn(tasks'[r]) = 0 .. (0 - 1)
    BY <1>1, <2>1, DoneByShape
  <2>4. 0 .. (0 - 1) = {}
    OBVIOUS
  <2> QED BY <2>1, <2>2, <2>3, <2>4 DEF StartsAbove
<1>3. CASE CancelRun(r)
  <2>1. /\ runs[r].status = "running" /\ runs'[r].status = "cancelled"
        /\ runs'[r].current_step = runs[r].current_step
        /\ runs'[r].total_steps = runs[r].total_steps
    BY <1>1, <1>3 DEF CancelRun, StoreInv, StoreTypeOK, RunRow
  <2> QED BY <1>1, <2>1, DoneByShape DEF EndsAbove
<1>4. ASSUME runs' = runs PROVE SameAbove(r)
  BY <1>4, SameRow
<1>5. ASSUME NEW i \in Steps, NEW o \in Owners, NEW p \in ResultsBy(o),
             Advance(r, i, o, p)
      PROVE  \E k \in Nat : CompletesAbove(r, k)
  <2>1. tasks[r][i].status = "leased"
    BY <1>5 DEF Advance, AdvanceNext, AdvanceFinish, Fenced
  <2>2. /\ i = runs[r].current_step
        /\ runs[r].status \in {"running", "failed"}
        /\ runs[r].total_steps = TotalSteps(runs[r].workflow)
        /\ i < runs[r].total_steps
        /\ i \in Nat /\ runs[r].total_steps \in Nat
    BY <1>1, <2>1, ActiveIsCurrent DEF RunRow
  <2>3. DoneIn(tasks[r]) = 0 .. (i - 1)
    BY <1>1, <2>2, DoneByShape
  <2>4. ASSUME ~Finished(r, i), NEW next, AdvanceNext(r, i, o, p, next)
        PROVE  \E k \in Nat : CompletesAbove(r, k)
    <3>1. /\ runs'[r].status = runs[r].status
          /\ runs'[r].total_steps = runs[r].total_steps
          /\ runs'[r].current_step = i + 1
      BY <1>1, <2>4 DEF AdvanceNext, StoreInv, StoreTypeOK, RunRow
    <3>2. DoneIn(tasks'[r]) = 0 .. ((i + 1) - 1)
      BY <1>1, <2>2, <3>1, DoneByShape
    <3>3. i # runs[r].total_steps - 1
      BY <2>2, <2>4 DEF Finished
    <3> QED BY <2>2, <2>3, <3>1, <3>2, <3>3 DEF CompletesAbove
  <2>5. CASE Finished(r, i) /\ AdvanceFinish(r, i, o, p)
    <3>1. /\ runs'[r].status = "completed"
          /\ runs'[r].total_steps = runs[r].total_steps
      BY <1>1, <2>5 DEF AdvanceFinish, StoreInv, StoreTypeOK, RunRow
    <3>2. i = runs[r].total_steps - 1
      BY <2>2, <2>5 DEF Finished
    <3>3. DoneIn(tasks'[r]) = 0 .. i
      BY <1>1, <3>1, <3>2, DoneByShape
    <3> QED BY <2>2, <2>3, <3>1, <3>2, <3>3 DEF CompletesAbove
  <2> QED BY <1>5, <2>4, <2>5 DEF Advance
<1>6. ASSUME NEW i \in Steps, NEW o \in Owners, DeadLetter(r, i, o)
      PROVE  SameAbove(r) \/ EndsAbove(r)
  <2>1. /\ runs[r].status \in {"running", "failed"} /\ runs'[r].status = "failed"
        /\ runs'[r].current_step = runs[r].current_step
        /\ runs'[r].total_steps = runs[r].total_steps
    <3>1. runs[r].status \in {"running", "failed"}
      BY <1>1, <1>6, ActiveIsCurrent DEF DeadLetter, Fenced
    <3> QED BY <1>1, <1>6, <3>1 DEF DeadLetter, StoreInv, StoreTypeOK, RunRow
  <2> QED BY <1>1, <2>1, DoneByShape DEF EndsAbove, SameAbove
<1> QED
  BY <1>2, <1>3, <1>4, <1>5, <1>6
     DEF RunStep, Replay, ReplayDeadLetter, LeaseTask, Retry

LEMMA RefinementStep ==
    ASSUME StoreInv, StoreInv', [StoreNext]_storeVars
    PROVE  [Abstract!RunNext]_(Abstract!runVars)
<1>1. ASSUME NEW r \in Runs, RunStep(r)
      PROVE  [Abstract!RunNext]_(Abstract!runVars)
  <2>1. \A q \in Runs \ {r} : SameAbove(q)
    BY <1>1, OtherRuns, SameRow DEF StoreInv
  <2> QED BY <1>1, <2>1, RunStepAbove, AbstractStep DEF StoreInv
<1>2. CASE runs' = runs
  <2>1. \A q \in Runs : SameAbove(q)
    BY <1>2, SameRow
  <2>2. CASE Runs = {}
    BY <2>2 DEF Abstract!runVars
  <2>3. CASE Runs # {}
    BY <2>1, <2>3, AbstractStep DEF StoreInv
  <2> QED BY <2>2, <2>3
<1> QED
  BY <1>1, <1>2, NextByRun DEF ReapExpiredLeases, Reclaim, Tick, storeVars

(* The store implements WorkflowRun: leases, fences, retries, reclaims and *)
(* replays never complete a step twice, out of order, or in a run that has *)
(* ended, and a run is completed exactly when its last step is.            *)
THEOREM StoreRefinesWorkflowRun == StoreSpec => ImplementsWorkflowRun
<1>1. StoreInit => Abstract!RunInit
  BY DEF StoreInit, Abstract!RunInit, NoRun, NoTask
<1>2. StoreInv /\ StoreInv' /\ [StoreNext]_storeVars
         => [Abstract!RunNext]_(Abstract!runVars)
  BY RefinementStep
<1>3. StoreSpec => []StoreInv
  BY StoreSafety, PTL DEF StoreInv
<1> QED
  BY <1>1, <1>2, <1>3, PTL DEF StoreSpec, ImplementsWorkflowRun, Abstract!RunSpec

----------------------------------------------------------------------------
(* Once a run has failed, completed or been cancelled it does not run      *)
(* again: a replay leaves the run's status alone.                          *)
Down == {"completed", "failed", "cancelled"}

LEMMA DownStays ==
    ASSUME StoreInv, StoreInv', [StoreNext]_storeVars,
           NEW r \in Runs, runs[r].status \in Down
    PROVE  runs'[r].status \in Down
<1>1. ASSUME NEW q \in Runs, RunStep(q) PROVE runs'[r].status \in Down
  <2>1. CASE q = r
    BY <1>1, <2>1, RunStepAbove
       DEF SameAbove, StartsAbove, CompletesAbove, EndsAbove, Down
  <2>2. CASE q # r
    BY <1>1, <2>2, OtherRuns DEF StoreInv
  <2> QED BY <2>1, <2>2
<1>2. CASE runs' = runs
  BY <1>2
<1> QED BY <1>1, <1>2, NextByRun DEF ReapExpiredLeases, Reclaim, Tick, storeVars

=============================================================================
