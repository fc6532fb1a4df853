------------------------- MODULE StoreHistoryProofs -------------------------
(***************************************************************************)
(* The data of a run and its history: what a task works on, what the       *)
(* events of a run tell a reader, and which run an idempotency key names.  *)
(*                                                                         *)
(* One lemma (RunEffects) says what any step of the store does to one run, *)
(* in seven forms; every property is then shown to survive each form.      *)
(***************************************************************************)
EXTENDS DuraflowStoreProofs, SequenceTheorems

----------------------------------------------------------------------------
(* Positions in a history, and the latest event of a kind.                 *)
Positions(s, S) == {k \in DOMAIN s : s[k] \in S}

Latest(s, S) ==
    IF Positions(s, S) = {} THEN "nothing" ELSE s[Max(Positions(s, S))].type

(* A set of positions has a largest element.                               *)
LEMMA LargestPosition ==
    ASSUME NEW n \in Nat, NEW K, K \subseteq 1 .. n, K # {}
    PROVE  Max(K) \in K /\ \A k \in K : Max(K) >= k
<1> DEFINE R == OpToRel(<, Nat)
           T == {m \in Nat : \E k \in K : m = n - k}
<1>1. T \subseteq Nat /\ T # {}
  <2>1. PICK k \in K : TRUE
    OBVIOUS
  <2>2. n - k \in T
    OBVIOUS
  <2> QED BY <2>2
<1>2. PICK m \in T : \A y \in T : ~(<<y, m>> \in R)
  <2> HIDE DEF T, R
  <2>1. IsWellFoundedOn(R, Nat)
    BY NatLessThanWellFounded DEF R
  <2> QED BY <1>1, <2>1, WFMin
<1>3. \A y \in T : ~(y < m)
  BY <1>1, <1>2 DEF OpToRel
<1>4. PICK x \in K : m = n - x
  OBVIOUS
<1>5. ASSUME NEW k \in K PROVE x >= k
  <2>1. n - k \in T
    OBVIOUS
  <2>2. ~(n - k < m)
    BY <1>3, <2>1
  <2> QED BY <1>4, <2>2
<1>6. \E y \in K : \A k \in K : y >= k
  BY <1>5
<1> QED BY <1>6 DEF Max

(* One event more adds its own position to those of its kind, and to no    *)
(* other.                                                                  *)
LEMMA PositionsAppend ==
    ASSUME NEW s \in Seq(Event), NEW e \in Event, NEW S
    PROVE  /\ e \in S => Positions(Append(s, e), S)
                            = Positions(s, S) \cup {Len(s) + 1}
           /\ e \notin S => Positions(Append(s, e), S) = Positions(s, S)
           /\ Positions(s, S) \subseteq 1 .. Len(s)
<1>1. /\ Append(s, e) \in Seq(Event)
      /\ Len(Append(s, e)) = Len(s) + 1
      /\ \A k \in 1 .. Len(s) : Append(s, e)[k] = s[k]
      /\ Append(s, e)[Len(s) + 1] = e
  BY AppendProperties
<1>2. /\ DOMAIN Append(s, e) = 1 .. (Len(s) + 1)
      /\ DOMAIN s = 1 .. Len(s)
      /\ Len(s) \in Nat
  BY <1>1
<1>3. 1 .. (Len(s) + 1) = (1 .. Len(s)) \cup {Len(s) + 1}
  BY <1>2
<1> QED BY <1>1, <1>2, <1>3 DEF Positions

(* The latest event of a kind is the last one appended, if it is of that   *)
(* kind.                                                                   *)
LEMMA LatestAppend ==
    ASSUME NEW s \in Seq(Event), NEW e \in Event, NEW S
    PROVE  Latest(Append(s, e), S) = IF e \in S THEN e.type ELSE Latest(s, S)
<1> DEFINE K == Positions(s, S)
           n == Len(s)
           L == Positions(Append(s, e), S)
<1>1. /\ n \in Nat /\ K \subseteq 1 .. n
      /\ Append(s, e)[n + 1] = e
      /\ \A k \in 1 .. n : Append(s, e)[k] = s[k]
  BY PositionsAppend, AppendProperties
<1>2. CASE e \in S
  <2>1. L = K \cup {n + 1}
    BY <1>2, PositionsAppend
  <2>2. L \subseteq 1 .. (n + 1) /\ n + 1 \in L /\ n + 1 \in Nat
    BY <1>1, <2>1
  <2>3. Max(L) \in L /\ Max(L) >= n + 1
    <3> HIDE DEF L
    <3> QED BY <2>2, LargestPosition
  <2>4. Max(L) = n + 1
    BY <1>1, <2>2, <2>3
  <2> QED BY <1>1, <1>2, <2>2, <2>4 DEF Latest
<1>3. CASE e \notin S
  <2>1. L = K
    BY <1>3, PositionsAppend
  <2>2. CASE K = {}
    BY <1>3, <2>1, <2>2 DEF Latest
  <2>3. CASE K # {}
    <3>1. Max(K) \in 1 .. n
      BY <1>1, <2>3, LargestPosition
    <3> QED BY <1>1, <1>3, <2>1, <2>3, <3>1 DEF Latest
  <2> QED BY <2>2, <2>3
<1> QED BY <1>2, <1>3

(* The transactions write one or two events.                               *)
LEMMA Concatenated ==
    ASSUME NEW s \in Seq(Event), NEW a \in Event, NEW b \in Event
    PROVE  /\ s \o <<a>> = Append(s, a)
           /\ s \o <<a, b>> = Append(Append(s, a), b)
           /\ Append(s, a) \in Seq(Event)
<1>0. <<a>> \in Seq(Event) /\ <<b>> \in Seq(Event)
  OBVIOUS
<1>1. s \o <<a>> = Append(s, a) /\ Append(s, a) \in Seq(Event)
  BY AppendIsConcat, AppendProperties
<1>2. Append(Append(s, a), b) = (s \o <<a>>) \o <<b>>
  BY <1>1, AppendIsConcat
<1>3. (s \o <<a>>) \o <<b>> = s \o (<<a>> \o <<b>>)
  BY <1>0, ConcatAssociative
<1>4. <<a>> \o <<b>> = <<a, b>>
  <2>1. /\ <<a>> \o <<b>> \in Seq(Event) /\ Len(<<a>> \o <<b>>) = 2
        /\ (<<a>> \o <<b>>)[1] = a /\ (<<a>> \o <<b>>)[2] = b
    BY <1>0, ConcatProperties
  <2>2. /\ <<a, b>> \in Seq(Event) /\ Len(<<a, b>>) = 2
        /\ <<a, b>>[1] = a /\ <<a, b>>[2] = b
    OBVIOUS
  <2>3. \A k \in 1 .. 2 : k = 1 \/ k = 2
    OBVIOUS
  <2> QED BY <2>1, <2>2, <2>3, SeqEqual
<1> QED BY <1>1, <1>2, <1>3, <1>4

(* The properties' own operators, on a history.                            *)
LEMMA HistoryOperators ==
    /\ \A r : \A S : LatestOf(r, S) = Latest(events[r], S)
    /\ \A r : \A i : CompletionEvents(r, i)
                        = Positions(events[r], {Ev("ActivityCompleted", i)})
  BY DEF LatestOf, Latest, CompletionEvents, Positions

----------------------------------------------------------------------------
(* What a step of the store does to one run.                               *)
SameData(t, u) == u.input = t.input /\ u.result = t.result

(* The row may have gone between pending and leased, and no further.       *)
StandsStill(t, u) ==
    /\ SameData(t, u)
    /\ u.status = t.status \/ {t.status, u.status} \subseteq Outstanding

OtherTasks(r, S) == \A j \in Steps \ S : tasks'[r][j] = tasks[r][j]

(* No event: another run's transaction, a lease, the clock.                *)
StaysPut(r) ==
    /\ runs'[r] = runs[r]
    /\ events'[r] = events[r]
    /\ \A j \in Steps : StandsStill(tasks[r][j], tasks'[r][j])

(* A retry or a reclaim of a leased task, or a replay of a dead one.       *)
ReturnEvents == {"ActivityRetryScheduled", "TaskReclaimed", "TaskReplayed"}

ReturnsTask(r, i, type) ==
    /\ tasks[r][i].status \in {"leased", "dead"}
    /\ tasks[r][i].status = "leased" \/ type = "TaskReplayed"
    /\ tasks'[r][i].status = "pending"
    /\ SameData(tasks[r][i], tasks'[r][i])
    /\ OtherTasks(r, {i})
    /\ runs'[r] = runs[r]
    /\ events'[r] = Append(events[r], Ev(type, i))

StartsRun(r, key) ==
    /\ 0 \in Steps
    /\ runs[r].status = "none"
    /\ ~KeyClaimed(key)
    /\ \A j \in Steps : tasks[r][j].status = "none"
    /\ runs'[r].status = "running"
    /\ runs'[r].idempotency_key = key
    /\ tasks'[r][0].status = "pending"
    /\ tasks'[r][0].input = RunInput
    /\ OtherTasks(r, {0})
    /\ events'[r] = Append(Append(events[r], Ev("WorkflowStarted", NoStep)),
                           Ev("ActivityScheduled", 0))

(* The run works on step i, and has scheduled no later one.                *)
WorksOn(r, i) ==
    /\ runs[r].status \in {"running", "failed"}
    /\ i = runs[r].current_step
    /\ \A j \in Steps : j > i => tasks[r][j].status = "none"

PassesOn(r, i, p) ==
    /\ WorksOn(r, i) /\ i + 1 \in Steps
    /\ tasks[r][i].status = "leased"
    /\ tasks'[r][i].status = "completed"
    /\ tasks'[r][i].input = tasks[r][i].input
    /\ tasks'[r][i].result = p
    /\ tasks'[r][i + 1].status = "pending"
    /\ tasks'[r][i + 1].input = p
    /\ OtherTasks(r, {i, i + 1})
    /\ runs'[r].status = runs[r].status
    /\ runs'[r].idempotency_key = runs[r].idempotency_key
    /\ events'[r] = Append(Append(events[r], Ev("ActivityCompleted", i)),
                           Ev("ActivityScheduled", i + 1))

FinishesRun(r, i, p) ==
    /\ WorksOn(r, i)
    /\ i = runs[r].total_steps - 1
    /\ tasks[r][i].status = "leased"
    /\ tasks'[r][i].status = "completed"
    /\ tasks'[r][i].input = tasks[r][i].input
    /\ tasks'[r][i].result = p
    /\ OtherTasks(r, {i})
    /\ runs'[r].status = "completed"
    /\ runs'[r].result = p
    /\ runs'[r].total_steps = runs[r].total_steps
    /\ runs'[r].idempotency_key = runs[r].idempotency_key
    /\ events'[r] = Append(Append(events[r], Ev("ActivityCompleted", i)),
                           Ev("WorkflowCompleted", NoStep))

FailsRun(r, i) ==
    /\ WorksOn(r, i)
    /\ tasks[r][i].status = "leased"
    /\ tasks'[r][i].status = "dead"
    /\ SameData(tasks[r][i], tasks'[r][i])
    /\ OtherTasks(r, {i})
    /\ runs'[r].status = "failed"
    /\ runs'[r].idempotency_key = runs[r].idempotency_key
    /\ events'[r] = Append(Append(events[r], Ev("ActivityDeadLettered", i)),
                           Ev("WorkflowFailed", NoStep))

CancelsRun(r) ==
    /\ runs[r].status = "running"
    /\ runs'[r].status = "cancelled"
    /\ runs'[r].idempotency_key = runs[r].idempotency_key
    /\ \A j \in Steps :
          /\ SameData(tasks[r][j], tasks'[r][j])
          /\ tasks'[r][j].status = IF tasks[r][j].status \in Outstanding
                                   THEN "cancelled" ELSE tasks[r][j].status
    /\ events'[r] = Append(events[r], Ev("WorkflowCancelled", NoStep))

Effect(r) ==
    \/ StaysPut(r)
    \/ \E i \in Steps : \E type \in ReturnEvents : ReturnsTask(r, i, type)
    \/ \E key \in Keys \cup {NULL} : StartsRun(r, key)
    \/ \E i \in Steps : \E p \in Payload : PassesOn(r, i, p) \/ FinishesRun(r, i, p)
    \/ \E i \in Steps : FailsRun(r, i)
    \/ CancelsRun(r)

(* What the transactions leave of a row.                                   *)
LEMMA RowData ==
    ASSUME NEW t \in TaskRow
    PROVE  /\ \A o : SameData(t, LeasedTo(t, o))
           /\ SameData(t, BackToPending(t))
           /\ \A d : SameData(t, [BackToPending(t) EXCEPT !.available_at = d])
           /\ SameData(t, Requeued(t))
           /\ SameData(t, Closer(t))
           /\ \A st : SameData(t, [t EXCEPT !.status = st])
           /\ \A st : [t EXCEPT !.status = st].status = st
           /\ \A p : /\ CompletedWith(t, p).input = t.input
                     /\ CompletedWith(t, p).result = p
  BY DEF SameData, LeasedTo, BackToPending, Requeued, Closer, CompletedWith,
         TaskRow

(* The events the transactions write.                                      *)
LEMMA EventTypes ==
    \A type \in EventType : \A i \in Steps \cup {NoStep} : Ev(type, i) \in Event
  BY DEF Ev, Event

(* A run with a task to work on works on that task's step.                 *)
LEMMA WorkedStep ==
    ASSUME StoreInv, NEW r \in Runs, NEW i \in Steps,
           tasks[r][i].status \in {"pending", "leased", "dead"}
    PROVE  /\ WorksOn(r, i)
           /\ runs[r].workflow \in Workflows
           /\ runs[r].total_steps = TotalSteps(runs[r].workflow)
           /\ i < runs[r].total_steps
<1>1. /\ ShapeOf(runs[r], tasks[r])
      /\ runs[r] \in RunRow /\ tasks[r] \in [Steps -> TaskRow]
  BY DEF StoreInv, RunShape, StoreTypeOK
<1>2. /\ i = runs[r].current_step
      /\ runs[r].status \in {"running", "failed"}
      /\ runs[r].workflow \in Workflows
      /\ runs[r].total_steps = TotalSteps(runs[r].workflow)
      /\ i < runs[r].total_steps
  BY <1>1, ActiveIsCurrent
<1>3. \A j \in Steps : j > i => tasks[r][j].status = "none"
  BY <1>1, <1>2 DEF ShapeOf
<1> QED BY <1>2, <1>3 DEF WorksOn

LEMMA StartEffect ==
    ASSUME StoreInv, NEW r \in Runs, NEW wf \in Workflows,
           NEW key \in Keys \cup {NULL}, StartWorkflow(r, wf, key)
    PROVE  StartsRun(r, key)
<1> DEFINE first == BuildTask(wf, 0, RunInput)
<1>1. runs[r].status = "none" /\ ~KeyClaimed(key)
  BY DEF StartWorkflow, StartRun
<1>2. \A j \in Steps : tasks[r][j].status = "none"
  BY <1>1 DEF StoreInv, RunShape, ShapeOf
<1>3. /\ TotalSteps(wf) \in Nat /\ 0 < TotalSteps(wf)
      /\ first.input = RunInput /\ 0 \in Steps
  BY BuildTaskType, FixedPayloads, TypesAssumption DEF StartWorkflow, TotalSteps
<1>4. runs'[r].status = "running" /\ runs'[r].idempotency_key = key
  BY DEF StartWorkflow, StartRun, StoreInv, StoreTypeOK
<1>5. /\ InsertTask(first).status = "pending"
      /\ InsertTask(first).input = RunInput
  BY <1>3 DEF InsertTask
<1>6. tasks' = [tasks EXCEPT ![r][0] = InsertTask(first)]
  BY DEF StartWorkflow, StartRun
<1>7. tasks'[r][0] = InsertTask(first) /\ OtherTasks(r, {0})
  <2> HIDE DEF first
  <2> QED BY <1>3, <1>6 DEF OtherTasks, StoreInv, StoreTypeOK
<1>8. events'[r] = Append(Append(events[r], Ev("WorkflowStarted", NoStep)),
                          Ev("ActivityScheduled", 0))
  <2>1. /\ Ev("WorkflowStarted", NoStep) \in Event
        /\ Ev("ActivityScheduled", 0) \in Event
    BY <1>3, EventTypes DEF EventType
  <2>2. events'[r] = events[r] \o <<Ev("WorkflowStarted", NoStep),
                                    Ev("ActivityScheduled", 0)>>
    BY DEF StartWorkflow, StartRun, AppendEvents, StoreInv, StoreTypeOK
  <2>3. events[r] \in Seq(Event)
    BY DEF StoreInv, StoreTypeOK
  <2> QED BY <2>1, <2>2, <2>3, Concatenated
<1> QED BY <1>1, <1>2, <1>3, <1>4, <1>5, <1>7, <1>8 DEF StartsRun

LEMMA AdvanceEffect ==
    ASSUME StoreInv, NEW r \in Runs, NEW i \in Steps, NEW o \in Owners,
           NEW p \in ResultsBy(o), Advance(r, i, o, p)
    PROVE  PassesOn(r, i, p) \/ FinishesRun(r, i, p)
<1>1. /\ runs[r] \in RunRow /\ tasks[r] \in [Steps -> TaskRow]
      /\ tasks[r][i] \in TaskRow /\ events[r] \in Seq(Event)
      /\ p \in Payload
  BY DEF StoreInv, StoreTypeOK, ResultsBy, Payload
<1>2. tasks[r][i].status = "leased"
  BY DEF Advance, AdvanceNext, AdvanceFinish, Fenced
<1>3. /\ WorksOn(r, i)
      /\ runs[r].workflow \in Workflows
      /\ runs[r].total_steps = TotalSteps(runs[r].workflow)
      /\ i < runs[r].total_steps
      /\ i \in Nat /\ runs[r].total_steps \in Nat
  BY <1>1, <1>2, WorkedStep DEF Steps, RunRow
<1> DEFINE row == CompletedWith(tasks[r][i], p)
<1>4. /\ row.status = "completed"
      /\ row.input = tasks[r][i].input
      /\ row.result = p
  BY <1>1, RowData, RowStatus
<1>5. ASSUME ~Finished(r, i),
             NEW next \in NextTasks(runs[r].workflow, i + 1, p),
             AdvanceNext(r, i, o, p, next)
      PROVE  PassesOn(r, i, p)
  <2>1. /\ i + 1 \in Nat /\ i + 1 < TotalSteps(runs[r].workflow)
    BY <1>3, <1>5 DEF Finished
  <2>2. i + 1 \in Steps /\ next.input = p
    BY <1>1, <1>3, <2>1, NextTaskType
  <2>3. InsertTask(next).status = "pending" /\ InsertTask(next).input = p
    BY <2>2 DEF InsertTask
  <2>4. tasks' = [tasks EXCEPT ![r][i] = row, ![r][i + 1] = InsertTask(next)]
    BY <1>5 DEF AdvanceNext
  <2>5. /\ tasks'[r][i] = row /\ tasks'[r][i + 1] = InsertTask(next)
        /\ OtherTasks(r, {i, i + 1})
    <3> HIDE DEF row
    <3> QED BY <1>3, <2>2, <2>4 DEF OtherTasks, StoreInv, StoreTypeOK
  <2>6. /\ runs'[r].status = runs[r].status
        /\ runs'[r].idempotency_key = runs[r].idempotency_key
    BY <1>1, <1>5 DEF AdvanceNext, StoreInv, StoreTypeOK, RunRow
  <2>7. /\ Ev("ActivityCompleted", i) \in Event
        /\ Ev("ActivityScheduled", i + 1) \in Event
    BY <2>2, EventTypes DEF EventType
  <2>8. events'[r] = events[r] \o <<Ev("ActivityCompleted", i),
                                    Ev("ActivityScheduled", i + 1)>>
    BY <1>5 DEF AdvanceNext, AppendEvents, StoreInv, StoreTypeOK
  <2>9. events'[r] = Append(Append(events[r], Ev("ActivityCompleted", i)),
                            Ev("ActivityScheduled", i + 1))
    BY <1>1, <2>7, <2>8, Concatenated
  <2> HIDE DEF row
  <2> QED BY <1>2, <1>3, <1>4, <2>2, <2>3, <2>5, <2>6, <2>9 DEF PassesOn
<1>6. CASE Finished(r, i) /\ AdvanceFinish(r, i, o, p)
  <2>1. i = runs[r].total_steps - 1
    BY <1>3, <1>6 DEF Finished
  <2>2. tasks' = [tasks EXCEPT ![r][i] = row]
    BY <1>6 DEF AdvanceFinish
  <2>3. tasks'[r][i] = row /\ OtherTasks(r, {i})
    <3> HIDE DEF row
    <3> QED BY <2>2 DEF OtherTasks, StoreInv, StoreTypeOK
  <2>4. runs'[r] = [runs[r] EXCEPT !.status = "completed", !.result = p]
    BY <1>6 DEF AdvanceFinish, StoreInv, StoreTypeOK
  <2>5. /\ runs'[r].status = "completed" /\ runs'[r].result = p
        /\ runs'[r].total_steps = runs[r].total_steps
        /\ runs'[r].idempotency_key = runs[r].idempotency_key
    BY <1>1, <2>4 DEF RunRow
  <2>6. /\ Ev("ActivityCompleted", i) \in Event
        /\ Ev("WorkflowCompleted", NoStep) \in Event
    BY EventTypes DEF EventType
  <2>7. events'[r] = events[r] \o <<Ev("ActivityCompleted", i),
                                    Ev("WorkflowCompleted", NoStep)>>
    BY <1>6 DEF AdvanceFinish, AppendEvents, StoreInv, StoreTypeOK
  <2>8. events'[r] = Append(Append(events[r], Ev("ActivityCompleted", i)),
                            Ev("WorkflowCompleted", NoStep))
    BY <1>1, <2>6, <2>7, Concatenated
  <2> HIDE DEF row
  <2> QED BY <1>2, <1>3, <1>4, <2>1, <2>3, <2>5, <2>8 DEF FinishesRun
<1> QED BY <1>5, <1>6 DEF Advance

LEMMA DeadLetterEffect ==
    ASSUME StoreInv, NEW r \in Runs, NEW i \in Steps, NEW o \in Owners,
           DeadLetter(r, i, o)
    PROVE  FailsRun(r, i)
<1>1. /\ runs[r] \in RunRow /\ tasks[r][i] \in TaskRow
      /\ events[r] \in Seq(Event)
  BY DEF StoreInv, StoreTypeOK
<1>2. tasks[r][i].status = "leased"
  BY DEF DeadLetter, Fenced
<1>3. WorksOn(r, i)
  BY <1>2, WorkedStep
<1> DEFINE row == [tasks[r][i] EXCEPT !.status = "dead"]
<1>4. row.status = "dead" /\ SameData(tasks[r][i], row)
  BY <1>1, RowData
<1>5. tasks'[r][i] = row /\ OtherTasks(r, {i})
  BY DEF DeadLetter, OtherTasks, StoreInv, StoreTypeOK
<1>6. /\ runs'[r].status = "failed"
      /\ runs'[r].idempotency_key = runs[r].idempotency_key
  BY <1>1 DEF DeadLetter, StoreInv, StoreTypeOK, RunRow
<1>7. /\ Ev("ActivityDeadLettered", i) \in Event
      /\ Ev("WorkflowFailed", NoStep) \in Event
  BY EventTypes DEF EventType
<1>8. events'[r] = events[r] \o <<Ev("ActivityDeadLettered", i),
                                  Ev("WorkflowFailed", NoStep)>>
  BY DEF DeadLetter, AppendEvents, StoreInv, StoreTypeOK
<1>9. events'[r] = Append(Append(events[r], Ev("ActivityDeadLettered", i)),
                          Ev("WorkflowFailed", NoStep))
  BY <1>1, <1>7, <1>8, Concatenated
<1> HIDE DEF row
<1> QED BY <1>2, <1>3, <1>4, <1>5, <1>6, <1>9 DEF FailsRun

LEMMA CancelEffect ==
    ASSUME StoreInv, NEW r \in Runs, CancelRun(r)
    PROVE  CancelsRun(r)
<1>1. /\ runs[r] \in RunRow /\ events[r] \in Seq(Event)
      /\ \A j \in Steps : tasks[r][j] \in TaskRow
  BY DEF StoreInv, StoreTypeOK
<1>2. ASSUME NEW j \in Steps
      PROVE  /\ SameData(tasks[r][j], tasks'[r][j])
             /\ tasks'[r][j].status = IF tasks[r][j].status \in Outstanding
                                      THEN "cancelled" ELSE tasks[r][j].status
  <2> DEFINE row == [tasks[r][j] EXCEPT !.status = "cancelled"]
  <2>1. tasks'[r][j] = IF tasks[r][j].status \in {"none", "completed", "failed",
                                                  "dead", "cancelled"}
                       THEN tasks[r][j] ELSE row
    BY DEF CancelRun, StoreInv, StoreTypeOK
  <2>2. row.status = "cancelled" /\ SameData(tasks[r][j], row)
    BY <1>1, RowData
  <2>3. tasks[r][j].status \in TaskStatus
    BY <1>1 DEF TaskRow
  <2> HIDE DEF row
  <2> QED BY <2>1, <2>2, <2>3 DEF TaskStatus, Outstanding, SameData
<1>3. /\ runs[r].status = "running" /\ runs'[r].status = "cancelled"
      /\ runs'[r].idempotency_key = runs[r].idempotency_key
  BY <1>1 DEF CancelRun, StoreInv, StoreTypeOK, RunRow
<1>4. events'[r] = events[r] \o <<Ev("WorkflowCancelled", NoStep)>>
  BY DEF CancelRun, AppendEvents, StoreInv, StoreTypeOK
<1>5. Ev("WorkflowCancelled", NoStep) \in Event
  BY EventTypes DEF EventType
<1>6. events'[r] = Append(events[r], Ev("WorkflowCancelled", NoStep))
  BY <1>1, <1>4, <1>5, Concatenated
<1> QED BY <1>2, <1>3, <1>6 DEF CancelsRun

(* A transaction that makes one row pending again and writes one event.    *)
LEMMA ReturnEffect ==
    ASSUME StoreInv, NEW r \in Runs, NEW i \in Steps, NEW type \in ReturnEvents,
           tasks[r][i].status \in {"leased", "dead"},
           tasks[r][i].status = "leased" \/ type = "TaskReplayed", NEW row,
           row.status = "pending", SameData(tasks[r][i], row),
           tasks'[r][i] = row, OtherTasks(r, {i}), runs'[r] = runs[r],
           events'[r] = events[r] \o <<Ev(type, i)>>
    PROVE  ReturnsTask(r, i, type)
<1>1. Ev(type, i) \in Event /\ events[r] \in Seq(Event)
  BY EventTypes DEF ReturnEvents, EventType, StoreInv, StoreTypeOK
<1>2. events'[r] = Append(events[r], Ev(type, i))
  BY <1>1, Concatenated
<1> QED BY <1>2 DEF ReturnsTask

(* A run has at most one lease to reclaim, so a reap writes at most one    *)
(* event per run.                                                          *)
LEMMA OneReclaim ==
    ASSUME StoreInv, NEW taken \in SUBSET ExpiredRows,
           NEW r \in Runs, NEW i \in Steps, <<r, i>> \in taken
    PROVE  /\ {j \in Steps : <<r, j>> \in taken} = {i}
           /\ ReclaimEvents({j \in Steps : <<r, j>> \in taken})
                 = <<Ev("TaskReclaimed", i)>>
<1>1. ASSUME NEW j \in Steps, <<r, j>> \in taken PROVE j = i
  <2>1. Expired(tasks[r][i]) /\ Expired(tasks[r][j])
    BY <1>1 DEF ExpiredRows
  <2>2. WorksOn(r, i) /\ WorksOn(r, j)
    BY <2>1, WorkedStep DEF Expired
  <2> QED BY <2>2 DEF WorksOn
<1>2. {j \in Steps : <<r, j>> \in taken} = {i}
  BY <1>1
<1>3. Cardinality({i}) = 1
  BY FS_Singleton
<1>4. SetToSeq({i}) \in [1 .. 1 -> {i}]
  <2> DEFINE f == [k \in 1 .. 1 |-> i]
  <2>1. f \in [1 .. 1 -> {i}] /\ IsInjective(f)
    BY DEF IsInjective
  <2>2. \E g \in [1 .. Cardinality({i}) -> {i}] : IsInjective(g)
    BY <1>3, <2>1
  <2>3. SetToSeq({i}) \in [1 .. Cardinality({i}) -> {i}]
    BY <2>2 DEF SetToSeq
  <2> QED BY <1>3, <2>3
<1>5. SetToSeq({i})[1] = i
  BY <1>4
<1>6. ReclaimEvents({i}) = [k \in 1 .. 1 |-> Ev("TaskReclaimed", SetToSeq({i})[k])]
  BY <1>3 DEF ReclaimEvents
<1>7. ReclaimEvents({i}) = <<Ev("TaskReclaimed", i)>>
  <2>1. \A k \in 1 .. 1 : SetToSeq({i})[k] = i
    BY <1>5
  <2> QED BY <1>6, <2>1
<1> QED BY <1>2, <1>7

LEMMA ReapEffect ==
    ASSUME StoreInv, NEW r \in Runs, ReapExpiredLeases
    PROVE  Effect(r)
<1>1. PICK taken \in SUBSET ExpiredRows : Reclaim(taken)
  BY DEF ReapExpiredLeases
<1>2. /\ \A j \in Steps : tasks[r][j] \in TaskRow
      /\ events[r] \in Seq(Event)
      /\ runs' = runs
      /\ events'[r] = events[r] \o ReclaimEvents({j \in Steps : <<r, j>> \in taken})
      /\ \A j \in Steps : tasks'[r][j] = IF <<r, j>> \in taken
                                         THEN BackToPending(tasks[r][j])
                                         ELSE tasks[r][j]
  BY <1>1 DEF Reclaim, StoreInv, StoreTypeOK
<1>3. CASE \A j \in Steps : <<r, j>> \notin taken
  <2>1. events'[r] = events[r] /\ \A j \in Steps : tasks'[r][j] = tasks[r][j]
    BY <1>1, <1>3, NothingTaken DEF StoreInv
  <2>2. StaysPut(r)
    BY <1>2, <2>1 DEF StaysPut, StandsStill, SameData
  <2> QED BY <2>2 DEF Effect
<1>4. ASSUME NEW i \in Steps, <<r, i>> \in taken
      PROVE  ReturnsTask(r, i, "TaskReclaimed")
  <2> DEFINE row == BackToPending(tasks[r][i])
  <2>1. /\ {j \in Steps : <<r, j>> \in taken} = {i}
        /\ events'[r] = events[r] \o <<Ev("TaskReclaimed", i)>>
    BY <1>2, <1>4, OneReclaim
  <2>2. tasks'[r][i] = row /\ OtherTasks(r, {i})
    BY <1>2, <1>4, <2>1 DEF OtherTasks
  <2>3. row.status = "pending" /\ SameData(tasks[r][i], row)
    BY <1>2, RowData, RowStatus
  <2>4. tasks[r][i].status = "leased" /\ "TaskReclaimed" \in ReturnEvents
    BY <1>4 DEF ExpiredRows, Expired, ReturnEvents
  <2>5. runs'[r] = runs[r]
    BY <1>2
  <2> HIDE DEF row
  <2> QED BY <2>1, <2>2, <2>3, <2>4, <2>5, ReturnEffect
<1>5. "TaskReclaimed" \in ReturnEvents
  BY DEF ReturnEvents
<1> QED BY <1>3, <1>4, <1>5 DEF Effect

LEMMA TickEffect ==
    ASSUME StoreInv, NEW r \in Runs, Tick
    PROVE  StaysPut(r)
<1>1. \A j \in Steps : tasks[r][j] \in TaskRow /\ tasks'[r][j] = Closer(tasks[r][j])
  BY DEF Tick, StoreInv, StoreTypeOK
<1>2. \A j \in Steps : StandsStill(tasks[r][j], tasks'[r][j])
  BY <1>1, RowData, RowStatus DEF StandsStill
<1> QED BY <1>2 DEF StaysPut, Tick

LEMMA RunStepEffect ==
    ASSUME StoreInv, NEW r \in Runs, RunStep(r)
    PROVE  Effect(r)
<1>1. ASSUME NEW wf \in Workflows, NEW key \in Keys \cup {NULL},
             StartWorkflow(r, wf, key)
      PROVE  Effect(r)
  BY <1>1, StartEffect DEF Effect
<1>2. CASE CancelRun(r)
  BY <1>2, CancelEffect DEF Effect
<1>3. ASSUME NEW i \in Steps, Replay(r, i)
      PROVE  ReturnsTask(r, i, "TaskReplayed")
  <2> DEFINE row == Requeued(tasks[r][i])
  <2>1. ReplayDeadLetter(r, i)
    BY <1>3 DEF Replay
  <2>2. /\ tasks[r][i] \in TaskRow /\ tasks[r][i].status = "dead"
        /\ runs'[r] = runs[r]
        /\ events'[r] = events[r] \o <<Ev("TaskReplayed", i)>>
    BY <2>1 DEF ReplayDeadLetter, AppendEvents, StoreInv, StoreTypeOK
  <2>3. tasks'[r][i] = row /\ OtherTasks(r, {i})
    BY <2>1 DEF ReplayDeadLetter, OtherTasks, StoreInv, StoreTypeOK
  <2>4. row.status = "pending" /\ SameData(tasks[r][i], row)
    BY <2>2, RowData, RowStatus
  <2>5. "TaskReplayed" \in ReturnEvents
    BY DEF ReturnEvents
  <2> HIDE DEF row
  <2> QED BY <2>2, <2>3, <2>4, <2>5, ReturnEffect
<1>4. ASSUME NEW i \in Steps, NEW o \in Owners, LeaseTask(o, r, i)
      PROVE  StaysPut(r)
  <2> DEFINE row == LeasedTo(tasks[r][i], o)
  <2>1. /\ \A j \in Steps : tasks[r][j] \in TaskRow
        /\ tasks[r][i].status = "pending"
        /\ runs' = runs /\ events' = events
    BY <1>4 DEF LeaseTask, Due, StoreInv, StoreTypeOK
  <2>2. tasks' = [tasks EXCEPT ![r][i] = row]
    BY <1>4 DEF LeaseTask
  <2>3. row.status = "leased" /\ SameData(tasks[r][i], row)
    BY <2>1, RowData, RowStatus
  <2>4. tasks'[r][i] = row /\ \A j \in Steps \ {i} : tasks'[r][j] = tasks[r][j]
    <3> HIDE DEF row
    <3> QED BY <2>2 DEF StoreInv, StoreTypeOK
  <2> HIDE DEF row
  <2>5. \A j \in Steps : StandsStill(tasks[r][j], tasks'[r][j])
    BY <2>1, <2>3, <2>4 DEF StandsStill, Outstanding, SameData
  <2> QED BY <2>1, <2>5 DEF StaysPut
<1>5. ASSUME NEW i \in Steps, NEW o \in Owners, NEW p \in ResultsBy(o),
             Advance(r, i, o, p)
      PROVE  Effect(r)
  <2>1. p \in Payload
    BY DEF ResultsBy, Payload
  <2> QED BY <1>5, <2>1, AdvanceEffect DEF Effect
<1>6. ASSUME NEW i \in Steps, NEW o \in Owners, NEW d \in 0 .. MaxBackoff,
             Retry(r, i, o, d)
      PROVE  ReturnsTask(r, i, "ActivityRetryScheduled")
  <2> DEFINE row == [BackToPending(tasks[r][i]) EXCEPT !.available_at = d]
  <2>1. /\ tasks[r][i] \in TaskRow /\ tasks[r][i].status = "leased"
        /\ runs'[r] = runs[r]
        /\ events'[r] = events[r] \o <<Ev("ActivityRetryScheduled", i)>>
    BY <1>6 DEF Retry, Fenced, AppendEvents, StoreInv, StoreTypeOK
  <2>2. tasks' = [tasks EXCEPT ![r][i] = row]
    BY <1>6 DEF Retry
  <2>3. tasks'[r][i] = row /\ OtherTasks(r, {i})
    <3> HIDE DEF row
    <3> QED BY <2>2 DEF OtherTasks, StoreInv, StoreTypeOK
  <2>4. row.status = "pending" /\ SameData(tasks[r][i], row)
    <3>1. row.status = "pending"
      BY <2>1, RowStatus
    <3>2. SameData(tasks[r][i], row)
      BY <2>1, RowData
    <3> QED BY <3>1, <3>2
  <2>5. "ActivityRetryScheduled" \in ReturnEvents
    BY DEF ReturnEvents
  <2> HIDE DEF row
  <2> QED BY <2>1, <2>3, <2>4, <2>5, ReturnEffect
<1>7. ASSUME NEW i \in Steps, NEW o \in Owners, DeadLetter(r, i, o)
      PROVE  Effect(r)
  BY <1>7, DeadLetterEffect DEF Effect
<1>8. {"TaskReplayed", "ActivityRetryScheduled"} \subseteq ReturnEvents
  BY DEF ReturnEvents
<1>9. ASSUME NEW i \in Steps, Replay(r, i) PROVE Effect(r)
  BY <1>3, <1>8, <1>9 DEF Effect
<1>10. ASSUME NEW i \in Steps, NEW o \in Owners, LeaseTask(o, r, i)
       PROVE  Effect(r)
  BY <1>4, <1>10 DEF Effect
<1>11. ASSUME NEW i \in Steps, NEW o \in Owners, NEW d \in 0 .. MaxBackoff,
              Retry(r, i, o, d)
       PROVE  Effect(r)
  BY <1>6, <1>8, <1>11 DEF Effect
<1> QED
  BY <1>1, <1>2, <1>5, <1>7, <1>9, <1>10, <1>11 DEF RunStep

(* Whatever the store does, it does one of the seven things to a run.      *)
LEMMA RunEffects ==
    ASSUME StoreInv, [StoreNext]_storeVars, NEW r \in Runs
    PROVE  Effect(r)
<1>1. ASSUME runs'[r] = runs[r], tasks'[r] = tasks[r], events'[r] = events[r]
      PROVE  Effect(r)
  BY <1>1 DEF Effect, StaysPut, StandsStill, SameData
<1>2. ASSUME NEW q \in Runs, RunStep(q)
      PROVE  Effect(r)
  BY <1>1, <1>2, OtherRuns, RunStepEffect DEF StoreInv
<1>3. CASE ReapExpiredLeases
  BY <1>3, ReapEffect
<1>4. CASE Tick
  BY <1>4, TickEffect DEF Effect
<1>5. CASE UNCHANGED storeVars
  BY <1>1, <1>5 DEF storeVars
<1> QED BY <1>2, <1>3, <1>4, <1>5, NextByRun

----------------------------------------------------------------------------
(* Every row and event keeps its type, whatever the transactions do.       *)
THEOREM StoreTypes == StoreSpec => []StoreTypeOK
  BY StoreSafety, PTL

----------------------------------------------------------------------------
(* Idempotency keys: the start of a run looks for the key among the runs   *)
(* that exist, and a run that does not exist holds none.  So no two runs   *)
(* ever hold the same key, whatever has become of the first.               *)
KeysHeld ==
    \A r \in Runs : runs[r].status = "none" => runs[r].idempotency_key = NULL

KeyNamesOneRun ==
    \A q, r \in Runs :
        /\ runs[q].idempotency_key # NULL
        /\ runs[q].idempotency_key = runs[r].idempotency_key
        => q = r

LEMMA KeyStep ==
    ASSUME StoreInv, KeysHeld, KeyNamesOneRun, [StoreNext]_storeVars
    PROVE  KeysHeld' /\ KeyNamesOneRun'
<1>1. ASSUME NEW r \in Runs, ~\E key \in Keys \cup {NULL} : StartsRun(r, key)
      PROVE  /\ runs'[r].idempotency_key = runs[r].idempotency_key
             /\ runs'[r].status = "none" => runs[r].status = "none"
  <2>1. Effect(r)
    BY RunEffects
  <2> QED BY <1>1, <2>1 DEF Effect, StaysPut, ReturnsTask, PassesOn,
                            FinishesRun, FailsRun, CancelsRun, WorksOn
<1>2. ASSUME NEW r \in Runs, NEW key \in Keys \cup {NULL}, StartsRun(r, key),
             NEW q \in Runs, q # r
      PROVE  ~\E k \in Keys \cup {NULL} : StartsRun(q, k)
  <2>1. CASE \E p \in Runs : RunStep(p)
    <3>1. PICK p \in Runs : RunStep(p)
      BY <2>1
    <3>2. \A x \in Runs : x # p => runs'[x] = runs[x]
      BY <3>1, OtherRuns DEF StoreInv
    <3>3. r = p
      BY <1>2, <3>2 DEF StartsRun
    <3> QED BY <1>2, <3>2, <3>3 DEF StartsRun
  <2>2. CASE runs' = runs
    BY <1>2, <2>2 DEF StartsRun
  <2> QED BY <2>1, <2>2, NextByRun DEF ReapExpiredLeases, Reclaim, Tick, storeVars
<1>3. KeysHeld'
  BY <1>1 DEF KeysHeld, StartsRun
<1>4. ASSUME NEW q \in Runs, NEW r \in Runs,
             runs'[q].idempotency_key # NULL,
             runs'[q].idempotency_key = runs'[r].idempotency_key, q # r
      PROVE  FALSE
  <2>1. CASE \E key \in Keys \cup {NULL} : StartsRun(q, key)
    <3>1. runs'[r].idempotency_key = runs[r].idempotency_key
      BY <1>1, <1>2, <1>4, <2>1
    <3> QED BY <1>4, <2>1, <3>1 DEF StartsRun, KeyClaimed, KeysHeld
  <2>2. CASE \E key \in Keys \cup {NULL} : StartsRun(r, key)
    <3>1. runs'[q].idempotency_key = runs[q].idempotency_key
      BY <1>1, <1>2, <1>4, <2>2
    <3> QED BY <1>4, <2>2, <3>1 DEF StartsRun, KeyClaimed, KeysHeld
  <2>3. CASE /\ ~\E key \in Keys \cup {NULL} : StartsRun(q, key)
             /\ ~\E key \in Keys \cup {NULL} : StartsRun(r, key)
    BY <1>1, <1>4, <2>3 DEF KeyNamesOneRun
  <2> QED BY <2>1, <2>2, <2>3
<1>5. KeyNamesOneRun'
  BY <1>4 DEF KeyNamesOneRun
<1> QED BY <1>3, <1>5

----------------------------------------------------------------------------
(* The data hand-off.                                                      *)
LEMMA HandOffStep ==
    ASSUME StoreInv, HandOff, [StoreNext]_storeVars
    PROVE  HandOff'
<1> DEFINE From(ts, i) == IF i = 0 THEN RunInput ELSE ts[i - 1].result
<1> SUFFICES ASSUME NEW r \in Runs, NEW i \in Steps
             PROVE  /\ tasks'[r][i].status # "none" =>
                          tasks'[r][i].input = From(tasks'[r], i)
                    /\ (tasks'[r][i].status = "completed"
                         /\ runs'[r].status = "completed"
                         /\ i = runs'[r].total_steps - 1) =>
                          runs'[r].result = tasks'[r][i].result
  BY DEF HandOff
<1>1. \A j \in Steps : j \in Nat /\ (j # 0 => j - 1 \in Steps)
  BY TypesAssumption DEF Steps
<1>2. \A j \in Steps : tasks[r][j].status # "none" =>
                          tasks[r][j].input = From(tasks[r], j)
  BY DEF HandOff
<1>3. (tasks[r][i].status = "completed" /\ runs[r].status = "completed"
         /\ i = runs[r].total_steps - 1) => runs[r].result = tasks[r][i].result
  BY DEF HandOff
<1>4. Effect(r)
  BY RunEffects
<1>5. ASSUME \A j \in Steps : SameData(tasks[r][j], tasks'[r][j])
      PROVE  From(tasks'[r], i) = From(tasks[r], i)
  BY <1>1, <1>5 DEF SameData
<1>6. CASE StaysPut(r)
  <2>1. From(tasks'[r], i) = From(tasks[r], i)
    BY <1>5, <1>6 DEF StaysPut, StandsStill
  <2> HIDE DEF From
  <2> QED BY <1>2, <1>3, <1>6, <2>1 DEF StaysPut, StandsStill, SameData, Outstanding
<1>7. ASSUME NEW k \in Steps, NEW type \in ReturnEvents, ReturnsTask(r, k, type)
      PROVE  /\ tasks'[r][i].status # "none" =>
                   tasks'[r][i].input = From(tasks'[r], i)
             /\ (tasks'[r][i].status = "completed"
                  /\ runs'[r].status = "completed"
                  /\ i = runs'[r].total_steps - 1) =>
                   runs'[r].result = tasks'[r][i].result
  <2>1. \A j \in Steps : SameData(tasks[r][j], tasks'[r][j])
    BY <1>7 DEF ReturnsTask, OtherTasks, SameData
  <2>2. From(tasks'[r], i) = From(tasks[r], i)
    BY <1>5, <2>1
  <2> HIDE DEF From
  <2> QED BY <1>2, <1>3, <1>7, <2>1, <2>2 DEF ReturnsTask, OtherTasks, SameData
<1>8. ASSUME NEW key \in Keys \cup {NULL}, StartsRun(r, key)
      PROVE  /\ runs'[r].status # "completed"
             /\ tasks'[r][i].status # "none" =>
                   tasks'[r][i].input = From(tasks'[r], i)
  BY <1>8 DEF StartsRun, OtherTasks
<1>9. ASSUME NEW k \in Steps, NEW p \in Payload, PassesOn(r, k, p)
      PROVE  /\ runs'[r].status # "completed"
             /\ tasks'[r][i].status # "none" =>
                   tasks'[r][i].input = From(tasks'[r], i)
  <2>0. i \in Nat /\ k \in Nat
    BY <1>1
  <2>1. runs'[r].status # "completed"
    BY <1>9 DEF PassesOn, WorksOn
  <2>2. CASE i = k + 1
    <3>1. i # 0 /\ i - 1 = k
      BY <2>0, <2>2
    <3>2. tasks'[r][i].input = p /\ tasks'[r][k].result = p
      BY <1>9, <2>2 DEF PassesOn
    <3> QED BY <2>1, <3>1, <3>2
  <2>3. CASE i > k + 1
    <3>1. i > k /\ i \notin {k, k + 1}
      BY <2>0, <2>3
    <3>2. tasks[r][i].status = "none" /\ tasks'[r][i] = tasks[r][i]
      BY <1>9, <3>1 DEF PassesOn, WorksOn, OtherTasks
    <3> QED BY <2>1, <3>2
  <2>4. CASE i <= k
    <3>1. i = 0 \/ (i - 1 \in Steps /\ i - 1 \notin {k, k + 1})
      BY <1>1, <2>0, <2>4
    <3>2. From(tasks'[r], i) = From(tasks[r], i)
      BY <1>9, <3>1 DEF PassesOn, OtherTasks
    <3>3. i = k \/ i \notin {k, k + 1}
      BY <2>0, <2>4
    <3>4. \/ /\ tasks'[r][i].input = tasks[r][i].input
             /\ tasks[r][i].status # "none"
          \/ tasks'[r][i] = tasks[r][i]
      BY <1>9, <3>3 DEF PassesOn, OtherTasks
    <3> HIDE DEF From
    <3> QED BY <1>2, <2>1, <3>2, <3>4
  <2> QED BY <2>0, <2>1, <2>2, <2>3, <2>4
<1>10. ASSUME NEW k \in Steps, NEW p \in Payload, FinishesRun(r, k, p)
      PROVE  /\ tasks'[r][i].status # "none" =>
                   tasks'[r][i].input = From(tasks'[r], i)
             /\ i = runs'[r].total_steps - 1 =>
                   runs'[r].result = tasks'[r][i].result
  <2>1. i = runs'[r].total_steps - 1 => runs'[r].result = tasks'[r][i].result
    BY <1>10 DEF FinishesRun
  <2>2. CASE i > k
    BY <1>1, <1>10, <2>1, <2>2 DEF FinishesRun, WorksOn, OtherTasks
  <2>3. CASE i <= k
    <3>1. From(tasks'[r], i) = From(tasks[r], i)
      BY <1>1, <1>10, <2>3 DEF FinishesRun, OtherTasks
    <3>2. \/ /\ tasks'[r][i].input = tasks[r][i].input
             /\ tasks[r][i].status # "none"
          \/ tasks'[r][i] = tasks[r][i]
      BY <1>1, <1>10, <2>3 DEF FinishesRun, OtherTasks
    <3> HIDE DEF From
    <3> QED BY <1>2, <2>1, <3>1, <3>2
  <2> QED BY <1>1, <2>1, <2>2, <2>3
<1>11. ASSUME \/ \E k \in Steps : FailsRun(r, k)
              \/ CancelsRun(r)
       PROVE  /\ runs'[r].status # "completed"
              /\ tasks'[r][i].status # "none" =>
                    tasks'[r][i].input = From(tasks'[r], i)
  <2>1. \A j \in Steps : /\ SameData(tasks[r][j], tasks'[r][j])
                         /\ tasks'[r][j].status # "none" =>
                              tasks[r][j].status # "none"
    BY <1>11 DEF FailsRun, CancelsRun, OtherTasks, SameData, Outstanding
  <2>2. From(tasks'[r], i) = From(tasks[r], i)
    BY <1>5, <2>1
  <2>3. runs'[r].status # "completed"
    BY <1>11 DEF FailsRun, CancelsRun
  <2> HIDE DEF From
  <2> QED BY <1>2, <2>1, <2>2, <2>3 DEF SameData
<1> HIDE DEF From
<1> QED BY <1>4, <1>6, <1>7, <1>8, <1>9, <1>10, <1>11 DEF Effect

(* However often a step is leased, reclaimed, retried or replayed, it      *)
(* works on exactly the result its predecessor committed (the first on the *)
(* run's input), and a completed run reports its last step's result.       *)
THEOREM DataIsHandedOn == StoreSpec => []HandOff
<1>1. StoreInit => HandOff
  BY DEF StoreInit, HandOff, NoTask
<1>2. StoreInv /\ HandOff /\ [StoreNext]_storeVars => HandOff'
  BY HandOffStep
<1>3. StoreSpec => []StoreInv
  BY StoreSafety, PTL DEF StoreInv
<1> QED BY <1>1, <1>2, <1>3, PTL DEF StoreSpec

----------------------------------------------------------------------------
(* The history of a step's completion.                                     *)
Completions(s, i) == Positions(s, {Ev("ActivityCompleted", i)})

CompletedOnce(s, i, status) ==
    /\ \A j, k \in Completions(s, i) : j = k
    /\ status = "completed" <=> Completions(s, i) # {}

LEMMA EventsDiffer ==
    \A a, b, i, j : Ev(a, i) = Ev(b, j) <=> a = b /\ i = j
  BY DEF Ev

(* Only an ActivityCompleted event of the step counts.                     *)
LEMMA CompletionsAppend ==
    ASSUME NEW s \in Seq(Event), NEW type \in EventType,
           NEW k \in Steps \cup {NoStep}, NEW i \in Steps
    PROVE  Completions(Append(s, Ev(type, k)), i)
             = IF type = "ActivityCompleted" /\ k = i
               THEN Completions(s, i) \cup {Len(s) + 1}
               ELSE Completions(s, i)
<1>1. Ev(type, k) \in Event
  BY EventTypes
<1>2. Ev(type, k) \in {Ev("ActivityCompleted", i)}
         <=> type = "ActivityCompleted" /\ k = i
  BY EventsDiffer
<1> QED BY <1>1, <1>2, PositionsAppend DEF Completions

LEMMA CompletionStep ==
    ASSUME StoreInv, [StoreNext]_storeVars, NEW r \in Runs, NEW i \in Steps,
           CompletedOnce(events[r], i, tasks[r][i].status)
    PROVE  CompletedOnce(events'[r], i, tasks'[r][i].status)
<1> DEFINE s == events[r]
           K == Completions(s, i)
<1>1. s \in Seq(Event) /\ (tasks[r][i].status = "completed" <=> K # {})
      /\ \A j, k \in K : j = k
  BY DEF CompletedOnce, StoreInv, StoreTypeOK
<1>2. Effect(r)
  BY RunEffects
<1>3. ASSUME Completions(events'[r], i) = K,
             tasks'[r][i].status = "completed" <=> tasks[r][i].status = "completed"
      PROVE  CompletedOnce(events'[r], i, tasks'[r][i].status)
  BY <1>1, <1>3 DEF CompletedOnce
<1>4. ASSUME NEW a \in EventType, NEW x \in Steps \cup {NoStep},
             NEW b \in EventType, NEW y \in Steps \cup {NoStep},
             b # "ActivityCompleted",
             events'[r] = Append(Append(s, Ev(a, x)), Ev(b, y))
      PROVE  Completions(events'[r], i)
               = IF a = "ActivityCompleted" /\ x = i
                 THEN K \cup {Len(s) + 1} ELSE K
  <2> DEFINE u == Append(s, Ev(a, x))
  <2>1. u \in Seq(Event)
    BY <1>1, EventTypes, AppendProperties
  <2>2. Completions(u, i) = IF a = "ActivityCompleted" /\ x = i
                            THEN K \cup {Len(s) + 1} ELSE K
    <3> HIDE DEF s
    <3>1. s \in Seq(Event)
      BY <1>1
    <3> QED BY <3>1, CompletionsAppend
  <2>3. events'[r] = Append(u, Ev(b, y))
    BY <1>4
  <2> HIDE DEF u
  <2>4. Completions(Append(u, Ev(b, y)), i) = Completions(u, i)
    BY <1>4, <2>1, CompletionsAppend
  <2> QED BY <2>2, <2>3, <2>4
<1>5. ASSUME NEW k \in Steps, NEW b \in EventType, NEW y \in Steps \cup {NoStep},
             b # "ActivityCompleted",
             events'[r] = Append(Append(s, Ev("ActivityCompleted", k)), Ev(b, y)),
             tasks[r][k].status = "leased", tasks'[r][k].status = "completed",
             i # k => (tasks'[r][i].status = "completed"
                         <=> tasks[r][i].status = "completed")
      PROVE  CompletedOnce(events'[r], i, tasks'[r][i].status)
  <2>1. Completions(events'[r], i) = IF k = i THEN K \cup {Len(s) + 1} ELSE K
    <3>1. "ActivityCompleted" \in EventType
      BY DEF EventType
    <3> HIDE DEF s, K
    <3> QED BY <1>4, <1>5, <3>1
  <2>2. CASE k = i
    <3>1. K = {}
      BY <1>1, <1>5, <2>2
    <3> QED BY <1>5, <2>1, <2>2, <3>1 DEF CompletedOnce
  <2>3. CASE k # i
    BY <1>3, <1>5, <2>1, <2>3
  <2> QED BY <2>2, <2>3
<1>6. CASE StaysPut(r)
  BY <1>3, <1>6 DEF StaysPut, StandsStill, Outstanding
<1>7. ASSUME NEW k \in Steps, NEW type \in ReturnEvents, ReturnsTask(r, k, type)
      PROVE  CompletedOnce(events'[r], i, tasks'[r][i].status)
  <2>1. Completions(events'[r], i) = K
    BY <1>1, <1>7, CompletionsAppend DEF ReturnsTask, ReturnEvents, EventType
  <2>2. tasks'[r][i].status = "completed" <=> tasks[r][i].status = "completed"
    BY <1>7 DEF ReturnsTask, OtherTasks
  <2> QED BY <1>3, <2>1, <2>2
<1>8. ASSUME NEW key \in Keys \cup {NULL}, StartsRun(r, key)
      PROVE  CompletedOnce(events'[r], i, tasks'[r][i].status)
  <2>1. Completions(events'[r], i) = K
    BY <1>4, <1>8 DEF StartsRun, EventType
  <2>2. tasks'[r][i].status # "completed" /\ tasks[r][i].status = "none"
    BY <1>8 DEF StartsRun, OtherTasks
  <2> QED BY <1>3, <2>1, <2>2
<1>9. ASSUME NEW k \in Steps, NEW p \in Payload, PassesOn(r, k, p)
      PROVE  CompletedOnce(events'[r], i, tasks'[r][i].status)
  <2>1. i # k => (tasks'[r][i].status = "completed"
                    <=> tasks[r][i].status = "completed")
    <3>1. CASE i = k + 1
      <4>1. i > k
        BY <3>1 DEF Steps
      <4> QED BY <1>9, <3>1, <4>1 DEF PassesOn, WorksOn
    <3>2. CASE i # k + 1
      BY <1>9, <3>2 DEF PassesOn, OtherTasks
    <3> QED BY <3>1, <3>2
  <2> QED BY <1>5, <1>9, <2>1 DEF PassesOn, EventType
<1>10. ASSUME NEW k \in Steps, NEW p \in Payload, FinishesRun(r, k, p)
       PROVE  CompletedOnce(events'[r], i, tasks'[r][i].status)
  <2>1. i # k => tasks'[r][i].status = tasks[r][i].status
    BY <1>10 DEF FinishesRun, OtherTasks
  <2> QED BY <1>5, <1>10, <2>1 DEF FinishesRun, EventType
<1>11. ASSUME NEW k \in Steps, FailsRun(r, k)
       PROVE  CompletedOnce(events'[r], i, tasks'[r][i].status)
  <2>1. Completions(events'[r], i) = K
    BY <1>4, <1>11 DEF FailsRun, EventType
  <2>2. tasks'[r][i].status = "completed" <=> tasks[r][i].status = "completed"
    BY <1>11 DEF FailsRun, OtherTasks
  <2> QED BY <1>3, <2>1, <2>2
<1>12. CASE CancelsRun(r)
  <2>1. Completions(events'[r], i) = K
    BY <1>1, <1>12, CompletionsAppend DEF CancelsRun, EventType
  <2>2. tasks'[r][i].status = "completed" <=> tasks[r][i].status = "completed"
    BY <1>12 DEF CancelsRun, Outstanding
  <2> QED BY <1>3, <2>1, <2>2
<1> QED
  BY <1>2, <1>6, <1>7, <1>8, <1>9, <1>10, <1>11, <1>12 DEF Effect

(* The history counts the completion of a step once, however often its     *)
(* task was leased, reclaimed, retried or replayed, and exactly when the   *)
(* task's row says completed.                                              *)
THEOREM StepsCompleteOnce == StoreSpec => []OneCompletionEvent
<1> DEFINE Once == \A r \in Runs : \A i \in Steps :
                      CompletedOnce(events[r], i, tasks[r][i].status)
<1>1. Once <=> OneCompletionEvent
  BY HistoryOperators DEF OneCompletionEvent, CompletedOnce, Completions
<1>2. StoreInit => Once
  <2> SUFFICES ASSUME StoreInit, NEW r \in Runs, NEW i \in Steps
               PROVE  CompletedOnce(events[r], i, tasks[r][i].status)
    OBVIOUS
  <2>1. events[r] = <<>> /\ tasks[r][i].status = "none"
    BY DEF StoreInit, NoTask
  <2>2. Completions(events[r], i) = {}
    BY <2>1 DEF Completions, Positions
  <2> QED BY <2>1, <2>2 DEF CompletedOnce
<1>3. StoreInv /\ Once /\ [StoreNext]_storeVars => Once'
  BY CompletionStep
<1>4. StoreSpec => []StoreInv
  BY StoreSafety, PTL DEF StoreInv
<1> HIDE DEF Once
<1> QED BY <1>1, <1>2, <1>3, <1>4, PTL DEF StoreSpec

----------------------------------------------------------------------------
(* What the history tells.  The inductive invariant adds that the latest   *)
(* event of a run or of a task is always one that tells something.         *)
RunEvents == [type : EventType, step : {NoStep}]

TaskEvents(i) == [type : EventType, step : {i}]

RunWords == {"nothing", "WorkflowStarted", "WorkflowCompleted",
             "WorkflowFailed", "WorkflowCancelled"}

BackWords == {"ActivityScheduled", "ActivityRetryScheduled", "TaskReclaimed",
              "TaskReplayed"}

TaskWords == {"nothing", "ActivityCompleted", "ActivityDeadLettered"}
                \cup BackWords

RunIsTold(run, word) == word \in RunWords /\ run.status = Announces[word]

TaskIsTold(run, t, word) ==
    /\ word \in TaskWords
    /\ \/ t.status \in LeavesTask[word]
       \/ /\ t.status = "cancelled"
          /\ run.status = "cancelled"
          /\ LeavesTask[word] = Outstanding

ToldInv ==
    \A r \in Runs :
        /\ RunIsTold(runs[r], Latest(events[r], RunEvents))
        /\ \A i \in Steps :
              TaskIsTold(runs[r], tasks[r][i], Latest(events[r], TaskEvents(i)))

LEMMA Words ==
    /\ Announces["nothing"] = "none"
    /\ Announces["WorkflowStarted"] = "running"
    /\ Announces["WorkflowCompleted"] = "completed"
    /\ Announces["WorkflowFailed"] = "failed"
    /\ Announces["WorkflowCancelled"] = "cancelled"
    /\ LeavesTask["nothing"] = {"none"}
    /\ LeavesTask["ActivityCompleted"] = {"completed"}
    /\ LeavesTask["ActivityDeadLettered"] = {"dead"}
    /\ \A w \in BackWords : LeavesTask[w] = Outstanding
  BY DEF Announces, LeavesTask, BackWords

(* An event about the run, or about a task, is the latest of its kind and  *)
(* changes no other's latest.                                              *)
LEMMA LatestEvent ==
    ASSUME NEW s \in Seq(Event), NEW type \in EventType,
           NEW k \in Steps \cup {NoStep}
    PROVE  /\ Latest(Append(s, Ev(type, k)), RunEvents)
                 = IF k = NoStep THEN type ELSE Latest(s, RunEvents)
           /\ \A i \in Steps :
                 Latest(Append(s, Ev(type, k)), TaskEvents(i))
                    = IF k = i THEN type ELSE Latest(s, TaskEvents(i))
           /\ Append(s, Ev(type, k)) \in Seq(Event)
<1> DEFINE e == Ev(type, k)
<1>1. e \in Event /\ e.type = type
  BY EventTypes DEF Ev
<1>2. e \in RunEvents <=> k = NoStep
  BY DEF Ev, RunEvents
<1>3. \A i \in Steps : e \in TaskEvents(i) <=> k = i
  BY DEF Ev, TaskEvents
<1> HIDE DEF e
<1>4. Latest(Append(s, e), RunEvents)
         = IF k = NoStep THEN type ELSE Latest(s, RunEvents)
  BY <1>1, <1>2, LatestAppend
<1>5. ASSUME NEW i \in Steps
      PROVE  Latest(Append(s, e), TaskEvents(i))
               = IF k = i THEN type ELSE Latest(s, TaskEvents(i))
  BY <1>1, <1>3, LatestAppend
<1>6. Append(s, e) \in Seq(Event)
  BY <1>1, AppendProperties
<1> QED BY <1>4, <1>5, <1>6 DEF e

(* A task whose row and event stay is still told, unless its run is        *)
(* cancelled away.                                                         *)
LEMMA StillTold ==
    ASSUME NEW run, NEW run2, NEW t, NEW t2, NEW word, TaskIsTold(run, t, word),
           \/ t2.status = t.status
           \/ {t.status, t2.status} \subseteq Outstanding,
           run.status = "cancelled" => run2.status = "cancelled"
    PROVE  TaskIsTold(run2, t2, word)
  BY Words DEF TaskIsTold, TaskWords, Outstanding

LEMMA ToldStep ==
    ASSUME StoreInv, ToldInv, [StoreNext]_storeVars
    PROVE  ToldInv'
<1> SUFFICES ASSUME NEW r \in Runs
             PROVE  /\ RunIsTold(runs'[r], Latest(events'[r], RunEvents))
                    /\ \A i \in Steps :
                         TaskIsTold(runs'[r], tasks'[r][i],
                                    Latest(events'[r], TaskEvents(i)))
  BY DEF ToldInv
<1> DEFINE s == events[r]
           W == Latest(s, RunEvents)
           w(i) == Latest(s, TaskEvents(i))
           Goal == /\ RunIsTold(runs'[r], Latest(events'[r], RunEvents))
                   /\ \A i \in Steps :
                        TaskIsTold(runs'[r], tasks'[r][i],
                                   Latest(events'[r], TaskEvents(i)))
<1>1. s \in Seq(Event)
  BY DEF StoreInv, StoreTypeOK
<1>2. RunIsTold(runs[r], W)
  BY DEF ToldInv
<1>3. \A i \in Steps : TaskIsTold(runs[r], tasks[r][i], w(i))
  BY DEF ToldInv
<1>4. Effect(r)
  BY RunEffects
<1>5. NoStep \notin Steps /\ \A i \in Steps : i \in Nat /\ i # NoStep
  BY DEF NoStep, Steps
<1>6. \A t, run : \A word \in BackWords :
         t.status = "pending" => TaskIsTold(run, t, word)
  BY Words DEF TaskIsTold, TaskWords, Outstanding
<1>7. ASSUME NEW a \in EventType, NEW x \in Steps \cup {NoStep},
              NEW b \in EventType, NEW y \in Steps \cup {NoStep},
              events'[r] = Append(Append(s, Ev(a, x)), Ev(b, y))
       PROVE  /\ Latest(events'[r], RunEvents)
                    = IF y = NoStep THEN b ELSE IF x = NoStep THEN a ELSE W
              /\ \A i \in Steps : Latest(events'[r], TaskEvents(i))
                    = IF y = i THEN b ELSE IF x = i THEN a ELSE w(i)
  <2> DEFINE v == Append(s, Ev(a, x))
  <2>1. /\ v \in Seq(Event)
        /\ Latest(v, RunEvents) = IF x = NoStep THEN a ELSE W
        /\ \A i \in Steps : Latest(v, TaskEvents(i))
                               = IF x = i THEN a ELSE w(i)
    BY <1>1, LatestEvent
  <2>2. events'[r] = Append(v, Ev(b, y))
    BY <1>7
  <2> HIDE DEF v
  <2>3. /\ Latest(Append(v, Ev(b, y)), RunEvents)
              = IF y = NoStep THEN b ELSE Latest(v, RunEvents)
        /\ \A i \in Steps : Latest(Append(v, Ev(b, y)), TaskEvents(i))
                               = IF y = i THEN b ELSE Latest(v, TaskEvents(i))
    BY <2>1, LatestEvent
  <2> QED BY <2>1, <2>2, <2>3
<1>8. CASE StaysPut(r)
  <2>1. events'[r] = s /\ runs'[r] = runs[r]
    BY <1>8 DEF StaysPut
  <2>2. ASSUME NEW i \in Steps PROVE TaskIsTold(runs[r], tasks'[r][i], w(i))
    <3>1. \/ tasks'[r][i].status = tasks[r][i].status
          \/ {tasks[r][i].status, tasks'[r][i].status} \subseteq Outstanding
      BY <1>8 DEF StaysPut, StandsStill
    <3> HIDE DEF w
    <3> QED BY <1>3, <3>1, StillTold
  <2> QED BY <1>2, <2>1, <2>2
<1>9. ASSUME NEW k \in Steps, NEW type \in ReturnEvents, ReturnsTask(r, k, type)
      PROVE  Goal
  <2>1. type \in EventType /\ type \in BackWords
    BY DEF ReturnEvents, EventType, BackWords
  <2>2. events'[r] = Append(s, Ev(type, k)) /\ runs'[r] = runs[r]
        /\ tasks'[r][k].status = "pending"
        /\ \A i \in Steps : i # k => tasks'[r][i] = tasks[r][i]
    BY <1>9 DEF ReturnsTask, OtherTasks
  <2>3. /\ Latest(events'[r], RunEvents) = W
        /\ \A i \in Steps : Latest(events'[r], TaskEvents(i))
                               = IF k = i THEN type ELSE w(i)
    BY <1>1, <1>5, <2>1, <2>2, LatestEvent
  <2>4. ASSUME NEW i \in Steps
        PROVE  TaskIsTold(runs'[r], tasks'[r][i], Latest(events'[r], TaskEvents(i)))
    <3> HIDE DEF w
    <3> QED BY <1>3, <1>6, <2>1, <2>2, <2>3
  <2> QED BY <1>2, <2>2, <2>3, <2>4
<1>10. ASSUME NEW key \in Keys \cup {NULL}, StartsRun(r, key)
      PROVE  Goal
  <2>1. /\ 0 \in Steps /\ runs[r].status = "none" /\ runs'[r].status = "running"
        /\ tasks'[r][0].status = "pending"
        /\ \A i \in Steps : i # 0 => tasks'[r][i] = tasks[r][i]
        /\ events'[r] = Append(Append(s, Ev("WorkflowStarted", NoStep)),
                               Ev("ActivityScheduled", 0))
    BY <1>10 DEF StartsRun, OtherTasks
  <2>2. /\ Latest(events'[r], RunEvents) = "WorkflowStarted"
        /\ \A i \in Steps : Latest(events'[r], TaskEvents(i))
                               = IF i = 0 THEN "ActivityScheduled" ELSE w(i)
    <3>1. "WorkflowStarted" \in EventType /\ "ActivityScheduled" \in EventType
      BY DEF EventType
    <3> HIDE DEF W, w, s
    <3> QED BY <1>5, <1>7, <2>1, <3>1
  <2>3. ASSUME NEW i \in Steps
        PROVE  TaskIsTold(runs'[r], tasks'[r][i], Latest(events'[r], TaskEvents(i)))
    <3> HIDE DEF w
    <3>1. CASE i = 0
      BY <1>6, <2>1, <2>2, <3>1 DEF BackWords
    <3>2. CASE i # 0
      BY <1>3, <2>1, <2>2, <3>2, StillTold
    <3> QED BY <3>1, <3>2
  <2>4. RunIsTold(runs'[r], Latest(events'[r], RunEvents))
    BY <2>1, <2>2, Words DEF RunIsTold, RunWords
  <2> QED BY <2>3, <2>4
<1>11. ASSUME NEW k \in Steps, NEW p \in Payload, PassesOn(r, k, p)
       PROVE  Goal
  <2>1. /\ k + 1 \in Steps /\ runs'[r].status = runs[r].status
        /\ tasks'[r][k].status = "completed" /\ tasks'[r][k + 1].status = "pending"
        /\ \A i \in Steps : i # k /\ i # k + 1 => tasks'[r][i] = tasks[r][i]
        /\ events'[r] = Append(Append(s, Ev("ActivityCompleted", k)),
                               Ev("ActivityScheduled", k + 1))
    BY <1>11 DEF PassesOn, OtherTasks
  <2>2. /\ Latest(events'[r], RunEvents) = W
        /\ \A i \in Steps : Latest(events'[r], TaskEvents(i))
                               = IF k + 1 = i THEN "ActivityScheduled"
                                 ELSE IF k = i THEN "ActivityCompleted" ELSE w(i)
    <3>1. "ActivityCompleted" \in EventType /\ "ActivityScheduled" \in EventType
      BY DEF EventType
    <3> HIDE DEF W, w, s
    <3> QED BY <1>5, <1>7, <2>1, <3>1
  <2>3. ASSUME NEW i \in Steps
        PROVE  TaskIsTold(runs'[r], tasks'[r][i], Latest(events'[r], TaskEvents(i)))
    <3> HIDE DEF w
    <3>1. CASE i = k + 1
      BY <1>6, <2>1, <2>2, <3>1 DEF BackWords
    <3>2. CASE i = k /\ i # k + 1
      BY <2>1, <2>2, <3>2, Words DEF TaskIsTold, TaskWords
    <3>3. CASE i # k /\ i # k + 1
      BY <1>3, <2>1, <2>2, <3>3, StillTold
    <3> QED BY <3>1, <3>2, <3>3
  <2>4. RunIsTold(runs'[r], Latest(events'[r], RunEvents))
    BY <1>2, <2>1, <2>2 DEF RunIsTold
  <2> QED BY <2>3, <2>4
<1>12. ASSUME NEW k \in Steps, NEW p \in Payload, FinishesRun(r, k, p)
       PROVE  Goal
  <2>1. /\ runs[r].status # "cancelled" /\ runs'[r].status = "completed"
        /\ tasks'[r][k].status = "completed"
        /\ \A i \in Steps : i # k => tasks'[r][i] = tasks[r][i]
        /\ events'[r] = Append(Append(s, Ev("ActivityCompleted", k)),
                               Ev("WorkflowCompleted", NoStep))
    BY <1>12 DEF FinishesRun, OtherTasks, WorksOn
  <2>2. /\ Latest(events'[r], RunEvents) = "WorkflowCompleted"
        /\ \A i \in Steps : Latest(events'[r], TaskEvents(i))
                               = IF k = i THEN "ActivityCompleted" ELSE w(i)
    <3>1. "ActivityCompleted" \in EventType /\ "WorkflowCompleted" \in EventType
      BY DEF EventType
    <3> HIDE DEF W, w, s
    <3> QED BY <1>5, <1>7, <2>1, <3>1
  <2>3. ASSUME NEW i \in Steps
        PROVE  TaskIsTold(runs'[r], tasks'[r][i], Latest(events'[r], TaskEvents(i)))
    <3> HIDE DEF w
    <3>1. CASE i = k
      BY <2>1, <2>2, <3>1, Words DEF TaskIsTold, TaskWords
    <3>2. CASE i # k
      BY <1>3, <2>1, <2>2, <3>2, StillTold
    <3> QED BY <3>1, <3>2
  <2>4. RunIsTold(runs'[r], Latest(events'[r], RunEvents))
    BY <2>1, <2>2, Words DEF RunIsTold, RunWords
  <2> QED BY <2>3, <2>4
<1>13. ASSUME NEW k \in Steps, FailsRun(r, k)
       PROVE  Goal
  <2>1. /\ runs[r].status # "cancelled" /\ runs'[r].status = "failed"
        /\ tasks'[r][k].status = "dead"
        /\ \A i \in Steps : i # k => tasks'[r][i] = tasks[r][i]
        /\ events'[r] = Append(Append(s, Ev("ActivityDeadLettered", k)),
                               Ev("WorkflowFailed", NoStep))
    BY <1>13 DEF FailsRun, OtherTasks, WorksOn
  <2>2. /\ Latest(events'[r], RunEvents) = "WorkflowFailed"
        /\ \A i \in Steps : Latest(events'[r], TaskEvents(i))
                               = IF k = i THEN "ActivityDeadLettered" ELSE w(i)
    <3>1. "ActivityDeadLettered" \in EventType /\ "WorkflowFailed" \in EventType
      BY DEF EventType
    <3> HIDE DEF W, w, s
    <3> QED BY <1>5, <1>7, <2>1, <3>1
  <2>3. ASSUME NEW i \in Steps
        PROVE  TaskIsTold(runs'[r], tasks'[r][i], Latest(events'[r], TaskEvents(i)))
    <3> HIDE DEF w
    <3>1. CASE i = k
      BY <2>1, <2>2, <3>1, Words DEF TaskIsTold, TaskWords
    <3>2. CASE i # k
      BY <1>3, <2>1, <2>2, <3>2, StillTold
    <3> QED BY <3>1, <3>2
  <2>4. RunIsTold(runs'[r], Latest(events'[r], RunEvents))
    BY <2>1, <2>2, Words DEF RunIsTold, RunWords
  <2> QED BY <2>3, <2>4
<1>14. CASE CancelsRun(r)
  <2>1. /\ runs'[r].status = "cancelled"
        /\ events'[r] = Append(s, Ev("WorkflowCancelled", NoStep))
        /\ \A i \in Steps :
              tasks'[r][i].status = IF tasks[r][i].status \in Outstanding
                                    THEN "cancelled" ELSE tasks[r][i].status
    BY <1>14 DEF CancelsRun
  <2>2. /\ Latest(events'[r], RunEvents) = "WorkflowCancelled"
        /\ \A i \in Steps : Latest(events'[r], TaskEvents(i)) = w(i)
    BY <1>1, <1>5, <2>1, LatestEvent DEF EventType
  <2>3. ASSUME NEW i \in Steps
        PROVE  TaskIsTold(runs'[r], tasks'[r][i], Latest(events'[r], TaskEvents(i)))
    <3> HIDE DEF w
    <3>1. CASE tasks[r][i].status \in Outstanding
      <4>1. w(i) \in TaskWords /\ LeavesTask[w(i)] = Outstanding
        BY <1>3, <3>1, Words DEF TaskIsTold, TaskWords, Outstanding
      <4> QED BY <2>1, <2>2, <3>1, <4>1 DEF TaskIsTold
    <3>2. CASE tasks[r][i].status \notin Outstanding
      BY <1>3, <2>1, <2>2, <3>2, StillTold
    <3> QED BY <3>1, <3>2
  <2>4. RunIsTold(runs'[r], Latest(events'[r], RunEvents))
    BY <2>1, <2>2, Words DEF RunIsTold, RunWords
  <2> QED BY <2>3, <2>4
<1> HIDE DEF Goal
<1> QED
  BY <1>4, <1>8, <1>9, <1>10, <1>11, <1>12, <1>13, <1>14 DEF Effect, Goal

(* The events of a run, read by themselves, tell where the run and each of *)
(* its tasks stand: no transaction changes a status without the event that *)
(* says so, and none writes an event it does not live up to.               *)
THEOREM HistoryIsFaithful == StoreSpec => []HistoryTellsState
<1>1. ToldInv => HistoryTellsState
  BY HistoryOperators
     DEF ToldInv, HistoryTellsState, RunIsTold, TaskIsTold, RunEvents, TaskEvents
<1>2. StoreInit => ToldInv
  <2> SUFFICES ASSUME StoreInit, NEW r \in Runs
               PROVE  /\ RunIsTold(runs[r], Latest(events[r], RunEvents))
                      /\ \A i \in Steps :
                           TaskIsTold(runs[r], tasks[r][i],
                                      Latest(events[r], TaskEvents(i)))
    BY DEF ToldInv
  <2>1. /\ events[r] = <<>> /\ runs[r].status = "none"
        /\ \A i \in Steps : tasks[r][i].status = "none"
    BY DEF StoreInit, NoTask, NoRun
  <2>2. \A S : Latest(events[r], S) = "nothing"
    BY <2>1 DEF Latest, Positions
  <2> QED BY <2>1, <2>2, Words DEF RunIsTold, TaskIsTold, RunWords, TaskWords
<1>3. StoreInv /\ ToldInv /\ [StoreNext]_storeVars => ToldInv'
  BY ToldStep
<1>4. StoreSpec => []StoreInv
  BY StoreSafety, PTL DEF StoreInv
<1> QED BY <1>1, <1>2, <1>3, <1>4, PTL DEF StoreSpec

=============================================================================
