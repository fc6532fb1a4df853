------------------------- MODULE EngineLeaseProofs -------------------------
(***************************************************************************)
(* What becomes of the leases the engine takes: whose result is committed, *)
(* which tasks are given up, what a process leaves behind when it is told  *)
(* to stop, and how long a task waits before its next attempt.             *)
(***************************************************************************)
EXTENDS DuraflowEngineProofs, StoreHistoryProofs

----------------------------------------------------------------------------
(* Types.  JobsOK has the workers; the rest of the engine's state follows. *)
ProcsOK ==
    /\ proc \in [Procs -> {"up", "draining", "exited", "down"}]
    /\ reaper \in [Procs -> {"ticking", "stopped"}]
    /\ faults \in 0 .. MaxFaults

LEMMA ProcsStep ==
    ASSUME ProcsOK, [Next]_vars
    PROVE  ProcsOK'
<1>1. ASSUME NEW kind, Fault(kind) PROVE faults' \in 0 .. MaxFaults
  BY <1>1, EngineAssumption DEF Fault, ProcsOK
<1>2. ASSUME NEW w \in Workers, WorkerStep(w)
      PROVE  UNCHANGED <<proc, reaper, faults>>
  BY <1>2 DEF WorkerStep, Poll, Lease, LeaseNone, ExecuteOk, ExecuteFail,
              CommitAdvance, CommitRetry, CommitDeadLetter, CommitNothing,
              BackToPoll
<1>3. ASSUME NEW w \in Workers, WorkerFault(w)
      PROVE  UNCHANGED <<proc, reaper>> /\ faults' \in 0 .. MaxFaults
  BY <1>1, <1>3 DEF WorkerFault, LeaseError, NextStepFail, ExecuteOdd,
                    CommitError, BackToPoll
<1>4. ASSUME NEW p \in Procs,
             Reap(p) \/ ReaperStop(p) \/ Exit(p) \/ Restart(p)
      PROVE  ProcsOK'
  BY <1>4 DEF Reap, ReaperStop, Exit, Restart, ProcsOK, engineVars
<1>5. ASSUME NEW p \in Procs, Sigterm(p) \/ Crash(p)
      PROVE  ProcsOK'
  BY <1>1, <1>5 DEF Sigterm, Crash, ProcsOK
<1>6. CASE Client \/ Clock
  BY <1>1, <1>6 DEF Client, Clock, ProcsOK, engineVars
<1>7. CASE UNCHANGED vars
  BY <1>7 DEF vars, ProcsOK
<1> QED
  BY <1>2, <1>3, <1>4, <1>5, <1>6, <1>7 DEF Next, ProcsOK

(* The engine's variables and the store's rows keep their types, whatever  *)
(* the environment injects.                                                *)
THEOREM EngineTypes == Spec => []EngineTypeOK
<1>1. Init => ProcsOK
  BY EngineAssumption DEF Init, ProcsOK
<1>2. ProcsOK /\ [Next]_vars => ProcsOK'
  BY ProcsStep
<1>3. StoreInv /\ JobsOK /\ ProcsOK => EngineTypeOK
  BY DEF StoreInv, JobsOK, ProcsOK, EngineTypeOK
<1> QED
  BY <1>1, <1>2, <1>3, EngineInvariant, PTL DEF Spec

(* What is proved of the store's data and histories holds under the        *)
(* engine: it only issues transactions of the store.                       *)
THEOREM EngineKeepsHistory ==
    Spec => [](HandOff /\ OneCompletionEvent /\ HistoryTellsState)
  BY EngineRefinesStore, DataIsHandedOn, StepsCompleteOnce, HistoryIsFaithful,
     PTL DEF ImplementsStore

----------------------------------------------------------------------------
(* How a task ends.  A row that is completed or dead after a transaction   *)
(* other than Advance and DeadLetter was so before, with the same lease    *)
(* columns, attempt and result.                                            *)
EndKept(t, u) ==
    u.status \in {"completed", "dead"} =>
        /\ t.status = u.status
        /\ t.leased_by = u.leased_by
        /\ t.attempt = u.attempt
        /\ t.max_attempts = u.max_attempts
        /\ t.result = u.result

LEMMA RowEndKept ==
    ASSUME NEW t \in TaskRow
    PROVE  /\ EndKept(t, t)
           /\ \A o : EndKept(t, LeasedTo(t, o))
           /\ EndKept(t, BackToPending(t))
           /\ \A d : EndKept(t, [BackToPending(t) EXCEPT !.available_at = d])
           /\ EndKept(t, Requeued(t))
           /\ EndKept(t, [t EXCEPT !.status = "cancelled"])
           /\ EndKept(t, Closer(t))
           /\ \A u : EndKept(t, InsertTask(u))
<1>1. /\ Closer(t).status = t.status /\ Closer(t).leased_by = t.leased_by
      /\ Closer(t).attempt = t.attempt /\ Closer(t).result = t.result
      /\ Closer(t).max_attempts = t.max_attempts
  BY DEF Closer, TaskRow
<1>2. [t EXCEPT !.status = "cancelled"].status = "cancelled"
  BY DEF TaskRow
<1> QED
  BY <1>1, <1>2, RowStatus DEF EndKept

(* The transactions that end no task.                                      *)
EndsNothing ==
    \/ \E r \in Runs : \E wf \in Workflows : \E key \in Keys \cup {NULL} :
          StartWorkflow(r, wf, key)
    \/ \E r \in Runs : CancelRun(r)
    \/ \E r \in Runs : \E i \in Steps : Replay(r, i)
    \/ \E r \in Runs : \E i \in Steps : \E o \in Owners :
          \/ LeaseTask(o, r, i)
          \/ \E d \in 0 .. MaxBackoff : Retry(r, i, o, d)
    \/ ReapExpiredLeases
    \/ Tick
    \/ UNCHANGED storeVars

EndsKept == \A r \in Runs : \A i \in Steps : EndKept(tasks[r][i], tasks'[r][i])

LEMMA OneRowEnds ==
    ASSUME StoreTypeOK, NEW r \in Runs, NEW i \in Steps, NEW row,
           tasks' = [tasks EXCEPT ![r][i] = row], EndKept(tasks[r][i], row)
    PROVE  EndsKept
<1>1. tasks \in [Runs -> [Steps -> TaskRow]]
  BY DEF StoreTypeOK
<1>2. ASSUME NEW q \in Runs, NEW j \in Steps
      PROVE  EndKept(tasks[q][j], tasks'[q][j])
  <2>1. EndKept(tasks[q][j], tasks[q][j])
    BY <1>1, RowEndKept
  <2>2. tasks'[q][j] = IF q = r /\ j = i THEN row ELSE tasks[q][j]
    BY <1>1
  <2> QED BY <2>1, <2>2
<1> QED BY <1>2 DEF EndsKept

LEMMA EndsNothingKept ==
    ASSUME StoreTypeOK, EndsNothing
    PROVE  EndsKept
<1>0. \A q \in Runs : \A j \in Steps : tasks[q][j] \in TaskRow
  BY DEF StoreTypeOK
<1>a. tasks \in [Runs -> [Steps -> TaskRow]]
  BY DEF StoreTypeOK
<1>1. ASSUME NEW r \in Runs, NEW wf \in Workflows, NEW key \in Keys \cup {NULL},
             StartWorkflow(r, wf, key)
      PROVE  EndsKept
  <2> DEFINE row == InsertTask(BuildTask(wf, 0, RunInput))
  <2>1. 0 \in Steps
    BY TypesAssumption DEF Steps
  <2>2. EndKept(tasks[r][0], row) /\ tasks' = [tasks EXCEPT ![r][0] = row]
    BY <1>0, <1>1, <2>1, RowEndKept DEF StartWorkflow, StartRun
  <2> HIDE DEF row
  <2> QED BY <2>1, <2>2, OneRowEnds
<1>2. ASSUME NEW r \in Runs, CancelRun(r)
      PROVE  EndsKept
  <2>1. \A t \in TaskRow : EndKept(t, [t EXCEPT !.status = "cancelled"])
                           /\ EndKept(t, t)
    BY RowEndKept
  <2> QED BY <1>0, <1>2, <1>a, <2>1 DEF CancelRun, EndsKept
<1>3. ASSUME NEW r \in Runs, NEW i \in Steps, Replay(r, i)
      PROVE  EndsKept
  <2>1. EndKept(tasks[r][i], Requeued(tasks[r][i]))
    BY <1>0, RowEndKept
  <2> QED BY <1>3, <2>1, OneRowEnds DEF Replay, ReplayDeadLetter
<1>4. ASSUME NEW r \in Runs, NEW i \in Steps, NEW o \in Owners, LeaseTask(o, r, i)
      PROVE  EndsKept
  <2>1. EndKept(tasks[r][i], LeasedTo(tasks[r][i], o))
    BY <1>0, RowEndKept
  <2> QED BY <1>4, <2>1, OneRowEnds DEF LeaseTask
<1>5. ASSUME NEW r \in Runs, NEW i \in Steps, NEW o \in Owners,
             NEW d \in 0 .. MaxBackoff, Retry(r, i, o, d)
      PROVE  EndsKept
  <2> DEFINE row == [BackToPending(tasks[r][i]) EXCEPT !.available_at = d]
  <2>1. EndKept(tasks[r][i], row)
    BY <1>0, RowEndKept
  <2>2. tasks' = [tasks EXCEPT ![r][i] = row]
    BY <1>5 DEF Retry
  <2> HIDE DEF row
  <2> QED BY <2>1, <2>2, OneRowEnds
<1>6. CASE ReapExpiredLeases
  <2>1. \A t \in TaskRow : EndKept(t, BackToPending(t)) /\ EndKept(t, t)
    BY RowEndKept
  <2>2. PICK taken \in SUBSET ExpiredRows : Reclaim(taken)
    BY <1>6 DEF ReapExpiredLeases
  <2> QED BY <1>0, <2>1, <2>2 DEF Reclaim, EndsKept
<1>7. CASE Tick
  <2>1. \A t \in TaskRow : EndKept(t, Closer(t))
    BY RowEndKept
  <2> QED BY <1>0, <1>7, <2>1 DEF Tick, EndsKept
<1>8. CASE UNCHANGED storeVars
  BY <1>0, <1>8, RowEndKept DEF storeVars, EndsKept
<1> QED
  BY <1>1, <1>2, <1>3, <1>4, <1>5, <1>6, <1>7, <1>8 DEF EndsNothing

(* Only a worker at its commit ends a task.                                *)
LEMMA EngineEnds ==
    ASSUME JobsOK, [Next]_vars
    PROVE  \/ EndsNothing
           \/ \E w \in Workers : /\ pc[w] = "commit"
                                 /\ AdvanceJob(w) \/ DeadLetterJob(w)
<1>0. \A w \in Workers : OwnerId[w] \in Owners
  BY EngineAssumption
<1>1. ASSUME NEW w \in Workers, pc[w] = "commit", RetryJob(w)
      PROVE  EndsNothing
  <2>1. job[w].run \in Runs /\ job[w].step \in Steps
    BY <1>1 DEF JobsOK, Job, Busy
  <2>4. job[w].attempt \in Nat \ {0}
    BY <1>1, StoreAssumption DEF JobsOK, Busy
  <2>2. PICK d \in BackoffDelays(job[w].attempt) :
            Retry(job[w].run, job[w].step, OwnerId[w], d)
    BY <1>1 DEF RetryJob
  <2>3. d \in 0 .. MaxBackoff
    BY <2>2, <2>4, DelaysWithinCap
  <2> QED BY <1>0, <2>1, <2>2, <2>3 DEF EndsNothing
<1>2. ASSUME NEW w \in Workers, WorkerStep(w)
      PROVE  EndsNothing \/ (pc[w] = "commit" /\ (AdvanceJob(w) \/ DeadLetterJob(w)))
  <2>1. CASE \E r \in Runs : \E i \in Steps : Lease(w, r, i)
    BY <1>0, <2>1 DEF Lease, EndsNothing
  <2>2. CASE CommitRetry(w)
    BY <1>1, <2>2 DEF CommitRetry, BackToPoll
  <2>3. CASE CommitAdvance(w) \/ CommitDeadLetter(w)
    BY <2>3 DEF CommitAdvance, CommitDeadLetter, BackToPoll
  <2>4. CASE Poll(w) \/ LeaseNone(w) \/ ExecuteOk(w) \/ ExecuteFail(w)
             \/ CommitNothing(w)
    BY <2>4 DEF Poll, LeaseNone, ExecuteOk, ExecuteFail, CommitNothing, EndsNothing
  <2> QED BY <1>2, <2>1, <2>2, <2>3, <2>4 DEF WorkerStep
<1>3. ASSUME NEW w \in Workers, WorkerFault(w)
      PROVE  EndsNothing \/ (pc[w] = "commit" /\ (AdvanceJob(w) \/ DeadLetterJob(w)))
  <2>1. CASE LeaseError(w)
    BY <1>0, <2>1 DEF LeaseError, EndsNothing
  <2>2. CASE CommitError(w)
    BY <1>1, <2>2 DEF CommitError, BackToPoll, EndsNothing
  <2>3. CASE NextStepFail(w) \/ ExecuteOdd(w)
    BY <2>3 DEF NextStepFail, ExecuteOdd, EndsNothing
  <2> QED BY <1>3, <2>1, <2>2, <2>3 DEF WorkerFault
<1>4. ASSUME NEW p \in Procs,
             Reap(p) \/ ReaperStop(p) \/ Sigterm(p) \/ Exit(p) \/ Crash(p) \/ Restart(p)
      PROVE  EndsNothing
  BY <1>4 DEF Reap, ReaperStop, Sigterm, Exit, Crash, Restart, EndsNothing
<1>5. CASE Client \/ Clock
  BY <1>5 DEF Client, Clock, EndsNothing
<1>6. CASE UNCHANGED vars
  BY <1>6 DEF vars, storeVars, EndsNothing
<1> QED BY <1>2, <1>3, <1>4, <1>5, <1>6 DEF Next

(* What a commit that ends a task writes in that task's row, and that it   *)
(* ends no other.                                                          *)
LEMMA AdvanceRows ==
    ASSUME StoreTypeOK, NEW r \in Runs, NEW i \in Steps, NEW o, NEW p,
           Advance(r, i, o, p)
    PROVE  /\ tasks[r][i].leased_by = o
           /\ tasks'[r][i].status = "completed"
           /\ tasks'[r][i].leased_by = tasks[r][i].leased_by
           /\ tasks'[r][i].attempt = tasks[r][i].attempt
           /\ tasks'[r][i].result = p
           /\ \A q \in Runs : \A j \in Steps :
                 q # r \/ j # i => EndKept(tasks[q][j], tasks'[q][j])
<1>1. /\ tasks \in [Runs -> [Steps -> TaskRow]]
      /\ \A q \in Runs : \A j \in Steps : tasks[q][j] \in TaskRow
      /\ i \in Int
  BY TypesAssumption DEF StoreTypeOK, Steps
<1> DEFINE done == CompletedWith(tasks[r][i], p)
<1>2. /\ done.status = "completed" /\ done.result = p
      /\ done.leased_by = tasks[r][i].leased_by
      /\ done.attempt = tasks[r][i].attempt
  BY <1>1 DEF CompletedWith, TaskRow
<1>3. \A q \in Runs : \A j \in Steps :
         /\ \A u : EndKept(tasks[q][j], InsertTask(u))
         /\ EndKept(tasks[q][j], tasks[q][j])
  BY <1>1, RowEndKept
<1>4. tasks[r][i].leased_by = o
  BY DEF Advance, AdvanceNext, AdvanceFinish, Fenced
<1>5. \/ \E u : tasks' = [tasks EXCEPT ![r][i] = done,
                                       ![r][i + 1] = InsertTask(u)]
      \/ tasks' = [tasks EXCEPT ![r][i] = done]
  BY DEF Advance, AdvanceNext, AdvanceFinish
<1> HIDE DEF done
<1>6. tasks'[r][i] = done
  BY <1>1, <1>5
<1>7. ASSUME NEW q \in Runs, NEW j \in Steps, q # r \/ j # i
      PROVE  \/ tasks'[q][j] = tasks[q][j]
             \/ \E u : tasks'[q][j] = InsertTask(u)
  BY <1>1, <1>5, <1>7
<1> QED BY <1>2, <1>3, <1>4, <1>6, <1>7

LEMMA DeadLetterRows ==
    ASSUME StoreTypeOK, NEW r \in Runs, NEW i \in Steps, NEW o,
           DeadLetter(r, i, o)
    PROVE  /\ tasks'[r][i].status = "dead"
           /\ tasks'[r][i].attempt = tasks[r][i].attempt
           /\ tasks'[r][i].max_attempts = tasks[r][i].max_attempts
           /\ \A q \in Runs : \A j \in Steps :
                 q # r \/ j # i => EndKept(tasks[q][j], tasks'[q][j])
<1>1. /\ tasks \in [Runs -> [Steps -> TaskRow]]
      /\ \A q \in Runs : \A j \in Steps : tasks[q][j] \in TaskRow
  BY DEF StoreTypeOK
<1> DEFINE row == [tasks[r][i] EXCEPT !.status = "dead"]
<1>2. /\ row.status = "dead" /\ row.attempt = tasks[r][i].attempt
      /\ row.max_attempts = tasks[r][i].max_attempts
  BY <1>1 DEF TaskRow
<1>3. tasks' = [tasks EXCEPT ![r][i] = row]
  BY <1>1 DEF DeadLetter
<1>4. \A q \in Runs : \A j \in Steps : EndKept(tasks[q][j], tasks[q][j])
  BY <1>1, RowEndKept
<1> HIDE DEF row
<1> QED BY <1>1, <1>2, <1>3, <1>4

LEMMA CommittedStep ==
    ASSUME StoreInv, JobsOK, FenceIsCurrent, CommittedByLastLease, [Next]_vars
    PROVE  CommittedByLastLease'
<1> DEFINE Fits(t) == t.status = "completed" =>
                         t.result.by = t.leased_by /\ t.result.attempt = t.attempt
<1>0. StoreTypeOK /\ \A r \in Runs : \A i \in Steps : Fits(tasks[r][i])
  BY DEF StoreInv, CommittedByLastLease
<1>1. \A t, u : Fits(t) /\ EndKept(t, u) => Fits(u)
  BY DEF EndKept
<1> SUFFICES ASSUME NEW q \in Runs, NEW j \in Steps PROVE Fits(tasks'[q][j])
  BY DEF CommittedByLastLease
<1>2. CASE EndsNothing
  <2>1. EndKept(tasks[q][j], tasks'[q][j])
    BY <1>0, <1>2, EndsNothingKept DEF EndsKept
  <2> HIDE DEF Fits
  <2> QED BY <1>0, <1>1, <2>1
<1>3. ASSUME NEW w \in Workers, pc[w] = "commit", AdvanceJob(w)
      PROVE  Fits(tasks'[q][j])
  <2> DEFINE r == job[w].run
             i == job[w].step
             p == ResultOf(w)
  <2>1. r \in Runs /\ i \in Steps /\ Busy(w)
    BY <1>3 DEF JobsOK, Job, Busy
  <2>2. Advance(r, i, OwnerId[w], p)
    BY <1>3 DEF AdvanceJob
  <2>3. p.by = OwnerId[w] /\ p.attempt = job[w].attempt
    BY DEF ResultOf
  <2>4. HoldsLease(w)
    BY <2>2 DEF Advance, AdvanceNext, AdvanceFinish, HoldsLease
  <2>5. job[w].attempt = tasks[r][i].attempt
    BY <2>1, <2>4 DEF FenceIsCurrent
  <2> HIDE DEF r, i, p
  <2>6. /\ tasks[r][i].leased_by = OwnerId[w]
        /\ tasks'[r][i].leased_by = tasks[r][i].leased_by
        /\ tasks'[r][i].attempt = tasks[r][i].attempt
        /\ tasks'[r][i].result = p
        /\ q # r \/ j # i => EndKept(tasks[q][j], tasks'[q][j])
    BY <1>0, <2>1, <2>2, AdvanceRows
  <2>7. CASE q = r /\ j = i
    BY <2>3, <2>5, <2>6, <2>7
  <2>8. CASE q # r \/ j # i
    <3>1. EndKept(tasks[q][j], tasks'[q][j])
      BY <2>6, <2>8
    <3> HIDE DEF Fits
    <3> QED BY <1>0, <1>1, <3>1
  <2> QED BY <2>7, <2>8
<1>4. ASSUME NEW w \in Workers, pc[w] = "commit", DeadLetterJob(w)
      PROVE  Fits(tasks'[q][j])
  <2> DEFINE r == job[w].run
             i == job[w].step
  <2>1. r \in Runs /\ i \in Steps
    BY <1>4 DEF JobsOK, Job, Busy
  <2>2. DeadLetter(r, i, OwnerId[w])
    BY <1>4 DEF DeadLetterJob
  <2> HIDE DEF r, i
  <2>3. /\ tasks'[r][i].status = "dead"
        /\ q # r \/ j # i => EndKept(tasks[q][j], tasks'[q][j])
    BY <1>0, <2>1, <2>2, DeadLetterRows
  <2>4. CASE q = r /\ j = i
    BY <2>3, <2>4
  <2>5. CASE q # r \/ j # i
    <3>1. EndKept(tasks[q][j], tasks'[q][j])
      BY <2>3, <2>5
    <3> HIDE DEF Fits
    <3> QED BY <1>0, <1>1, <3>1
  <2> QED BY <2>4, <2>5
<1> HIDE DEF Fits
<1> QED BY <1>2, <1>3, <1>4, EngineEnds

(* With distinct worker ids a committed result is the one computed under   *)
(* the last lease of its task: what a worker kept from a lease that had    *)
(* been reclaimed, or from before a replay, is never stored.               *)
THEOREM ResultsAreCurrent ==
    DistinctOwners => (Spec => []CommittedByLastLease)
<1> SUFFICES ASSUME DistinctOwners PROVE Spec => []CommittedByLastLease
  OBVIOUS
<1>1. Init => CommittedByLastLease
  BY DEF Init, StoreInit, CommittedByLastLease, NoTask
<1>2. StoreInv /\ JobsOK /\ FenceIsCurrent /\ CommittedByLastLease /\ [Next]_vars
         => CommittedByLastLease'
  BY CommittedStep
<1>3. Spec => []FenceIsCurrent
  BY FenceAdmitsOnlyCurrent
<1> QED
  BY <1>1, <1>2, <1>3, EngineInvariant, PTL DEF Spec

LEMMA DeadStep ==
    ASSUME StoreInv, JobsOK, FenceIsCurrent, DeadOnlyExhausted, [Next]_vars
    PROVE  DeadOnlyExhausted'
<1> DEFINE Spent(t) == t.status = "dead" => t.attempt >= t.max_attempts
<1>0. StoreTypeOK /\ \A r \in Runs : \A i \in Steps : Spent(tasks[r][i])
  BY DEF StoreInv, DeadOnlyExhausted
<1>1. \A t, u : Spent(t) /\ EndKept(t, u) => Spent(u)
  BY DEF EndKept
<1> SUFFICES ASSUME NEW q \in Runs, NEW j \in Steps PROVE Spent(tasks'[q][j])
  BY DEF DeadOnlyExhausted
<1>2. CASE EndsNothing
  <2>1. EndKept(tasks[q][j], tasks'[q][j])
    BY <1>0, <1>2, EndsNothingKept DEF EndsKept
  <2> HIDE DEF Spent
  <2> QED BY <1>0, <1>1, <2>1
<1>3. ASSUME NEW w \in Workers, pc[w] = "commit", AdvanceJob(w)
      PROVE  Spent(tasks'[q][j])
  <2> DEFINE r == job[w].run
             i == job[w].step
             p == ResultOf(w)
  <2>1. r \in Runs /\ i \in Steps
    BY <1>3 DEF JobsOK, Job, Busy
  <2>2. Advance(r, i, OwnerId[w], p)
    BY <1>3 DEF AdvanceJob
  <2> HIDE DEF r, i, p
  <2>3. /\ tasks'[r][i].status = "completed"
        /\ q # r \/ j # i => EndKept(tasks[q][j], tasks'[q][j])
    BY <1>0, <2>1, <2>2, AdvanceRows
  <2>4. CASE q = r /\ j = i
    BY <2>3, <2>4
  <2>5. CASE q # r \/ j # i
    <3>1. EndKept(tasks[q][j], tasks'[q][j])
      BY <2>3, <2>5
    <3> HIDE DEF Spent
    <3> QED BY <1>0, <1>1, <3>1
  <2> QED BY <2>4, <2>5
<1>4. ASSUME NEW w \in Workers, pc[w] = "commit", DeadLetterJob(w)
      PROVE  Spent(tasks'[q][j])
  <2> DEFINE r == job[w].run
             i == job[w].step
  <2>1. r \in Runs /\ i \in Steps /\ Busy(w)
    BY <1>4 DEF JobsOK, Job, Busy
  <2>2. DeadLetter(r, i, OwnerId[w])
    BY <1>4 DEF DeadLetterJob
  <2>3. job[w].attempt = tasks[r][i].attempt
    BY <2>1, <2>2 DEF FenceIsCurrent, HoldsLease, DeadLetter
  <2>4. tasks[r][i].attempt >= tasks[r][i].max_attempts
    BY <1>4, <2>3 DEF DeadLetterJob, Exhausted
  <2> HIDE DEF r, i
  <2>5. /\ tasks'[r][i].attempt = tasks[r][i].attempt
        /\ tasks'[r][i].max_attempts = tasks[r][i].max_attempts
        /\ q # r \/ j # i => EndKept(tasks[q][j], tasks'[q][j])
    BY <1>0, <2>1, <2>2, DeadLetterRows
  <2>6. CASE q = r /\ j = i
    BY <2>4, <2>5, <2>6
  <2>7. CASE q # r \/ j # i
    <3>1. EndKept(tasks[q][j], tasks'[q][j])
      BY <2>5, <2>7
    <3> HIDE DEF Spent
    <3> QED BY <1>0, <1>1, <3>1
  <2> QED BY <2>6, <2>7
<1> HIDE DEF Spent
<1> QED BY <1>2, <1>3, <1>4, EngineEnds

(* With distinct worker ids a task is given up only after its last         *)
(* permitted attempt, also when a worker that lost its lease comes back    *)
(* with an old attempt number.                                             *)
THEOREM OnlyTheExhaustedDie ==
    DistinctOwners => (Spec => []DeadOnlyExhausted)
<1> SUFFICES ASSUME DistinctOwners PROVE Spec => []DeadOnlyExhausted
  OBVIOUS
<1>1. Init => DeadOnlyExhausted
  BY DEF Init, StoreInit, DeadOnlyExhausted, NoTask
<1>2. StoreInv /\ JobsOK /\ FenceIsCurrent /\ DeadOnlyExhausted /\ [Next]_vars
         => DeadOnlyExhausted'
  BY DeadStep
<1>3. Spec => []FenceIsCurrent
  BY FenceAdmitsOnlyCurrent
<1> QED
  BY <1>1, <1>2, <1>3, EngineInvariant, PTL DEF Spec

----------------------------------------------------------------------------
(* Draining.  As long as processes are only told to stop and handlers only *)
(* stall, a worker leaves its task by concluding it.                       *)
NoBreakdowns == FaultKinds \subseteq {"sigterm", "stall"}

Holder(w, r, i) ==
    /\ Busy(w)
    /\ job[w].run = r /\ job[w].step = i
    /\ job[w].attempt = tasks[r][i].attempt
    /\ HoldsLease(w)

(* What the workers then bring to the store can be written, and a process  *)
(* that is gone has no worker left.                                        *)
HandsOK ==
    /\ \A w \in Workers : pc[w] = "commit" => job[w].outcome \in {"json", "error"}
    /\ \A w \in Workers : proc[ProcOf[w]] \in {"exited", "down"} => pc[w] = "stopped"

LEMMA CalmStep ==
    ASSUME NoBreakdowns
    PROVE  /\ \A w \in Workers : ~WorkerFault(w)
           /\ \A p \in Procs : ~Crash(p)
  BY DEF NoBreakdowns, WorkerFault, LeaseError, NextStepFail, ExecuteOdd,
         CommitError, Crash, Fault

LEMMA HandsStep ==
    ASSUME NoBreakdowns, ProcsOK, JobsOK, HandsOK, [Next]_vars
    PROVE  HandsOK'
<1>p. ProcOf \in [Workers -> Procs]
  BY EngineAssumption
<1>1. ASSUME NEW w \in Workers, Poll(w) \/ LeaseNone(w) PROVE HandsOK'
  BY <1>1 DEF Poll, LeaseNone, HandsOK, JobsOK
<1>2. ASSUME NEW w \in Workers, NEW r \in Runs, NEW i \in Steps, Lease(w, r, i)
      PROVE  HandsOK'
  <2>1. /\ proc' = proc /\ pc[w] = "lease" /\ pc' = [pc EXCEPT ![w] = "exec"]
        /\ \A v \in Workers : v # w => job'[v] = job[v]
    BY <1>2 DEF Lease, JobsOK
  <2> QED BY <2>1 DEF HandsOK, JobsOK
<1>3. ASSUME NEW w \in Workers, NEW oc \in {"json", "error"}, Returns(w, oc),
             proc' = proc
      PROVE  HandsOK'
  <2>1. /\ pc[w] = "exec" /\ pc' = [pc EXCEPT ![w] = "commit"]
        /\ job'[w].outcome = oc
        /\ \A v \in Workers : v # w => job'[v] = job[v]
    BY <1>3 DEF Returns, JobsOK, Job
  <2> QED BY <1>3, <2>1 DEF HandsOK, JobsOK
<1>4. ASSUME NEW w \in Workers, BackToPoll(w) PROVE HandsOK'
  <2>1. /\ proc' = proc /\ pc[w] = "commit" /\ pc' = [pc EXCEPT ![w] = "poll"]
        /\ \A v \in Workers : v # w => job'[v] = job[v]
    BY <1>4 DEF BackToPoll, JobsOK
  <2> QED BY <2>1 DEF HandsOK, JobsOK
<1>5. ASSUME NEW p \in Procs, Sigterm(p) \/ Exit(p) PROVE HandsOK'
  <2>1. /\ pc' = pc /\ job' = job
        /\ \A q \in Procs : q # p => proc'[q] = proc[q]
        /\ \/ proc'[p] = "draining"
           \/ \A w \in Workers : ProcOf[w] = p => pc[w] = "stopped"
    BY <1>5 DEF Sigterm, Exit, ProcsOK, WorkersOf
  <2> QED BY <1>p, <2>1 DEF HandsOK
<1>6. ASSUME NEW p \in Procs, Restart(p) PROVE HandsOK'
  BY <1>6, <1>p DEF Restart, HandsOK, ProcsOK
<1>7. ASSUME UNCHANGED <<proc, pc, job>> PROVE HandsOK'
  BY <1>7 DEF HandsOK
<1>8. ASSUME NEW w \in Workers, ExecuteOk(w) \/ ExecuteFail(w) PROVE HandsOK'
  BY <1>3, <1>8 DEF ExecuteOk, ExecuteFail
<1> QED
  BY <1>1, <1>2, <1>4, <1>5, <1>6, <1>7, <1>8, CalmStep
     DEF Next, WorkerStep, CommitAdvance, CommitRetry, CommitDeadLetter,
         CommitNothing, Reap, ReaperStop, Client, Clock, engineVars, vars

(* A worker with a task in hand still has it after a step, or the step was *)
(* the end of its own transaction.                                         *)
StillHas(w) ==
    /\ Busy(w)'
    /\ job'[w].run = job[w].run
    /\ job'[w].step = job[w].step
    /\ job'[w].attempt = job[w].attempt

Concludes(w) ==
    CommitAdvance(w) \/ CommitRetry(w) \/ CommitDeadLetter(w) \/ CommitNothing(w)

LEMMA HandsKept ==
    ASSUME NoBreakdowns, ProcsOK, JobsOK, HandsOK, [Next]_vars,
           NEW v \in Workers, Busy(v)
    PROVE  StillHas(v) \/ Concludes(v)
<1>1. ASSUME NEW w \in Workers, Poll(w) \/ LeaseNone(w) PROVE StillHas(v)
  BY <1>1 DEF Poll, LeaseNone, StillHas, JobsOK, Busy
<1>2. ASSUME NEW w \in Workers, NEW r \in Runs, NEW i \in Steps, Lease(w, r, i)
      PROVE  StillHas(v)
  <2>1. v # w
    BY <1>2 DEF Lease, Busy
  <2> QED BY <1>2, <2>1 DEF Lease, StillHas, JobsOK, Busy
<1>3. ASSUME NEW w \in Workers, NEW oc \in {"json", "error"}, Returns(w, oc)
      PROVE  StillHas(v)
  <2>1. job' = [job EXCEPT ![w] = [job[w] EXCEPT !.outcome = oc]]
    BY <1>3 DEF Returns, JobsOK
  <2>2. /\ job'[v].run = job[v].run
        /\ job'[v].step = job[v].step
        /\ job'[v].attempt = job[v].attempt
    BY <2>1 DEF JobsOK, Job
  <2> QED BY <1>3, <2>2 DEF Returns, JobsOK, Busy, StillHas
<1>4. ASSUME NEW w \in Workers, ExecuteOk(w) \/ ExecuteFail(w) PROVE StillHas(v)
  BY <1>3, <1>4 DEF ExecuteOk, ExecuteFail
<1>5. ASSUME NEW w \in Workers, Concludes(w) PROVE StillHas(v) \/ Concludes(v)
  BY <1>5 DEF Concludes, CommitAdvance, CommitRetry, CommitDeadLetter,
              CommitNothing, BackToPoll, StillHas, JobsOK, Busy
<1>6. ASSUME NEW p \in Procs, Restart(p) PROVE StillHas(v)
  <2>1. ProcOf[v] # p
    BY <1>6 DEF Restart, HandsOK, Busy
  <2> QED BY <1>6, <2>1 DEF Restart, StillHas, JobsOK, Busy
<1>7. ASSUME UNCHANGED <<pc, job>> PROVE StillHas(v)
  BY <1>7 DEF StillHas, Busy
<1> QED
  BY <1>1, <1>2, <1>4, <1>5, <1>6, <1>7, CalmStep
     DEF Next, WorkerStep, Concludes, Reap, ReaperStop, Sigterm, Exit, Client,
         Clock, engineVars, vars

(* A worker that concludes its task holding its lease leaves it unleased.  *)
LEMMA ConcludedIsReleased ==
    ASSUME StoreTypeOK, JobsOK, HandsOK, NEW w \in Workers, Concludes(w),
           HoldsLease(w)
    PROVE  tasks'[job[w].run][job[w].step].status # "leased"
<1>1. pc[w] = "commit"
  BY DEF Concludes, CommitAdvance, CommitRetry, CommitDeadLetter, CommitNothing,
         BackToPoll
<1> DEFINE r == job[w].run
           i == job[w].step
<1>2. r \in Runs /\ i \in Steps
  BY <1>1 DEF JobsOK, Job, Busy
<1>3. ~CommitNothing(w)
  BY <1>1 DEF CommitNothing, Writable, HandsOK
<1>4. CASE CommitAdvance(w)
  <2>1. Advance(r, i, OwnerId[w], ResultOf(w))
    BY <1>4 DEF CommitAdvance, AdvanceJob
  <2> HIDE DEF r, i
  <2>2. tasks'[r][i].status = "completed"
    BY <1>2, <2>1, AdvanceRows
  <2> QED BY <2>2 DEF r, i
<1>5. CASE CommitRetry(w)
  <2>1. PICK d : Retry(r, i, OwnerId[w], d)
    BY <1>5 DEF CommitRetry, RetryJob
  <2> HIDE DEF r, i
  <2>2. tasks[r][i] \in TaskRow /\ tasks \in [Runs -> [Steps -> TaskRow]]
    BY <1>2 DEF StoreTypeOK
  <2>3. tasks'[r][i] = [BackToPending(tasks[r][i]) EXCEPT !.available_at = d]
    BY <1>2, <2>1, <2>2 DEF Retry
  <2>4. tasks'[r][i].status # "leased"
    BY <2>2, <2>3, RowStatus
  <2> QED BY <2>4 DEF r, i
<1>6. CASE CommitDeadLetter(w)
  <2>1. DeadLetter(r, i, OwnerId[w])
    BY <1>6 DEF CommitDeadLetter, DeadLetterJob
  <2> HIDE DEF r, i
  <2>2. tasks'[r][i].status = "dead"
    BY <1>2, <2>1, DeadLetterRows
  <2> QED BY <2>2 DEF r, i
<1> QED BY <1>3, <1>4, <1>5, <1>6 DEF Concludes

LEMMA CalmEngineStep ==
    ASSUME NoBreakdowns, JobsOK, [Next]_vars
    PROVE  \/ \E w \in Workers : \E r \in Runs : \E i \in Steps : Lease(w, r, i)
           \/ NoLeaseNext
           \/ UNCHANGED storeVars
<1>1. ASSUME NEW w \in Workers, WorkerStep(w)
      PROVE  \/ \E r \in Runs : \E i \in Steps : Lease(w, r, i)
             \/ NoLeaseNext \/ UNCHANGED storeVars
  BY <1>1, CommitStep
     DEF WorkerStep, Poll, LeaseNone, ExecuteOk, ExecuteFail,
         CommitAdvance, CommitRetry, CommitDeadLetter, CommitNothing
<1>2. ASSUME NEW p \in Procs,
             Reap(p) \/ ReaperStop(p) \/ Sigterm(p) \/ Exit(p) \/ Crash(p) \/ Restart(p)
      PROVE  NoLeaseNext \/ UNCHANGED storeVars
  BY <1>2 DEF Reap, ReaperStop, Sigterm, Exit, Crash, Restart, NoLeaseNext
<1>3. CASE Client \/ Clock
  BY <1>3 DEF Client, Clock, NoLeaseNext
<1>4. CASE UNCHANGED vars
  BY <1>4 DEF vars, storeVars
<1> QED
  BY <1>1, <1>2, <1>3, <1>4, CalmStep DEF Next

LEMMA HolderStep ==
    ASSUME NoBreakdowns, StoreInv, ProcsOK, JobsOK, HandsOK, NoAbandonedLease,
           [Next]_vars
    PROVE  NoAbandonedLease'
<1> SUFFICES ASSUME NEW r \in Runs, NEW i \in Steps, tasks'[r][i].status = "leased"
             PROVE  \E w \in Workers : Holder(w, r, i)'
  BY DEF NoAbandonedLease, Holder
<1>t. StoreTypeOK /\ tasks \in [Runs -> [Steps -> TaskRow]]
  BY DEF StoreInv, StoreTypeOK
<1>1. ASSUME LeaseKept(tasks[r][i], tasks'[r][i])
      PROVE  \E w \in Workers : Holder(w, r, i)'
  <2>1. /\ tasks[r][i].status = "leased"
        /\ tasks'[r][i].leased_by = tasks[r][i].leased_by
        /\ tasks'[r][i].attempt = tasks[r][i].attempt
    BY <1>1 DEF LeaseKept
  <2>2. PICK v \in Workers : Holder(v, r, i)
    BY <2>1 DEF NoAbandonedLease, Holder
  <2>3. StillHas(v) \/ Concludes(v)
    BY <2>2, HandsKept DEF Holder
  <2>4. ~Concludes(v)
    BY <1>t, <2>2, ConcludedIsReleased DEF Holder
  <2>5. Holder(v, r, i)'
    BY <2>1, <2>2, <2>3, <2>4 DEF Holder, StillHas, HoldsLease, Fenced
  <2> QED BY <2>5
<1>2. CASE NoLeaseNext \/ UNCHANGED storeVars
  BY <1>1, <1>2, <1>t, LeasesKept
<1>3. ASSUME NEW w \in Workers, NEW q \in Runs, NEW j \in Steps, Lease(w, q, j)
      PROVE  \E x \in Workers : Holder(x, r, i)'
  <2>1. tasks' = [tasks EXCEPT ![q][j] = LeasedTo(tasks[q][j], OwnerId[w])]
    BY <1>3 DEF Lease, LeaseTask
  <2>2. CASE r = q /\ i = j
    <3>1. tasks[r][i] \in TaskRow
      BY <1>t
    <3>2. /\ LeasedTo(tasks[r][i], OwnerId[w]).leased_by = OwnerId[w]
          /\ LeasedTo(tasks[r][i], OwnerId[w]).attempt = tasks[r][i].attempt + 1
      BY <3>1 DEF LeasedTo, TaskRow
    <3>3. tasks'[r][i] = LeasedTo(tasks[r][i], OwnerId[w])
      BY <1>t, <2>1, <2>2
    <3>4. /\ pc'[w] = "exec" /\ job'[w].run = r /\ job'[w].step = i
          /\ job'[w].attempt = tasks[r][i].attempt + 1
      BY <1>3, <2>2 DEF Lease, JobsOK
    <3>5. Holder(w, r, i)'
      BY <3>2, <3>3, <3>4 DEF Holder, Busy, HoldsLease, Fenced
    <3> QED BY <3>5
  <2>3. CASE ~(r = q /\ i = j)
    <3>1. tasks'[r][i] = tasks[r][i]
      BY <1>t, <2>1, <2>3
    <3>2. LeaseKept(tasks[r][i], tasks'[r][i])
      BY <3>1 DEF LeaseKept
    <3> QED BY <1>1, <3>2
  <2> QED BY <2>2, <2>3
<1> QED BY <1>2, <1>3, CalmEngineStep

(* While processes are only told to stop and handlers only stall, a leased *)
(* task is always in the hands of the worker whose lease it is: draining   *)
(* abandons nothing, and a process exits with no lease in its name.        *)
THEOREM DrainingAbandonsNothing ==
    NoBreakdowns => (Spec => []NoAbandonedLease)
<1> SUFFICES ASSUME NoBreakdowns PROVE Spec => []NoAbandonedLease
  OBVIOUS
<1>1. Init => ProcsOK /\ HandsOK /\ NoAbandonedLease
  BY EngineAssumption
     DEF Init, StoreInit, ProcsOK, HandsOK, NoAbandonedLease, NoTask
<1>2. StoreInv /\ JobsOK /\ ProcsOK /\ HandsOK /\ NoAbandonedLease /\ [Next]_vars
         => ProcsOK' /\ HandsOK' /\ NoAbandonedLease'
  BY ProcsStep, HandsStep, HolderStep
<1> QED
  BY <1>1, <1>2, EngineInvariant, PTL DEF Spec

----------------------------------------------------------------------------
(* Backoff.  Powers of two, which no prover knows, are the sizes of        *)
(* powersets: a subset of 1 .. a + b is a subset of 1 .. a and one of      *)
(* 1 .. b, shifted.                                                        *)
LEMMA SubsetPairs ==
    ASSUME NEW a \in Nat, NEW b \in Nat
    PROVE  ExistsBijection((SUBSET (1 .. a)) \X (SUBSET (1 .. b)),
                           SUBSET (1 .. (a + b)))
<1> DEFINE S == (SUBSET (1 .. a)) \X (SUBSET (1 .. b))
           T == SUBSET (1 .. (a + b))
           Glue(x) == x[1] \cup {n \in (a + 1) .. (a + b) : n - a \in x[2]}
           f == [x \in S |-> Glue(x)]
<1>1. f \in [S -> T]
  BY SMT
<1>2. ASSUME NEW x \in S, NEW y \in S, f[x] = f[y] PROVE x = y
  <2>1. Glue(x) = Glue(y)
    BY <1>2
  <2>2. /\ x[1] \subseteq 1 .. a /\ y[1] \subseteq 1 .. a
        /\ x[2] \subseteq 1 .. b /\ y[2] \subseteq 1 .. b
        /\ x = <<x[1], x[2]>> /\ y = <<y[1], y[2]>>
    OBVIOUS
  <2>3. ASSUME NEW n \in 1 .. a PROVE n \in x[1] <=> n \in y[1]
    <3>1. n \in Glue(x) <=> n \in x[1]
      BY SMT
    <3>2. n \in Glue(y) <=> n \in y[1]
      BY SMT
    <3> QED BY <2>1, <3>1, <3>2
  <2>4. ASSUME NEW n \in 1 .. b PROVE n \in x[2] <=> n \in y[2]
    <3>1. n + a \in (a + 1) .. (a + b) /\ n + a \notin 1 .. a /\ (n + a) - a = n
      OBVIOUS
    <3>2. n + a \in Glue(x) <=> n \in x[2]
      BY <2>2, <3>1
    <3>3. n + a \in Glue(y) <=> n \in y[2]
      BY <2>2, <3>1
    <3> QED BY <2>1, <3>2, <3>3
  <2>5. x[1] = y[1]
    BY <2>2, <2>3
  <2>6. x[2] = y[2]
    BY <2>2, <2>4
  <2> QED BY <2>2, <2>5, <2>6
<1>3. ASSUME NEW t \in T PROVE \E x \in S : f[x] = t
  <2> DEFINE lo == {n \in 1 .. a : n \in t}
             hi == {n \in 1 .. b : n + a \in t}
             x == <<lo, hi>>
  <2>1. x \in S /\ x[1] = lo /\ x[2] = hi
    OBVIOUS
  <2>2. ASSUME NEW n \in Int PROVE n \in Glue(x) <=> n \in t
    <3>1. CASE n \in 1 .. a
      BY <2>1, <3>1
    <3>2. CASE n \in (a + 1) .. (a + b)
      BY <2>1, <3>2
    <3>3. CASE n \notin 1 .. (a + b)
      BY <2>1, <3>3
    <3> QED BY <3>1, <3>2, <3>3
  <2>3. t \subseteq Int /\ Glue(x) \subseteq Int
    BY <2>1
  <2>4. Glue(x) = t
    BY <2>2, <2>3
  <2>5. f[x] = t
    BY <2>1, <2>4
  <2> HIDE DEF x, f, S
  <2> QED BY <2>1, <2>5
<1> HIDE DEF f, S, T
<1>4. f \in Bijection(S, T)
  BY <1>1, <1>2, <1>3 DEF Bijection, Injection, Surjection, IsInjective
<1> USE DEF f, S, T
<1> QED BY <1>4 DEF ExistsBijection

LEMMA PowerOfSum ==
    ASSUME NEW a \in Nat, NEW b \in Nat
    PROVE  2 ^ (a + b) = 2 ^ a * 2 ^ b
<1> DEFINE S == SUBSET (1 .. a)
           T == SUBSET (1 .. b)
<1>0. /\ IsFiniteSet(S) /\ Cardinality(S) = 2 ^ a
      /\ IsFiniteSet(T) /\ Cardinality(T) = 2 ^ b
  BY PowerIsCount
<1>1. /\ IsFiniteSet(S \X T)
      /\ Cardinality(S \X T) = 2 ^ a * 2 ^ b
  <2> HIDE DEF S, T
  <2>1. /\ IsFiniteSet(S \X T)
        /\ Cardinality(S \X T) = Cardinality(S) * Cardinality(T)
    BY <1>0, FS_Product
  <2> QED BY <1>0, <2>1
<1>2. Cardinality(SUBSET (1 .. (a + b))) = 2 ^ a * 2 ^ b
  BY <1>1, SubsetPairs, FS_Bijection
<1>3. a + b \in Nat
  OBVIOUS
<1> QED BY <1>2, <1>3, PowerIsCount

LEMMA PowerOfOne == 2 ^ 1 = 2
<1>1. 1 .. 1 = {1}
  BY SMT
<1>2. SUBSET {1} = {{}, {1}}
  OBVIOUS
<1>3. IsFiniteSet({{}}) /\ Cardinality({{}}) = 1
  BY FS_Singleton
<1>4. {{}, {1}} = {{}} \cup {{1}} /\ {1} \notin {{}}
  OBVIOUS
<1>5. Cardinality({{}} \cup {{1}}) = Cardinality({{}}) + 1
  BY <1>3, <1>4, FS_AddElement
<1>6. Cardinality(SUBSET (1 .. 1)) = 2 ^ 1
  BY PowerIsCount
<1>7. 2 ^ 1 = Cardinality({{}}) + 1
  BY <1>1, <1>2, <1>4, <1>5, <1>6
<1> QED BY <1>3, <1>7

(* A multiple of P is not between 0 and P.                                 *)
LEMMA MultipleApart ==
    ASSUME NEW P \in Nat, P >= 1, NEW c \in Int
    PROVE  P * c <= 0 \/ P * c >= P
<1>1. CASE c <= 0
  BY <1>1
<1>2. CASE c >= 1
  BY <1>2
<1> QED BY <1>1, <1>2

LEMMA RemainderOf ==
    ASSUME NEW x \in Nat, NEW M \in Nat, M >= 1
    PROVE  /\ x % M \in Nat /\ x % M < M
           /\ \E q \in Int : x % M = x - M * q
           /\ x < M => x % M = x
<1>1. x % M \in Nat /\ x % M < M
  BY SMT
<1>2. x % M = x - M * (x \div M) /\ x \div M \in Int
  BY SMT
<1>3. x < M => x % M = x
  BY SMT
<1> QED BY <1>1, <1>2, <1>3

(* The base is an odd factor times a power of two, and the factor leaves   *)
(* room above the cap in the word: a multiple that has wrapped is then one *)
(* of a power of two beyond the cap.  500 ms is 1953125 * 2^8 ns, and      *)
(* 1953125 times a cap of 5 min is below 2^63 ns.                          *)
BaseLeavesRoom ==
    \E m \in Nat \ {0}, k \in Nat :
        /\ BackoffBase = m * 2 ^ k
        /\ MaxBackoff * m < 2 ^ (DurationBits - 1)

(* The machine's shift and the exponential law, below the word and beyond. *)
LEMMA WrappedIsBeyond ==
    ASSUME BaseLeavesRoom, NEW attempt \in Nat, attempt >= 1
    PROVE  LET x == BackoffBase * 2 ^ (attempt - 1)
           IN  /\ x \in Nat /\ x >= 1
               /\ Shifted(attempt) \in Int
               /\ \/ Shifted(attempt) = x
                  \/ /\ x > MaxBackoff
                     /\ Shifted(attempt) <= 0 \/ Shifted(attempt) > MaxBackoff
<1> DEFINE s == attempt - 1
           D == DurationBits
           H == 2 ^ (D - 1)
           M == 2 ^ D
           x == BackoffBase * 2 ^ s
           u == x % M
<1>1. PICK m \in Nat \ {0}, k \in Nat :
          BackoffBase = m * 2 ^ k /\ MaxBackoff * m < H
  BY DEF BaseLeavesRoom
<1> DEFINE P == 2 ^ (k + s)
<1>2. s \in Nat /\ D \in Nat /\ D - 1 \in Nat /\ k + s \in Nat
  BY EngineAssumption
<1>3. /\ H \in Nat /\ H >= 1 /\ M \in Nat /\ M >= 1 /\ P \in Nat /\ P >= 1
      /\ 2 ^ s \in Nat /\ 2 ^ s >= 1 /\ 2 ^ k \in Nat /\ 2 ^ k >= 1
  BY <1>2, PowerPositive
<1>4. M = H + H
  <2>1. (D - 1) + 1 = D
    BY <1>2
  <2>2. 2 ^ ((D - 1) + 1) = 2 ^ (D - 1) * 2 ^ 1
    BY <1>2, PowerOfSum
  <2> QED BY <1>3, <2>1, <2>2, PowerOfOne
<1>5. x = m * P
  <2>1. P = 2 ^ k * 2 ^ s
    BY <1>2, PowerOfSum
  <2> QED BY <1>1, <1>3, <2>1
<1>6. MaxBackoff \in Nat /\ MaxBackoff < H /\ BackoffBase \in Nat /\ BackoffBase >= 1
  BY EngineAssumption, StoreAssumption
<1>7. Shifted(attempt) = IF u >= H THEN u - M ELSE u
  BY DEF Shifted
<1>8. x \in Nat /\ x >= 1
  <2> HIDE DEF H, M, P, s, D
  <2> QED BY <1>3, <1>6
<1>9. /\ u \in Nat /\ u < M /\ (x < M => u = x)
      /\ \E q \in Int : u = x - M * q
  <2> HIDE DEF x, M
  <2> QED BY <1>3, <1>8, RemainderOf
<1>10. CASE x < H
  <2> HIDE DEF x, u, M, H
  <2>1. Shifted(attempt) = x
    BY <1>3, <1>4, <1>7, <1>8, <1>9, <1>10
  <2> QED BY <1>8, <2>1 DEF x
<1>11. CASE x >= H
  <2>1. P > MaxBackoff
    <3> HIDE DEF P, H, x
    <3>1. m * P > MaxBackoff * m
      BY <1>1, <1>3, <1>5, <1>6, <1>8, <1>11
    <3>2. P <= MaxBackoff => m * P <= MaxBackoff * m
      BY <1>3, <1>6
    <3> QED BY <1>1, <1>3, <1>6, <3>1, <3>2
  <2>2. \E c \in Int : Shifted(attempt) = P * c
    <3>1. CASE k + s < D
      <4> DEFINE Q == 2 ^ (D - (k + s))
      <4>1. D - (k + s) \in Nat /\ (k + s) + (D - (k + s)) = D
        BY <1>2, <3>1
      <4>2. Q \in Nat /\ M = P * Q
        BY <1>2, <4>1, PowerOfSum, PowerPositive
      <4>3. PICK q \in Int : u = x - M * q
        BY <1>9
      <4> HIDE DEF P, Q, M, u, x, H
      <4>4. u = P * (m - Q * q) /\ m - Q * q \in Int
        <5>1. M * q = P * (Q * q)
          BY <1>3, <4>2
        <5> QED BY <1>1, <1>3, <1>5, <4>2, <4>3, <5>1
      <4>5. u - M = P * ((m - Q * q) - Q) /\ (m - Q * q) - Q \in Int
        BY <1>1, <1>3, <4>2, <4>4
      <4> QED BY <1>7, <4>4, <4>5
    <3>2. CASE k + s >= D
      <4> DEFINE R == 2 ^ ((k + s) - D)
      <4>1. (k + s) - D \in Nat /\ D + ((k + s) - D) = k + s
        BY <1>2, <3>2
      <4>2. R \in Nat /\ P = M * R
        BY <1>2, <4>1, PowerOfSum, PowerPositive
      <4>3. PICK q \in Int : u = x - M * q
        BY <1>9
      <4> HIDE DEF P, R, M, u, x, H
      <4>4. u = M * (m * R - q) /\ m * R - q \in Int
        BY <1>1, <1>3, <1>5, <4>2, <4>3
      <4>5. u <= 0 \/ u >= M
        BY <1>3, <4>4, MultipleApart
      <4>6. u = 0
        BY <1>3, <1>9, <4>5
      <4>7. Shifted(attempt) = P * 0
        BY <1>3, <1>7, <4>6
      <4> QED BY <4>7
    <3> QED BY <1>2, <3>1, <3>2
  <2>3. PICK c \in Int : Shifted(attempt) = P * c
    BY <2>2
  <2> HIDE DEF P, H, x
  <2>4. Shifted(attempt) <= 0 \/ Shifted(attempt) >= P
    BY <1>3, <2>3, MultipleApart
  <2>5. x > MaxBackoff /\ Shifted(attempt) \in Int
    BY <1>3, <1>6, <1>8, <1>11, <2>3
  <2>6. Shifted(attempt) <= 0 \/ Shifted(attempt) > MaxBackoff
    BY <1>3, <1>6, <2>1, <2>4, <2>5
  <2> QED BY <1>8, <2>5, <2>6 DEF x
<1> QED
  <2> HIDE DEF H, x
  <2>1. x < H \/ x >= H
    BY <1>3, <1>8
  <2> QED BY <1>10, <1>11, <2>1

LEMMA DelaysFollowTheLaw ==
    ASSUME BaseLeavesRoom, NEW attempt \in Nat, attempt >= 1
    PROVE  BackoffDelays(attempt) =
               0 .. Min({MaxBackoff, BackoffBase * 2 ^ (attempt - 1)})
<1> DEFINE x == BackoffBase * 2 ^ (attempt - 1)
           y == Shifted(attempt)
           low == IF x <= MaxBackoff THEN x ELSE MaxBackoff
<1>1. /\ x \in Nat /\ x >= 1 /\ y \in Int
      /\ \/ y = x
         \/ /\ x > MaxBackoff
            /\ y <= 0 \/ y > MaxBackoff
  BY WrappedIsBeyond
<1>2. MaxBackoff \in Nat
  BY StoreAssumption
<1>3. Exp(attempt) = IF y <= 0 \/ y > MaxBackoff THEN MaxBackoff ELSE y
  BY DEF Exp
<1> HIDE DEF x, y
<1>4. Exp(attempt) = low /\ low \in 0 .. MaxBackoff
  BY <1>1, <1>2, <1>3
<1>5. Min({MaxBackoff, x}) = low
  <2>1. low \in {MaxBackoff, x} /\ \A z \in {MaxBackoff, x} : low <= z
    BY <1>1, <1>2
  <2>2. \A a, b \in {MaxBackoff, x} : a <= b /\ b <= a => a = b
    BY <1>1, <1>2
  <2> HIDE DEF low
  <2> QED BY <2>1, <2>2 DEF Min
<1> HIDE DEF low
<1>6. BackoffDelays(attempt) = 0 .. low
  BY <1>2, <1>4 DEF BackoffDelays
<1> QED BY <1>5, <1>6 DEF x

(* The retry delays follow the exponential law up to the cap for every     *)
(* attempt, also where the shift runs into the sign bit or out of the      *)
(* word, for every base that leaves room for it.                           *)
THEOREM BackoffIsCapped ==
    BaseLeavesRoom => (Spec => []BackoffCapped)
<1> SUFFICES ASSUME BaseLeavesRoom PROVE Spec => []BackoffCapped
  OBVIOUS
<1>1. JobsOK => BackoffCapped
  <2> SUFFICES ASSUME JobsOK, NEW w \in Workers, pc[w] = "commit"
               PROVE  BackoffDelays(job[w].attempt) =
                        0 .. Min({MaxBackoff,
                                  BackoffBase * 2 ^ (job[w].attempt - 1)})
    BY DEF BackoffCapped
  <2>1. job[w].attempt \in Nat /\ job[w].attempt >= 1
    BY StoreAssumption DEF JobsOK, Busy
  <2> QED BY <2>1, DelaysFollowTheLaw
<1> QED BY <1>1, EngineInvariant, PTL

=============================================================================
