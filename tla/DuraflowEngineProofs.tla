------------------------ MODULE DuraflowEngineProofs ------------------------
(***************************************************************************)
(* Proofs about DuraflowEngine: its steps are transactions of the store,   *)
(* so the store's theorems hold of it; and, when no two workers share an   *)
(* id, the owner fence admits only the current attempt.                    *)
(***************************************************************************)
EXTENDS DuraflowEngine, DuraflowStoreProofs

(* A worker with a task in hand knows which task and which attempt.        *)
JobsOK ==
    /\ pc \in [Workers -> {"poll", "lease", "exec", "commit", "stopped"}]
    /\ job \in [Workers -> Job]
    /\ \A w \in Workers : Busy(w) =>
          job[w].run \in Runs /\ job[w].attempt \in 1 .. AttemptLimit

LEMMA JobsInit == Init => JobsOK
<1> SUFFICES ASSUME Init PROVE JobsOK
  OBVIOUS
<1>1. NoJob \in Job
  BY TypesAssumption DEF NoJob, Job, Steps
<1> QED
  BY <1>1 DEF Init, JobsOK, Busy

(* What a worker's own step makes of its pc and job.                       *)
LEMMA JobsStep ==
    ASSUME StoreTypeOK, JobsOK, [Next]_vars
    PROVE  JobsOK'
<1>0. NoJob \in Job
  BY TypesAssumption DEF NoJob, Job, Steps
<1>1. ASSUME NEW w \in Workers,
             Poll(w) \/ LeaseNone(w) \/ LeaseError(w)
      PROVE  JobsOK'
  BY <1>1 DEF Poll, LeaseNone, LeaseError, JobsOK, Busy
<1>2. ASSUME NEW w \in Workers, NEW r \in Runs, NEW i \in Steps, Lease(w, r, i)
      PROVE  JobsOK'
  <2> DEFINE j == [run |-> r, step |-> i, attempt |-> tasks[r][i].attempt + 1,
                   outcome |-> "none"]
  <2>1. tasks[r][i].attempt \in Nat /\ tasks[r][i].attempt < AttemptLimit
    BY <1>2 DEF Lease, LeaseTask, StoreTypeOK, TaskRow
  <2>2. j \in Job /\ j.run \in Runs /\ j.attempt \in 1 .. AttemptLimit
    BY <2>1, StoreAssumption DEF Job
  <2>3. job' = [job EXCEPT ![w] = j] /\ pc' = [pc EXCEPT ![w] = "exec"]
    BY <1>2 DEF Lease
  <2> HIDE DEF j
  <2> QED BY <2>2, <2>3 DEF JobsOK, Busy
<1>3. ASSUME NEW w \in Workers, NEW oc \in Forms \cup Errors, Returns(w, oc)
      PROVE  JobsOK'
  <2>1. [job[w] EXCEPT !.outcome = oc] \in Job
    BY <1>3 DEF JobsOK, Job
  <2>2. /\ [job[w] EXCEPT !.outcome = oc].run = job[w].run
        /\ [job[w] EXCEPT !.outcome = oc].attempt = job[w].attempt
    BY DEF JobsOK, Job
  <2> QED BY <1>3, <2>1, <2>2 DEF Returns, JobsOK, Busy
<1>4. ASSUME NEW w \in Workers,
             ExecuteOk(w) \/ ExecuteFail(w) \/ NextStepFail(w) \/ ExecuteOdd(w)
      PROVE  JobsOK'
  BY <1>3, <1>4 DEF ExecuteOk, ExecuteFail, NextStepFail, ExecuteOdd, Forms, Errors
<1>5. ASSUME NEW w \in Workers, BackToPoll(w)
      PROVE  JobsOK'
  BY <1>0, <1>5 DEF BackToPoll, JobsOK, Busy
<1>6. ASSUME NEW p \in Procs, Crash(p)
      PROVE  JobsOK'
  BY <1>0, <1>6 DEF Crash, JobsOK, Busy
<1>7. ASSUME NEW p \in Procs, Restart(p)
      PROVE  JobsOK'
  BY <1>7 DEF Restart, JobsOK, Busy
<1>8. ASSUME UNCHANGED <<pc, job>>
      PROVE  JobsOK'
  BY <1>8 DEF JobsOK, Busy
<1> QED
  BY <1>1, <1>2, <1>4, <1>5, <1>6, <1>7, <1>8
     DEF Next, WorkerStep, WorkerFault, CommitAdvance, CommitRetry,
         CommitDeadLetter, CommitNothing, CommitError, Reap, ReaperStop,
         Sigterm, Exit, Client, Clock, engineVars, vars

----------------------------------------------------------------------------
(* The delay of a retry.  Powers of two are numbers: 2 ^ n counts the      *)
(* subsets of a set of n.                                                  *)
LEMMA PowerIsCount ==
    ASSUME NEW n \in Nat
    PROVE  /\ IsFiniteSet(SUBSET (1 .. n))
           /\ Cardinality(SUBSET (1 .. n)) = 2 ^ n
           /\ 2 ^ n \in Nat
<1>1. IsFiniteSet(1 .. n) /\ Cardinality(1 .. n) = n
  BY FS_Interval
<1>2. IsFiniteSet(SUBSET (1 .. n)) /\ Cardinality(SUBSET (1 .. n)) = 2 ^ n
  BY <1>1, FS_SUBSET
<1> QED BY <1>2, FS_CardinalityType

LEMMA PowerPositive ==
    ASSUME NEW n \in Nat
    PROVE  2 ^ n \in Nat /\ 2 ^ n >= 1
<1>1. {} \in SUBSET (1 .. n)
  OBVIOUS
<1>2. Cardinality(SUBSET (1 .. n)) # 0
  BY <1>1, PowerIsCount, FS_EmptySet
<1>3. 2 ^ n \in Nat /\ 2 ^ n # 0
  BY <1>2, PowerIsCount
<1> QED BY <1>3

LEMMA DelaysWithinCap ==
    ASSUME NEW attempt \in Nat \ {0}
    PROVE  BackoffDelays(attempt) \subseteq 0 .. MaxBackoff
<1> DEFINE D == DurationBits
           M == 2 ^ D
           x == BackoffBase * 2 ^ (attempt - 1)
           u == x % M
<1>1. /\ D \in Nat /\ D - 1 \in Nat /\ attempt - 1 \in Nat
      /\ MaxBackoff \in Nat /\ BackoffBase \in Nat
  BY EngineAssumption, StoreAssumption
<1>2. M \in Nat /\ M >= 1 /\ 2 ^ (attempt - 1) \in Nat
  BY <1>1, PowerPositive
<1>3. x \in Nat
  <2> DEFINE n == 2 ^ (attempt - 1)
  <2> HIDE DEF n
  <2> QED BY <1>1, <1>2 DEF n
<1>4. u \in Int
  <2> HIDE DEF x, M
  <2> QED BY <1>2, <1>3
<1>5. Shifted(attempt) \in {u, u - M}
  BY DEF Shifted
<1>6. Shifted(attempt) \in Int
  <2> HIDE DEF u, M
  <2> QED BY <1>2, <1>4, <1>5
<1>7. Exp(attempt) \in 0 .. MaxBackoff
  BY <1>1, <1>6 DEF Exp
<1> QED BY <1>1, <1>7 DEF BackoffDelays

----------------------------------------------------------------------------
(* Which transaction each step of the engine makes.  The leases are kept   *)
(* apart: they are the only transactions that make a lease.                *)
Leases(w) == \E r \in Runs : \E i \in Steps : LeaseTask(OwnerId[w], r, i)

NoLeaseNext ==
    \/ \E r \in Runs : \E wf \in Workflows : \E key \in Keys \cup {NULL} :
          StartWorkflow(r, wf, key)
    \/ \E r \in Runs : CancelRun(r)
    \/ \E r \in Runs : \E i \in Steps : Replay(r, i)
    \/ \E r \in Runs : \E i \in Steps : \E o \in Owners :
          \/ \E p \in ResultsBy(o) : Advance(r, i, o, p)
          \/ \E d \in 0 .. MaxBackoff : Retry(r, i, o, d)
          \/ DeadLetter(r, i, o)
    \/ ReapExpiredLeases
    \/ Tick

LEMMA CommitStep ==
    ASSUME JobsOK, NEW w \in Workers, BackToPoll(w),
           AdvanceJob(w) \/ RetryJob(w) \/ DeadLetterJob(w)
    PROVE  NoLeaseNext
<1>1. Busy(w)
  BY DEF BackToPoll, Busy
<1>2. /\ job[w] \in Job /\ job[w].run \in Runs /\ job[w].step \in Steps
      /\ job[w].attempt \in 1 .. AttemptLimit
      /\ OwnerId[w] \in Owners
  BY <1>1, EngineAssumption DEF JobsOK, Job
<1>3. CASE AdvanceJob(w)
  <2>1. ResultOf(w) \in ResultsBy(OwnerId[w])
    BY <1>2, <1>3 DEF AdvanceJob, ResultOf, ResultsBy, Forms
  <2> QED BY <1>2, <1>3, <2>1 DEF AdvanceJob, NoLeaseNext
<1>4. CASE RetryJob(w)
  <2>1. PICK d \in BackoffDelays(job[w].attempt) :
            Retry(job[w].run, job[w].step, OwnerId[w], d)
    BY <1>4 DEF RetryJob
  <2>2. d \in 0 .. MaxBackoff
    BY <1>2, <2>1, DelaysWithinCap, StoreAssumption
  <2> QED BY <1>2, <2>1, <2>2 DEF NoLeaseNext
<1>5. CASE DeadLetterJob(w)
  BY <1>2, <1>5 DEF DeadLetterJob, NoLeaseNext
<1> QED BY <1>3, <1>4, <1>5

LEMMA EngineStep ==
    ASSUME JobsOK, [Next]_vars
    PROVE  \/ \E w \in Workers : Leases(w)
           \/ NoLeaseNext
           \/ UNCHANGED storeVars
<1>1. ASSUME NEW w \in Workers, WorkerStep(w)
      PROVE  Leases(w) \/ NoLeaseNext \/ UNCHANGED storeVars
  BY <1>1, CommitStep
     DEF WorkerStep, Poll, Lease, LeaseNone, ExecuteOk, ExecuteFail,
         CommitAdvance, CommitRetry, CommitDeadLetter, CommitNothing, Leases
<1>2. ASSUME NEW w \in Workers, WorkerFault(w)
      PROVE  Leases(w) \/ NoLeaseNext \/ UNCHANGED storeVars
  BY <1>2, CommitStep
     DEF WorkerFault, LeaseError, NextStepFail, ExecuteOdd, CommitError, Leases
<1>3. ASSUME NEW p \in Procs,
             Reap(p) \/ ReaperStop(p) \/ Sigterm(p) \/ Exit(p) \/ Crash(p) \/ Restart(p)
      PROVE  NoLeaseNext \/ UNCHANGED storeVars
  BY <1>3 DEF Reap, ReaperStop, Sigterm, Exit, Crash, Restart, NoLeaseNext
<1>4. CASE Client
  BY <1>4 DEF Client, NoLeaseNext
<1>5. CASE Clock
  BY <1>5 DEF Clock, NoLeaseNext
<1>6. CASE UNCHANGED vars
  BY <1>6 DEF vars, storeVars
<1> QED
  BY <1>1, <1>2, <1>3, <1>4, <1>5, <1>6 DEF Next

LEMMA EngineStepIsStoreStep ==
    ASSUME JobsOK, [Next]_vars
    PROVE  [StoreNext]_storeVars
<1>1. \A w \in Workers : OwnerId[w] \in Owners
  BY EngineAssumption
<1> QED BY <1>1, EngineStep DEF Leases, NoLeaseNext, StoreNext

(* The store's invariant and the jobs' go together through the engine.     *)
LEMMA EngineInvariant == Spec => [](StoreInv /\ JobsOK)
<1>1. Init => StoreInv /\ JobsOK
  BY StoreInitInv, JobsInit DEF Init
<1>2. StoreInv /\ JobsOK /\ [Next]_vars => StoreInv' /\ JobsOK'
  BY JobsStep, EngineStepIsStoreStep, StoreStepInv DEF StoreInv
<1> QED BY <1>1, <1>2, PTL DEF Spec

(* The engine, with crashes, stalls, lost answers and any number of        *)
(* processes, issues only well-formed transactions of the store.           *)
THEOREM EngineRefinesStore == Spec => ImplementsStore
<1>1. Init => StoreInit
  BY DEF Init
<1>2. StoreInv /\ JobsOK /\ [Next]_vars => [StoreNext]_storeVars
  BY EngineStepIsStoreStep
<1> QED
  BY <1>1, <1>2, EngineInvariant, PTL DEF Spec, ImplementsStore, StoreSpec

(* So everything proved of the store holds of the engine, and in           *)
(* particular the promise of WorkflowRun.                                  *)
THEOREM EngineRefinesWorkflowRun ==
    Spec => /\ [](StoreTypeOK /\ RunShape)
            /\ FinalRunsFrozen
            /\ ImplementsWorkflowRun
  BY EngineRefinesStore, StoreSafety, FinalRunsStayFrozen,
     StoreRefinesWorkflowRun, PTL DEF ImplementsStore
----------------------------------------------------------------------------
(* The fence.  A lease that is there after a transaction other than        *)
(* LeaseTask was there before it, with the same owner and attempt.         *)
LeaseKept(t, u) ==
    u.status = "leased" => /\ t.status = "leased"
                           /\ t.leased_by = u.leased_by
                           /\ t.attempt = u.attempt

LEMMA RowLeaseKept ==
    ASSUME NEW t \in TaskRow
    PROVE  /\ LeaseKept(t, t)
           /\ \A p : LeaseKept(t, CompletedWith(t, p))
           /\ LeaseKept(t, BackToPending(t))
           /\ \A d : LeaseKept(t, [BackToPending(t) EXCEPT !.available_at = d])
           /\ LeaseKept(t, Requeued(t))
           /\ \A st \in {"dead", "cancelled"} :
                 LeaseKept(t, [t EXCEPT !.status = st])
           /\ LeaseKept(t, Closer(t))
           /\ \A u : LeaseKept(t, InsertTask(u))
<1>1. /\ Closer(t).status = t.status /\ Closer(t).leased_by = t.leased_by
      /\ Closer(t).attempt = t.attempt
  BY DEF Closer, TaskRow
<1>2. \A st \in {"dead", "cancelled"} : [t EXCEPT !.status = st].status # "leased"
  BY DEF TaskRow
<1> QED
  BY <1>1, <1>2, RowStatus DEF LeaseKept

LEMMA LeasesKept ==
    ASSUME StoreTypeOK, NoLeaseNext \/ UNCHANGED storeVars
    PROVE  \A r \in Runs : \A i \in Steps : LeaseKept(tasks[r][i], tasks'[r][i])
<1>0. \A q \in Runs : \A j \in Steps : tasks[q][j] \in TaskRow
  BY DEF StoreTypeOK
<1>a. tasks \in [Runs -> [Steps -> TaskRow]]
  BY DEF StoreTypeOK
<1> DEFINE Kept == \A q \in Runs : \A j \in Steps :
                       LeaseKept(tasks[q][j], tasks'[q][j])
<1>1. ASSUME NEW r \in Runs, NEW i \in Steps, NEW row,
             tasks' = [tasks EXCEPT ![r][i] = row], LeaseKept(tasks[r][i], row)
      PROVE  Kept
  BY <1>0, <1>1, <1>a, RowLeaseKept
<1>2. ASSUME NEW r \in Runs, NEW wf \in Workflows, NEW key \in Keys \cup {NULL},
             StartWorkflow(r, wf, key)
      PROVE  Kept
  <2>1. 0 \in Steps
    BY TypesAssumption DEF Steps
  <2>2. LeaseKept(tasks[r][0], InsertTask(BuildTask(wf, 0, RunInput)))
    BY <1>0, <2>1, RowLeaseKept
  <2> QED BY <1>1, <1>2, <2>1, <2>2 DEF StartWorkflow, StartRun
<1>3. ASSUME NEW r \in Runs, CancelRun(r)
      PROVE  Kept
  <2>1. \A t \in TaskRow : LeaseKept(t, [t EXCEPT !.status = "cancelled"])
                           /\ LeaseKept(t, t)
    BY RowLeaseKept
  <2> QED BY <1>0, <1>3, <1>a, <2>1 DEF CancelRun
<1>4. ASSUME NEW r \in Runs, NEW i \in Steps, Replay(r, i)
      PROVE  Kept
  <2>1. LeaseKept(tasks[r][i], Requeued(tasks[r][i]))
    BY <1>0, RowLeaseKept
  <2> QED BY <1>1, <1>4, <2>1 DEF Replay, ReplayDeadLetter
<1>5. ASSUME NEW r \in Runs, NEW i \in Steps, NEW o \in Owners,
             NEW p \in ResultsBy(o), Advance(r, i, o, p)
      PROVE  Kept
  <2> DEFINE done == CompletedWith(tasks[r][i], p)
  <2>1. LeaseKept(tasks[r][i], done)
    BY <1>0, RowLeaseKept
  <2>2. ASSUME NEW u, AdvanceNext(r, i, o, p, u)
        PROVE  Kept
    <3> DEFINE next == InsertTask(u)
    <3>0. \A t \in TaskRow : LeaseKept(t, next)
      BY <1>0, RowLeaseKept
    <3>1. tasks' = [tasks EXCEPT ![r][i] = done, ![r][i + 1] = next]
      BY <2>2 DEF AdvanceNext
    <3> HIDE DEF next, done
    <3>2. /\ \A q \in Runs \ {r} : tasks'[q] = tasks[q]
          /\ tasks'[r] = [tasks[r] EXCEPT ![i] = done, ![i + 1] = next]
      BY <1>a, <3>1
    <3>3. ASSUME NEW j \in Steps
          PROVE  LeaseKept(tasks[r][j], tasks'[r][j])
      <4>1. \/ tasks'[r][j] = next
            \/ tasks'[r][j] = tasks[r][j]
            \/ j = i /\ tasks'[r][j] = done
        BY <1>a, <3>2
      <4>2. LeaseKept(tasks[r][j], tasks[r][j])
        BY <1>0, RowLeaseKept
      <4> QED BY <1>0, <2>1, <3>0, <4>1, <4>2
    <3>4. \A q \in Runs : \A j \in Steps : LeaseKept(tasks[q][j], tasks[q][j])
      BY <1>0, RowLeaseKept
    <3> QED BY <3>2, <3>3, <3>4
  <2>3. CASE AdvanceFinish(r, i, o, p)
    BY <1>1, <2>1, <2>3 DEF AdvanceFinish
  <2> QED BY <1>5, <2>2, <2>3 DEF Advance
<1>6. ASSUME NEW r \in Runs, NEW i \in Steps, NEW o \in Owners,
             NEW d \in 0 .. MaxBackoff, Retry(r, i, o, d)
      PROVE  Kept
  <2>1. LeaseKept(tasks[r][i], [BackToPending(tasks[r][i]) EXCEPT !.available_at = d])
    BY <1>0, RowLeaseKept
  <2> QED BY <1>1, <1>6, <2>1 DEF Retry
<1>7. ASSUME NEW r \in Runs, NEW i \in Steps, NEW o \in Owners, DeadLetter(r, i, o)
      PROVE  Kept
  <2>1. LeaseKept(tasks[r][i], [tasks[r][i] EXCEPT !.status = "dead"])
    BY <1>0, RowLeaseKept
  <2>2. tasks' = [tasks EXCEPT ![r][i] = [tasks[r][i] EXCEPT !.status = "dead"]]
    BY <1>7, <1>a DEF DeadLetter
  <2> QED BY <1>1, <2>1, <2>2
<1>8. CASE ReapExpiredLeases
  <2>1. \A t \in TaskRow : LeaseKept(t, BackToPending(t)) /\ LeaseKept(t, t)
    BY RowLeaseKept
  <2>2. PICK taken \in SUBSET ExpiredRows : Reclaim(taken)
    BY <1>8 DEF ReapExpiredLeases
  <2> QED BY <1>0, <2>1, <2>2 DEF Reclaim
<1>9. CASE Tick
  <2>1. \A t \in TaskRow : LeaseKept(t, Closer(t))
    BY RowLeaseKept
  <2> QED BY <1>0, <1>9, <2>1 DEF Tick
<1>10. CASE UNCHANGED storeVars
  BY <1>0, <1>10, RowLeaseKept DEF storeVars
<1> QED
  BY <1>2, <1>3, <1>4, <1>5, <1>6, <1>7, <1>8, <1>9, <1>10 DEF NoLeaseNext
(* Another worker's lease never puts a task in this worker's name.         *)
LEMMA LeasedElsewhere ==
    ASSUME StoreTypeOK, DistinctOwners, NEW v \in Workers, NEW w \in Workers,
           v # w, NEW r \in Runs, NEW i \in Steps, LeaseTask(OwnerId[v], r, i),
           NEW q \in Runs, NEW j \in Steps,
           tasks'[q][j].status = "leased", tasks'[q][j].leased_by = OwnerId[w]
    PROVE  tasks'[q][j] = tasks[q][j]
<1>1. tasks' = [tasks EXCEPT ![r][i] = LeasedTo(tasks[r][i], OwnerId[v])]
  BY DEF LeaseTask
<1>2. LeasedTo(tasks[r][i], OwnerId[v]).leased_by = OwnerId[v]
  <2>1. tasks[r][i] \in TaskRow
    BY DEF StoreTypeOK
  <2> QED BY <2>1 DEF LeasedTo, TaskRow
<1>3. OwnerId[v] # OwnerId[w]
  BY DEF DistinctOwners
<1>4. ~(q = r /\ j = i)
  BY <1>1, <1>2, <1>3 DEF StoreTypeOK
<1> QED BY <1>1, <1>4 DEF StoreTypeOK

(* A worker that is busy after a step has just leased its task, or had it  *)
(* before.                                                                 *)
SameJob(w) ==
    /\ Busy(w)
    /\ job'[w].run = job[w].run
    /\ job'[w].step = job[w].step
    /\ job'[w].attempt = job[w].attempt

LEMMA JobKept ==
    ASSUME JobsOK, [Next]_vars, NEW w \in Workers, Busy(w)'
    PROVE  SameJob(w) \/ \E r \in Runs : \E i \in Steps : Lease(w, r, i)
<1>1. ASSUME NEW v \in Workers, Poll(v) \/ LeaseNone(v) \/ LeaseError(v)
      PROVE  SameJob(w)
  BY <1>1 DEF Poll, LeaseNone, LeaseError, JobsOK, Busy, SameJob
<1>2. ASSUME NEW v \in Workers, NEW r \in Runs, NEW i \in Steps, Lease(v, r, i),
             v # w
      PROVE  SameJob(w)
  BY <1>2 DEF Lease, JobsOK, Busy, SameJob
<1>3. ASSUME NEW v \in Workers, NEW oc \in Forms \cup Errors, Returns(v, oc)
      PROVE  SameJob(w)
  <2>1. job' = [job EXCEPT ![v] = [job[v] EXCEPT !.outcome = oc]]
    BY <1>3 DEF Returns, JobsOK
  <2>2. /\ job'[w].run = job[w].run
        /\ job'[w].step = job[w].step
        /\ job'[w].attempt = job[w].attempt
    BY <2>1 DEF JobsOK, Job
  <2> QED BY <1>3, <2>2 DEF Returns, JobsOK, Busy, SameJob
<1>4. ASSUME NEW v \in Workers,
             ExecuteOk(v) \/ ExecuteFail(v) \/ NextStepFail(v) \/ ExecuteOdd(v)
      PROVE  SameJob(w)
  BY <1>3, <1>4 DEF ExecuteOk, ExecuteFail, NextStepFail, ExecuteOdd, Forms, Errors
<1>5. ASSUME NEW v \in Workers, BackToPoll(v)
      PROVE  SameJob(w)
  BY <1>5 DEF BackToPoll, JobsOK, Busy, SameJob
<1>6. ASSUME NEW p \in Procs, Crash(p) \/ Restart(p)
      PROVE  SameJob(w)
  BY <1>6 DEF Crash, Restart, JobsOK, Busy, SameJob
<1>7. ASSUME UNCHANGED <<pc, job>>
      PROVE  SameJob(w)
  BY <1>7 DEF Busy, SameJob
<1> QED
  BY <1>1, <1>2, <1>4, <1>5, <1>6, <1>7
     DEF Next, WorkerStep, WorkerFault, CommitAdvance, CommitRetry,
         CommitDeadLetter, CommitNothing, CommitError, Reap, ReaperStop,
         Sigterm, Exit, Client, Clock, engineVars, vars

(* A worker with a task in hand is not the one a lease is being made for.  *)
LEMMA LeaseByIdle ==
    ASSUME JobsOK, [Next]_vars, NEW w \in Workers, Busy(w)', SameJob(w)
    PROVE  \/ NoLeaseNext \/ UNCHANGED storeVars
           \/ \E v \in Workers \ {w} : Leases(v)
<1>1. ASSUME NEW v \in Workers, WorkerStep(v) \/ WorkerFault(v)
      PROVE  \/ NoLeaseNext \/ UNCHANGED storeVars
             \/ v # w /\ Leases(v)
  <2>1. CASE pc[v] = "lease"
    <3>1. v # w
      BY <2>1 DEF SameJob, Busy
    <3>2. Leases(v) \/ UNCHANGED storeVars
      BY <1>1, <2>1
         DEF WorkerStep, WorkerFault, Poll, Lease, LeaseNone, LeaseError,
             ExecuteOk, ExecuteFail, NextStepFail, ExecuteOdd, Returns, Leases,
             CommitAdvance, CommitRetry, CommitDeadLetter, CommitNothing,
             CommitError, BackToPoll
    <3> QED BY <3>1, <3>2
  <2>2. CASE pc[v] # "lease"
    BY <1>1, <2>2, CommitStep
       DEF WorkerStep, WorkerFault, Poll, Lease, LeaseNone, LeaseError,
           ExecuteOk, ExecuteFail, NextStepFail, ExecuteOdd, CommitAdvance,
           CommitRetry, CommitDeadLetter, CommitNothing, CommitError
  <2> QED BY <2>1, <2>2
<1>2. ASSUME NEW p \in Procs,
             Reap(p) \/ ReaperStop(p) \/ Sigterm(p) \/ Exit(p) \/ Crash(p) \/ Restart(p)
      PROVE  NoLeaseNext \/ UNCHANGED storeVars
  BY <1>2 DEF Reap, ReaperStop, Sigterm, Exit, Crash, Restart, NoLeaseNext
<1>3. CASE Client \/ Clock
  BY <1>3 DEF Client, Clock, NoLeaseNext
<1>4. CASE UNCHANGED vars
  BY <1>4 DEF vars, storeVars
<1> QED
  BY <1>1, <1>2, <1>3, <1>4 DEF Next

LEMMA FenceStep ==
    ASSUME DistinctOwners, StoreInv, JobsOK, FenceIsCurrent, [Next]_vars
    PROVE  FenceIsCurrent'
<1> SUFFICES ASSUME NEW w \in Workers, Busy(w)', HoldsLease(w)'
             PROVE  job'[w].attempt = tasks'[job'[w].run][job'[w].step].attempt
  BY DEF FenceIsCurrent
<1>t. StoreTypeOK
  BY DEF StoreInv
<1>1. ASSUME NEW r \in Runs, NEW i \in Steps, Lease(w, r, i)
      PROVE  job'[w].attempt = tasks'[job'[w].run][job'[w].step].attempt
  <2>1. /\ job'[w].run = r /\ job'[w].step = i
        /\ job'[w].attempt = tasks[r][i].attempt + 1
    BY <1>1 DEF Lease, JobsOK
  <2>2. tasks[r][i] \in TaskRow
    BY <1>t DEF StoreTypeOK
  <2>3. LeasedTo(tasks[r][i], OwnerId[w]).attempt = tasks[r][i].attempt + 1
    BY <2>2 DEF LeasedTo, TaskRow
  <2>4. tasks'[r][i] = LeasedTo(tasks[r][i], OwnerId[w])
    BY <1>1, <1>t DEF Lease, LeaseTask, StoreTypeOK
  <2> QED BY <2>1, <2>3, <2>4
<1>2. CASE SameJob(w)
  <2> DEFINE r == job[w].run
             i == job[w].step
  <2>1. r \in Runs /\ i \in Steps /\ job'[w].run = r /\ job'[w].step = i
        /\ job'[w].attempt = job[w].attempt
    BY <1>2 DEF SameJob, JobsOK, Job
  <2>2. tasks'[r][i].status = "leased" /\ tasks'[r][i].leased_by = OwnerId[w]
    BY <2>1 DEF HoldsLease, Fenced
  <2>3. LeaseKept(tasks[r][i], tasks'[r][i])
    <3>1. CASE NoLeaseNext \/ UNCHANGED storeVars
      BY <1>t, <2>1, <3>1, LeasesKept
    <3>2. ASSUME NEW v \in Workers \ {w}, Leases(v)
          PROVE  tasks'[r][i] = tasks[r][i]
      BY <1>t, <2>1, <2>2, <3>2, LeasedElsewhere DEF Leases
    <3>3. ASSUME tasks'[r][i] = tasks[r][i]
          PROVE  LeaseKept(tasks[r][i], tasks'[r][i])
      BY <3>3 DEF LeaseKept
    <3> QED BY <1>2, <3>1, <3>2, <3>3, LeaseByIdle
  <2>4. /\ tasks[r][i].status = "leased" /\ tasks[r][i].leased_by = OwnerId[w]
        /\ tasks[r][i].attempt = tasks'[r][i].attempt
    BY <2>2, <2>3 DEF LeaseKept
  <2>5. job[w].attempt = tasks[r][i].attempt
    BY <1>2, <2>4 DEF FenceIsCurrent, SameJob, HoldsLease, Fenced
  <2> QED BY <2>1, <2>4, <2>5
<1> QED
  BY <1>1, <1>2, JobKept

(* With distinct worker ids, comparing the owner alone is enough: a worker *)
(* that passes the fence of Advance, Retry or DeadLetter works on the      *)
(* attempt its row counts, through crashes, restarts under the same ids,   *)
(* reclaims and replays.                                                   *)
THEOREM FenceAdmitsOnlyCurrent ==
    DistinctOwners => (Spec => []FenceIsCurrent)
<1> SUFFICES ASSUME DistinctOwners PROVE Spec => []FenceIsCurrent
  OBVIOUS
<1>1. Init => FenceIsCurrent
  BY DEF Init, FenceIsCurrent, Busy
<1>2. StoreInv /\ JobsOK /\ FenceIsCurrent /\ [Next]_vars => FenceIsCurrent'
  BY FenceStep
<1> QED
  BY <1>1, <1>2, EngineInvariant, PTL DEF Spec

=============================================================================
