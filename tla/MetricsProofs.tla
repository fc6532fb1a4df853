---------------------------- MODULE MetricsProofs ----------------------------
(***************************************************************************)
(* The books a process keeps of its leases balance, and the counters of    *)
(* all processes are backed by the history and by the leases that were     *)
(* taken away, for any number of processes, workers and faults.            *)
(***************************************************************************)
EXTENDS DuraflowMetrics, EngineLeaseProofs

(* The counters run beside the engine.                                     *)
LEMMA MetricsStep ==
    ASSUME [MetricsNext]_metricsVars
    PROVE  [Next]_vars
<1>1. ASSUME NEW w \in Workers, CountedStep(w) PROVE WorkerStep(w)
  BY <1>1 DEF CountedStep, WorkerStep
<1>2. ASSUME NEW w \in Workers, CountedFault(w) PROVE WorkerFault(w)
  BY <1>2 DEF CountedFault, WorkerFault
<1>3. CASE MetricsNext
  BY <1>1, <1>2, <1>3 DEF MetricsNext, CountedReap, CountedRestart, CountedClient, Next
<1>4. CASE UNCHANGED metricsVars
  BY <1>4 DEF metricsVars, vars
<1> QED BY <1>3, <1>4

----------------------------------------------------------------------------
(* When the database answers and takes every document, what a worker       *)
(* brings to the store can be written.                                     *)
Clean == FaultKinds \cap {"db", "payload"} = {}

PlainOutcomes ==
    \A w \in Workers : pc[w] = "commit" => job[w].outcome \in {"json", "error"}

LEMMA PlainStep ==
    ASSUME Clean, JobsOK, PlainOutcomes, [Next]_vars
    PROVE  PlainOutcomes'
<1>1. ASSUME NEW w \in Workers, Poll(w) \/ LeaseNone(w) PROVE PlainOutcomes'
  BY <1>1 DEF Poll, LeaseNone, PlainOutcomes, JobsOK
<1>2. ASSUME NEW w \in Workers, NEW r \in Runs, NEW i \in Steps, Lease(w, r, i)
      PROVE  PlainOutcomes'
  <2>1. /\ pc' = [pc EXCEPT ![w] = "exec"]
        /\ \A v \in Workers : v # w => job'[v] = job[v]
    BY <1>2 DEF Lease, JobsOK
  <2> QED BY <2>1 DEF PlainOutcomes, JobsOK
<1>3. ASSUME NEW w \in Workers, NEW oc \in {"json", "error"}, Returns(w, oc)
      PROVE  PlainOutcomes'
  <2>1. /\ pc' = [pc EXCEPT ![w] = "commit"]
        /\ job'[w].outcome = oc
        /\ \A v \in Workers : v # w => job'[v] = job[v]
    BY <1>3 DEF Returns, JobsOK, Job
  <2> QED BY <1>3, <2>1 DEF PlainOutcomes, JobsOK
<1>4. ASSUME NEW w \in Workers, BackToPoll(w) PROVE PlainOutcomes'
  <2>1. /\ pc' = [pc EXCEPT ![w] = "poll"]
        /\ \A v \in Workers : v # w => job'[v] = job[v]
    BY <1>4 DEF BackToPoll, JobsOK
  <2> QED BY <2>1 DEF PlainOutcomes, JobsOK
<1>5. ASSUME NEW p \in Procs, Crash(p) \/ Restart(p) PROVE PlainOutcomes'
  BY <1>5 DEF Crash, Restart, PlainOutcomes
<1>6. ASSUME UNCHANGED <<pc, job>> PROVE PlainOutcomes'
  BY <1>6 DEF PlainOutcomes
<1>7. ASSUME NEW w \in Workers, ExecuteOk(w) \/ ExecuteFail(w) PROVE PlainOutcomes'
  BY <1>3, <1>7 DEF ExecuteOk, ExecuteFail
<1>8. ASSUME NEW w \in Workers PROVE ~WorkerFault(w)
  BY DEF Clean, WorkerFault, LeaseError, NextStepFail, ExecuteOdd, CommitError, Fault
<1> QED
  BY <1>1, <1>2, <1>4, <1>5, <1>6, <1>7, <1>8
     DEF Next, WorkerStep, CommitAdvance, CommitRetry, CommitDeadLetter,
         CommitNothing, Reap, ReaperStop, Sigterm, Exit, Client, Clock,
         engineVars, vars

----------------------------------------------------------------------------
(* The tasks in hand change with the worker that moves, by one at most.    *)
HasTask(w) ==
    \/ pc[w] = "exec"
    \/ pc[w] = "commit" /\ job[w].outcome \in Forms

One(b) == IF b THEN 1 ELSE 0

Alone(w) ==
    /\ proc' = proc
    /\ \A v \in Workers : v # w => pc'[v] = pc[v] /\ job'[v] = job[v]

LEMMA HandsChange ==
    ASSUME NEW w \in Workers, Alone(w), NEW p \in Procs, IsFiniteSet(InHand(p))
    PROVE  /\ IsFiniteSet(InHand(p)')
           /\ Cardinality(InHand(p)) \in Nat
           /\ Cardinality(InHand(p)') \in Nat
           /\ p # ProcOf[w] => InHand(p)' = InHand(p)
           /\ p = ProcOf[w] =>
                 Cardinality(InHand(p)') + One(HasTask(w))
                    = Cardinality(InHand(p)) + One(HasTask(w)')
<1> DEFINE H == InHand(p)
           G == InHand(p)'
<1>0. IsFiniteSet(H) /\ Cardinality(H) \in Nat
  BY FS_CardinalityType
<1>1. CASE p # ProcOf[w]
  <2>1. G = H
    BY <1>1 DEF Alone, InHand, WorkersOf
  <2> QED BY <1>0, <1>1, <2>1
<1>2. CASE p = ProcOf[w]
  <2>1. w \in H <=> HasTask(w)
    BY <1>2 DEF InHand, WorkersOf, HasTask
  <2>2. G = IF HasTask(w)' THEN H \cup {w} ELSE H \ {w}
    BY <1>2 DEF Alone, InHand, WorkersOf, HasTask
  <2> HIDE DEF H, G
  <2>3. CASE HasTask(w)'
    <3>1. /\ IsFiniteSet(H \cup {w})
          /\ Cardinality(H \cup {w}) =
                IF w \in H THEN Cardinality(H) ELSE Cardinality(H) + 1
      BY <1>0, FS_AddElement
    <3>2. IsFiniteSet(G) /\ Cardinality(G) \in Nat
          /\ Cardinality(G) + One(HasTask(w)) = Cardinality(H) + One(HasTask(w)')
      BY <1>0, <2>1, <2>2, <2>3, <3>1 DEF One
    <3> QED BY <1>0, <1>2, <3>2 DEF H, G
  <2>4. CASE ~HasTask(w)'
    <3>1. /\ IsFiniteSet(H \ {w})
          /\ Cardinality(H \ {w}) =
                IF w \in H THEN Cardinality(H) - 1 ELSE Cardinality(H)
      BY <1>0, FS_RemoveElement
    <3>2. Cardinality(H \ {w}) \in Nat
      BY <3>1, FS_CardinalityType
    <3>3. IsFiniteSet(G) /\ Cardinality(G) \in Nat
          /\ Cardinality(G) + One(HasTask(w)) = Cardinality(H) + One(HasTask(w)')
      BY <1>0, <2>1, <2>2, <2>4, <3>1, <3>2 DEF One
    <3> QED BY <1>0, <1>2, <3>3 DEF H, G
  <2> QED BY <2>3, <2>4
<1> QED BY <1>1, <1>2

----------------------------------------------------------------------------
(* What a worker's step enters in the books of its process.                *)
Counts(w, cs) ==
    LET q == ProcOf[w]
    IN  /\ DOMAIN counters' = Procs
        /\ \A p \in Procs : p # q => counters'[p] = counters[p]
        /\ \A c \in Counter :
              counters'[q][c] = IF c \in cs THEN counters[q][c] + 1
                                            ELSE counters[q][c]

(* The entry matches what becomes of the task in hand.                     *)
Weighs(w, cs) ==
    LET taken == One("TasksLeased" \in cs) + One(HasTask(w))
        settled == One("TasksCompleted" \in cs) + One("TasksFailed" \in cs)
                   + One(HasTask(w)')
    IN  taken >= settled /\ (Clean => taken = settled)

LEMMA IncCounts ==
    ASSUME DOMAIN counters = Procs, NEW w \in Workers, NEW cs, Inc(w, cs)
    PROVE  Counts(w, cs)
<1>1. ProcOf[w] \in Procs
  BY EngineAssumption
<1> QED BY <1>1 DEF Inc, Add, Counts

LEMMA NoneCounted ==
    ASSUME DOMAIN counters = Procs, NEW w \in Workers, UNCHANGED counters
    PROVE  Counts(w, {})
  BY DEF Counts

LEMMA ReturnBooks ==
    ASSUME JobsOK, NEW w \in Workers, NEW oc, Returns(w, oc)
    PROVE  HasTask(w) /\ (HasTask(w)' <=> oc \in Forms)
<1>1. pc'[w] = "commit" /\ job'[w].outcome = oc
  BY DEF Returns, JobsOK, Job
<1> QED BY <1>1 DEF Returns, HasTask

LEMMA CommitBooks ==
    ASSUME JobsOK, NEW w \in Workers, BackToPoll(w)
    PROVE  /\ pc[w] = "commit"
           /\ HasTask(w) <=> job[w].outcome \in Forms
           /\ ~HasTask(w)'
  BY DEF BackToPoll, HasTask, JobsOK

LEMMA WorkerAlone ==
    ASSUME JobsOK, NEW w \in Workers, WorkerStep(w) \/ WorkerFault(w)
    PROVE  Alone(w)
<1>1. CASE Poll(w) \/ LeaseNone(w) \/ LeaseError(w)
  BY <1>1 DEF Poll, LeaseNone, LeaseError, Alone, JobsOK
<1>2. ASSUME NEW r \in Runs, NEW i \in Steps, Lease(w, r, i) PROVE Alone(w)
  BY <1>2 DEF Lease, Alone, JobsOK
<1>3. ASSUME NEW oc, Returns(w, oc), proc' = proc PROVE Alone(w)
  BY <1>3 DEF Returns, Alone, JobsOK
<1>4. CASE BackToPoll(w)
  BY <1>4 DEF BackToPoll, Alone, JobsOK
<1> QED
  BY <1>1, <1>2, <1>3, <1>4
     DEF WorkerStep, WorkerFault, ExecuteOk, ExecuteFail, NextStepFail, ExecuteOdd,
         CommitAdvance, CommitRetry, CommitDeadLetter, CommitNothing, CommitError

LEMMA StepBooks ==
    ASSUME DOMAIN counters = Procs, JobsOK, Clean => PlainOutcomes,
           NEW w \in Workers, CountedStep(w)
    PROVE  \E cs : Counts(w, cs) /\ Weighs(w, cs)
<1>1. CASE (Poll(w) \/ LeaseNone(w)) /\ UNCHANGED counters
  <2>1. ~HasTask(w) /\ ~HasTask(w)'
    BY <1>1 DEF Poll, LeaseNone, HasTask, JobsOK
  <2>2. Weighs(w, {})
    BY <2>1 DEF Weighs, One
  <2> QED BY <1>1, <2>2, NoneCounted
<1>2. CASE CommitRetry(w) /\ UNCHANGED counters
  <2>1. ~HasTask(w) /\ ~HasTask(w)'
    BY <1>2, CommitBooks DEF CommitRetry, RetryJob, Forms
  <2>2. Weighs(w, {})
    BY <2>1 DEF Weighs, One
  <2> QED BY <1>2, <2>2, NoneCounted
<1>3. ASSUME NEW r \in Runs, NEW i \in Steps, Lease(w, r, i), Inc(w, {"TasksLeased"})
      PROVE  \E cs : Counts(w, cs) /\ Weighs(w, cs)
  <2>1. ~HasTask(w) /\ HasTask(w)'
    BY <1>3 DEF Lease, HasTask, JobsOK
  <2>2. Weighs(w, {"TasksLeased"})
    BY <2>1 DEF Weighs, One
  <2> QED BY <1>3, <2>2, IncCounts
<1>4. CASE ExecuteOk(w) /\ Inc(w, FiredCounters(w))
  <2>1. HasTask(w) /\ HasTask(w)'
    BY <1>4, ReturnBooks DEF ExecuteOk, Forms
  <2>2. Weighs(w, FiredCounters(w))
    BY <2>1 DEF Weighs, One, FiredCounters
  <2> QED BY <1>4, <2>2, IncCounts
<1>5. CASE ExecuteFail(w) /\ Inc(w, {"TasksFailed"})
  <2>1. HasTask(w) /\ ~HasTask(w)'
    BY <1>5, ReturnBooks DEF ExecuteFail, Forms
  <2>2. Weighs(w, {"TasksFailed"})
    BY <2>1 DEF Weighs, One
  <2> QED BY <1>5, <2>2, IncCounts
<1>6. CASE CommitAdvance(w) /\ Inc(w, CompletedCounters(w))
  <2>1. HasTask(w) /\ ~HasTask(w)'
    BY <1>6, CommitBooks DEF CommitAdvance, AdvanceJob
  <2>2. Weighs(w, CompletedCounters(w))
    BY <2>1 DEF Weighs, One, CompletedCounters
  <2> QED BY <1>6, <2>2, IncCounts
<1>7. CASE CommitDeadLetter(w) /\ Inc(w, {"TasksDead"})
  <2>1. ~HasTask(w) /\ ~HasTask(w)'
    BY <1>7, CommitBooks DEF CommitDeadLetter, DeadLetterJob, Forms
  <2>2. Weighs(w, {"TasksDead"})
    BY <2>1 DEF Weighs, One
  <2> QED BY <1>7, <2>2, IncCounts
<1>8. ASSUME CommitNothing(w), NEW cs \in DiscardedCounters(w), Inc(w, cs)
      PROVE  \E ds : Counts(w, ds) /\ Weighs(w, ds)
  <2>1. /\ pc[w] = "commit" /\ ~HasTask(w)'
        /\ HasTask(w) <=> job[w].outcome \in Forms
    BY <1>8, CommitBooks DEF CommitNothing
  <2>2. ~(HoldsLease(w) /\ Writable(w))
    BY <1>8 DEF CommitNothing
  <2>3. CASE cs = CompletedCounters(w) /\ job[w].outcome \in {"json", "null"}
    <3>1. HasTask(w)
      BY <2>1, <2>3 DEF Forms
    <3>2. Weighs(w, cs)
      BY <2>1, <2>3, <3>1 DEF Weighs, One, CompletedCounters
    <3> QED BY <1>8, <3>2, IncCounts
  <2>4. CASE cs \in {{}, {"TasksDead"}} /\ job[w].outcome \in {"error", "raw"}
    <3>1. ~HasTask(w)
      BY <2>1, <2>4 DEF Forms
    <3>2. Weighs(w, cs)
      BY <2>1, <2>4, <3>1 DEF Weighs, One
    <3> QED BY <1>8, <3>2, IncCounts
  <2>5. CASE cs = {} /\ ~Clean
    <3>1. Weighs(w, cs)
      BY <2>1, <2>5 DEF Weighs, One
    <3> QED BY <1>8, <3>1, IncCounts
  <2>6. Clean => ~HoldsLease(w) /\ job[w].outcome \in {"json", "error"}
    BY <2>1, <2>2 DEF PlainOutcomes, Writable
  <2>7. job[w].outcome \in {"none", "json", "null", "invalid", "error", "raw"}
    BY DEF JobsOK, Job, Forms, Errors
  <2>8. CASE Clean
    BY <1>8, <2>3, <2>4, <2>6, <2>8 DEF DiscardedCounters
  <2>9. CASE ~Clean
    BY <1>8, <2>3, <2>4, <2>5, <2>7, <2>9 DEF DiscardedCounters
  <2> QED BY <2>8, <2>9
<1> QED
  BY <1>1, <1>2, <1>3, <1>4, <1>5, <1>6, <1>7, <1>8 DEF CountedStep

LEMMA FaultBooks ==
    ASSUME DOMAIN counters = Procs, JobsOK, NEW w \in Workers, CountedFault(w)
    PROVE  \E cs : Counts(w, cs) /\ Weighs(w, cs)
<1>0. ~Clean
  BY DEF Clean, CountedFault, LeaseError, NextStepFail, ExecuteOdd, CommitError, Fault
<1>1. CASE LeaseError(w) /\ UNCHANGED counters
  <2>1. ~HasTask(w) /\ ~HasTask(w)'
    BY <1>1 DEF LeaseError, HasTask, JobsOK
  <2>2. Weighs(w, {})
    BY <2>1 DEF Weighs, One
  <2> QED BY <1>1, <2>2, NoneCounted
<1>2. CASE CommitError(w) /\ UNCHANGED counters
  <2>1. ~HasTask(w)'
    BY <1>2, CommitBooks DEF CommitError
  <2>2. Weighs(w, {})
    BY <1>0, <2>1 DEF Weighs, One
  <2> QED BY <1>2, <2>2, NoneCounted
<1>3. CASE NextStepFail(w) /\ Inc(w, {"TasksFailed"} \cup FiredCounters(w))
  <2>1. HasTask(w) /\ ~HasTask(w)'
    BY <1>3, ReturnBooks DEF NextStepFail, Forms
  <2>2. Weighs(w, {"TasksFailed"} \cup FiredCounters(w))
    BY <1>0, <2>1 DEF Weighs, One, FiredCounters
  <2> QED BY <1>3, <2>2, IncCounts
<1>4. ASSUME NEW oc \in {"null", "invalid", "raw"}, Returns(w, oc),
             Inc(w, IF job'[w].outcome = "raw" THEN {"TasksFailed"} ELSE {})
      PROVE  \E cs : Counts(w, cs) /\ Weighs(w, cs)
  <2> DEFINE cs == IF job'[w].outcome = "raw" THEN {"TasksFailed"} ELSE {}
  <2>1. HasTask(w) /\ (HasTask(w)' <=> oc # "raw")
    BY <1>4, ReturnBooks DEF Forms
  <2>2. job'[w].outcome = oc
    BY <1>4 DEF Returns, JobsOK, Job
  <2>3. Weighs(w, cs)
    BY <1>0, <2>1, <2>2 DEF Weighs, One
  <2> HIDE DEF cs
  <2> QED BY <1>4, <2>3, IncCounts DEF cs
<1> QED
  BY <1>1, <1>2, <1>3, <1>4 DEF CountedFault, ExecuteOdd

----------------------------------------------------------------------------
(* The books.                                                              *)
Kept == {"TasksLeased", "TasksCompleted", "TasksFailed", "TasksDead", "RunsCompleted"}

Balanced(p) ==
    LET c == counters[p]
        settled == c["TasksCompleted"] + c["TasksFailed"] + Cardinality(InHand(p))
    IN  /\ IsFiniteSet(InHand(p))
        /\ c["TasksLeased"] >= settled
        /\ Clean => c["TasksLeased"] = settled

BooksOK ==
    /\ DOMAIN counters = Procs
    /\ \A p \in Procs : \A c \in Kept : counters[p][c] \in Nat
    /\ \A p \in Procs : Alive(p) => Balanced(p)

LEMMA WorkerBooks ==
    ASSUME BooksOK, JobsOK, Clean => PlainOutcomes,
           NEW w \in Workers, CountedStep(w) \/ CountedFault(w)
    PROVE  BooksOK'
<1> DEFINE q == ProcOf[w]
<1>1. q \in Procs /\ Alone(w)
  BY EngineAssumption, WorkerAlone
     DEF CountedStep, CountedFault, WorkerStep, WorkerFault
<1>2. PICK cs : Counts(w, cs) /\ Weighs(w, cs)
  BY StepBooks, FaultBooks DEF BooksOK
<1>3. /\ DOMAIN counters' = Procs
      /\ \A p \in Procs : p # q => counters'[p] = counters[p]
      /\ \A c \in Kept : counters'[q][c] = IF c \in cs THEN counters[q][c] + 1
                                                        ELSE counters[q][c]
  BY <1>2 DEF Counts, Kept, Counter
<1>4. \A p \in Procs : \A c \in Kept : counters'[p][c] \in Nat
  <2> HIDE DEF q
  <2>1. \A p \in Procs : \A c \in Kept : counters[p][c] \in Nat
    BY DEF BooksOK
  <2>2. ASSUME NEW c \in Kept PROVE counters'[q][c] \in Nat
    BY <1>1, <1>3, <2>1
  <2> QED BY <1>3, <2>1, <2>2
<1>5. ASSUME NEW p \in Procs, Alive(p)'
      PROVE  Balanced(p)'
  <2>1. Alive(p) /\ Balanced(p)
    BY <1>1, <1>5 DEF Alone, Alive, BooksOK
  <2>2. IsFiniteSet(InHand(p))
    BY <2>1 DEF Balanced
  <2>3. /\ IsFiniteSet(InHand(p)')
        /\ Cardinality(InHand(p)) \in Nat
        /\ Cardinality(InHand(p)') \in Nat
        /\ p # q => InHand(p)' = InHand(p)
        /\ p = q => Cardinality(InHand(p)') + One(HasTask(w))
                       = Cardinality(InHand(p)) + One(HasTask(w)')
    BY <1>1, <2>2, HandsChange
  <2>4. CASE p # q
    BY <1>3, <2>1, <2>3, <2>4 DEF Balanced
  <2>5. CASE p = q
    <3> DEFINE l == counters[p]["TasksLeased"]
               c == counters[p]["TasksCompleted"]
               f == counters[p]["TasksFailed"]
               h == Cardinality(InHand(p))
               l1 == counters'[p]["TasksLeased"]
               c1 == counters'[p]["TasksCompleted"]
               f1 == counters'[p]["TasksFailed"]
               h1 == Cardinality(InHand(p)')
               a == One("TasksLeased" \in cs)
               b == One("TasksCompleted" \in cs)
               d == One("TasksFailed" \in cs)
               x == One(HasTask(w))
               y == One(HasTask(w)')
    <3>1. /\ l \in Nat /\ c \in Nat /\ f \in Nat /\ h \in Nat /\ h1 \in Nat
          /\ a \in Nat /\ b \in Nat /\ d \in Nat /\ x \in Nat /\ y \in Nat
      BY <2>3 DEF BooksOK, Kept, One
    <3>2. l1 = l + a /\ c1 = c + b /\ f1 = f + d
      <4>1. /\ "TasksLeased" \in Kept /\ "TasksCompleted" \in Kept
            /\ "TasksFailed" \in Kept
        BY DEF Kept
      <4> HIDE DEF q
      <4> QED BY <1>3, <2>5, <3>1, <4>1 DEF One
    <3>3. h1 + x = h + y
      BY <2>3, <2>5
    <3>4. a + x >= b + d + y /\ (Clean => a + x = b + d + y)
      BY <1>2 DEF Weighs
    <3>5. l >= c + f + h /\ (Clean => l = c + f + h)
      BY <2>1 DEF Balanced
    <3> HIDE DEF l, c, f, h, l1, c1, f1, h1, a, b, d, x, y
    <3>6. l1 >= c1 + f1 + h1 /\ (Clean => l1 = c1 + f1 + h1)
      BY <3>1, <3>2, <3>3, <3>4, <3>5
    <3> QED BY <2>3, <3>6 DEF Balanced, Clean, l1, c1, f1, h1
  <2> QED BY <2>4, <2>5
<1> QED BY <1>3, <1>4, <1>5 DEF BooksOK

(* Nobody else enters anything under a lease or its end, or moves a        *)
(* worker, except where a process goes away or begins anew.                *)
LEMMA OtherBooks ==
    ASSUME BooksOK, DOMAIN counters' = Procs,
           \A p \in Procs : Alive(p)' =>
              /\ Alive(p) /\ InHand(p)' = InHand(p)
              /\ \A c \in Kept : counters'[p][c] = counters[p][c],
           \A p \in Procs : \A c \in Kept : counters'[p][c] = counters[p][c]
    PROVE  BooksOK'
<1>1. /\ "TasksLeased" \in Kept /\ "TasksCompleted" \in Kept
      /\ "TasksFailed" \in Kept
  BY DEF Kept
<1>2. ASSUME NEW p \in Procs, Alive(p)' PROVE Balanced(p)'
  <2>1. Balanced(p) /\ InHand(p)' = InHand(p)
    BY <1>2 DEF BooksOK
  <2>2. /\ counters'[p]["TasksLeased"] = counters[p]["TasksLeased"]
        /\ counters'[p]["TasksCompleted"] = counters[p]["TasksCompleted"]
        /\ counters'[p]["TasksFailed"] = counters[p]["TasksFailed"]
    BY <1>1
  <2> QED BY <2>1, <2>2 DEF Balanced, Clean
<1> QED BY <1>2 DEF BooksOK

LEMMA AddBooks ==
    ASSUME DOMAIN counters = Procs, NEW p \in Procs, NEW cs, NEW n,
           cs \cap Kept = {}, Add(p, cs, n)
    PROVE  /\ DOMAIN counters' = Procs
           /\ \A q \in Procs : \A c \in Kept : counters'[q][c] = counters[q][c]
<1>1. Kept \subseteq Counter
  BY DEF Kept, Counter
<1> QED BY <1>1 DEF Add

LEMMA BooksStep ==
    ASSUME BooksOK, ProcsOK, JobsOK, Clean => PlainOutcomes,
           [MetricsNext]_metricsVars
    PROVE  BooksOK'
<1>d. DOMAIN counters = Procs
  BY DEF BooksOK
<1>1. ASSUME NEW w \in Workers, CountedStep(w) \/ CountedFault(w) PROVE BooksOK'
  BY <1>1, WorkerBooks
<1>2. ASSUME UNCHANGED <<proc, pc, job>>, DOMAIN counters' = Procs,
             \A p \in Procs : \A c \in Kept : counters'[p][c] = counters[p][c]
      PROVE  BooksOK'
  <2>1. \A p \in Procs : InHand(p)' = InHand(p) /\ (Alive(p)' <=> Alive(p))
    BY <1>2 DEF InHand, WorkersOf, Alive
  <2> QED BY <1>2, <2>1, OtherBooks
<1>3. ASSUME NEW p \in Procs, CountedReap(p) PROVE BooksOK'
  <2>1. {"TasksReclaimed"} \cap Kept = {}
    BY DEF Kept
  <2>2. /\ DOMAIN counters' = Procs
        /\ \A q \in Procs : \A c \in Kept : counters'[q][c] = counters[q][c]
    BY <1>d, <1>3, <2>1, AddBooks DEF CountedReap
  <2> QED BY <1>2, <1>3, <2>2 DEF CountedReap, Reap, engineVars
<1>4. CASE CountedClient
  <2>1. {"RunsStarted"} \cap Kept = {}
    BY DEF Kept
  <2>2. /\ DOMAIN counters' = Procs
        /\ \A q \in Procs : \A c \in Kept : counters'[q][c] = counters[q][c]
    BY <1>d, <1>4, <2>1, AddBooks DEF CountedClient
  <2> QED BY <1>2, <1>4, <2>2 DEF CountedClient, Client, engineVars
<1>5. CASE UNCHANGED counters /\ (Clock \/ \E p \in Procs : ReaperStop(p))
  BY <1>2, <1>5, <1>d DEF Clock, ReaperStop
<1>6. ASSUME NEW p \in Procs, Sigterm(p) \/ Exit(p), UNCHANGED counters
      PROVE  BooksOK'
  <2>1. \A q \in Procs : Alive(q)' => Alive(q) /\ InHand(q)' = InHand(q)
    BY <1>6 DEF Sigterm, Exit, Alive, InHand, WorkersOf, ProcsOK
  <2> QED BY <1>6, <1>d, <2>1, OtherBooks
<1>7. ASSUME NEW p \in Procs, Crash(p), UNCHANGED counters
      PROVE  BooksOK'
  <2>1. ASSUME NEW q \in Procs, Alive(q)' PROVE Alive(q) /\ InHand(q)' = InHand(q)
    <3>1. Alive(q) /\ q # p
      BY <1>7, <2>1 DEF Crash, Alive, ProcsOK
    <3>2. InHand(q)' = InHand(q)
      BY <1>7, <3>1 DEF Crash, InHand, WorkersOf
    <3> QED BY <3>1, <3>2
  <2> QED BY <1>7, <1>d, <2>1, OtherBooks
<1>8. ASSUME NEW p \in Procs, CountedRestart(p) PROVE BooksOK'
  <2>1. /\ DOMAIN counters' = Procs
        /\ \A q \in Procs : q # p => counters'[q] = counters[q]
        /\ counters'[p] = NewCounters
    BY <1>8, <1>d DEF CountedRestart
  <2>2. /\ NewCounters["TasksLeased"] = 0 /\ NewCounters["TasksCompleted"] = 0
        /\ NewCounters["TasksFailed"] = 0
        /\ \A c \in Kept : NewCounters[c] \in Nat
    BY DEF NewCounters, Counter, Kept
  <2>3. \A q \in Procs : \A c \in Kept : counters'[q][c] \in Nat
    BY <2>1, <2>2 DEF BooksOK
  <2>4. Balanced(p)'
    <3>1. InHand(p)' = {}
      BY <1>8 DEF CountedRestart, Restart, InHand, WorkersOf
    <3>2. IsFiniteSet({}) /\ Cardinality({}) = 0
      BY FS_EmptySet
    <3> QED BY <2>1, <2>2, <3>1, <3>2 DEF Balanced, Clean
  <2>5. ASSUME NEW q \in Procs, q # p, Alive(q)' PROVE Balanced(q)'
    <3>1. Alive(q) /\ InHand(q)' = InHand(q)
      BY <1>8, <2>5 DEF CountedRestart, Restart, Alive, InHand, WorkersOf
    <3> QED BY <2>1, <2>5, <3>1 DEF BooksOK, Balanced, Clean
  <2> QED BY <2>1, <2>3, <2>4, <2>5 DEF BooksOK
<1>9. CASE UNCHANGED metricsVars
  BY <1>2, <1>9, <1>d DEF metricsVars
<1> QED
  BY <1>1, <1>3, <1>4, <1>5, <1>6, <1>7, <1>8, <1>9 DEF MetricsNext

(* The books stand on the store, the jobs and the processes.               *)
BooksInv ==
    /\ StoreInv /\ JobsOK /\ ProcsOK /\ BooksOK
    /\ Clean => PlainOutcomes

LEMMA BooksInit ==
    ASSUME MetricsInit
    PROVE  BooksInv
<1>1. Init /\ counters = [p \in Procs |-> NewCounters]
  BY DEF MetricsInit
<1>2. StoreInv /\ JobsOK
  BY <1>1, StoreInitInv, JobsInit DEF Init
<1>3. /\ NewCounters["TasksLeased"] = 0 /\ NewCounters["TasksCompleted"] = 0
      /\ NewCounters["TasksFailed"] = 0
      /\ \A c \in Kept : NewCounters[c] \in Nat
  BY DEF NewCounters, Counter, Kept
<1>4. \A p \in Procs : InHand(p) = {}
  BY <1>1 DEF Init, InHand, WorkersOf
<1>5. IsFiniteSet({}) /\ Cardinality({}) = 0
  BY FS_EmptySet
<1>6. \A p \in Procs : Balanced(p)
  BY <1>1, <1>3, <1>4, <1>5 DEF Balanced
<1>7. BooksOK
  BY <1>1, <1>3, <1>6 DEF BooksOK
<1>8. PlainOutcomes
  BY <1>1 DEF Init, PlainOutcomes
<1>9. ProcsOK
  BY <1>1, EngineAssumption DEF Init, ProcsOK
<1> QED BY <1>2, <1>7, <1>8, <1>9 DEF BooksInv

LEMMA BooksNext ==
    ASSUME BooksInv, [MetricsNext]_metricsVars
    PROVE  BooksInv'
<1> USE DEF BooksInv
<1>1. [Next]_vars
  BY MetricsStep
<1>2. [StoreNext]_storeVars
  BY <1>1, EngineStepIsStoreStep
<1>3. StoreInv'
  BY <1>2, StoreStepInv
<1>4. JobsOK'
  BY <1>1, JobsStep DEF StoreInv
<1>5. BooksOK'
  BY BooksStep
<1>6. (Clean => PlainOutcomes)'
  BY <1>1, PlainStep DEF Clean
<1>7. ProcsOK'
  BY <1>1, ProcsStep
<1> QED BY <1>3, <1>4, <1>5, <1>6, <1>7

(* For any number of processes, workers and faults: every task a process   *)
(* leased since it started is counted as completed or failed or is in a    *)
(* worker's hands, unless the database failed or refused a payload, and    *)
(* then it counts no more of them than it leased.                          *)
THEOREM TheBooksBalance == MetricsSpec => []LeasesAccountedFor
<1>1. MetricsInit => BooksInv
  BY BooksInit
<1>2. BooksInv /\ [MetricsNext]_metricsVars => BooksInv'
  BY BooksNext
<1>3. BooksInv => LeasesAccountedFor
  BY DEF BooksInv, BooksOK, Balanced, LeasesAccountedFor, Clean
<1> QED BY <1>1, <1>2, <1>3, PTL DEF MetricsSpec

----------------------------------------------------------------------------
(* What backs the counters.  A deployment has finitely many processes and  *)
(* workers, and a run id is a uuid: what is counted below is finite.       *)
FiniteDeployment == IsFiniteSet(Procs) /\ IsFiniteSet(Workers) /\ IsFiniteSet(Runs)

(* Counting with sets.                                                     *)
LEMMA CountMore ==
    ASSUME NEW S, NEW T, IsFiniteSet(T), S \subseteq T
    PROVE  /\ IsFiniteSet(S) /\ Cardinality(S) \in Nat /\ Cardinality(T) \in Nat
           /\ Cardinality(S) <= Cardinality(T)
  BY FS_Subset, FS_CardinalityType

LEMMA CountOneMore ==
    ASSUME NEW S, NEW T, NEW x, IsFiniteSet(T), S \subseteq T, x \in T, x \notin S
    PROVE  /\ Cardinality(S) \in Nat /\ Cardinality(T) \in Nat
           /\ Cardinality(S) + 1 <= Cardinality(T)
<1>1. IsFiniteSet(S) /\ Cardinality(S) \in Nat /\ Cardinality(T) \in Nat
  BY CountMore
<1>2. Cardinality(S \cup {x}) = Cardinality(S) + 1
  BY <1>1, FS_AddElement
<1>3. S \cup {x} \subseteq T
  OBVIOUS
<1>4. Cardinality(S \cup {x}) <= Cardinality(T)
  BY <1>3, FS_Subset
<1> QED BY <1>1, <1>2, <1>4

LEMMA CountOneLess ==
    ASSUME NEW S, NEW T, NEW x, IsFiniteSet(S), IsFiniteSet(T), S \ {x} \subseteq T
    PROVE  /\ Cardinality(S) \in Nat /\ Cardinality(T) \in Nat
           /\ Cardinality(S) <= Cardinality(T) + One(x \in S)
<1>1. Cardinality(S) \in Nat /\ Cardinality(T) \in Nat
  BY FS_CardinalityType
<1>2. Cardinality(S \ {x}) = IF x \in S THEN Cardinality(S) - 1 ELSE Cardinality(S)
  BY FS_RemoveElement
<1>3. Cardinality(S \ {x}) <= Cardinality(T)
  BY FS_Subset
<1> QED BY <1>1, <1>2, <1>3 DEF One

LEMMA CountApart ==
    ASSUME NEW S, NEW T, IsFiniteSet(S), IsFiniteSet(T), S \cap T = {}
    PROVE  /\ IsFiniteSet(S \cup T)
           /\ Cardinality(S) \in Nat /\ Cardinality(T) \in Nat
           /\ Cardinality(S \cup T) = Cardinality(S) + Cardinality(T)
<1>1. Cardinality(S) \in Nat /\ Cardinality(T) \in Nat
  BY FS_CardinalityType
<1>2. /\ IsFiniteSet(S \cup T)
      /\ Cardinality(S \cup T)
            = Cardinality(S) + Cardinality(T) - Cardinality(S \cap T)
  BY FS_Union
<1>3. Cardinality(S \cap T) = 0
  BY FS_EmptySet
<1> QED BY <1>1, <1>2, <1>3

(* The sets that are counted: the marks of a counter, the places in the    *)
(* histories where an event of a type stands, and the rows of a status.    *)
Marks(cs, c) == UNION {{p} \X (1 .. cs[p][c]) : p \in Procs}

Places(es, type) ==
    UNION {{r} \X {k \in DOMAIN es[r] : es[r][k].type = type} : r \in Runs}

Rows(ts, F, status) == {x \in F : ts[x[1]][x[2]].status = status}

LEMMA CountedSets ==
    /\ \A c : /\ Total(c) = Cardinality(Marks(counters, c))
              /\ Total(c)' = Cardinality(Marks(counters', c))
    /\ \A type : /\ EventCount(type) = Cardinality(Places(events, type))
                 /\ EventCount(type)' = Cardinality(Places(events', type))
  BY DEF Total, EventCount, Marks, Places

(* What is indexed by a finite set is finite if its parts are.             *)
LEMMA FiniteParts ==
    ASSUME NEW I, IsFiniteSet(I), NEW part, \A i \in I : IsFiniteSet(part[i])
    PROVE  IsFiniteSet(UNION {{i} \X part[i] : i \in I})
<1> DEFINE S == {{i} \X part[i] : i \in I}
           f == [i \in I |-> {i} \X part[i]]
<1>1. f \in Surjection(I, S)
  BY DEF Surjection
<1>2. IsFiniteSet(S)
  BY <1>1, FS_Surjection
<1>3. ASSUME NEW T \in S PROVE IsFiniteSet(T)
  <2>1. PICK i \in I : T = {i} \X part[i]
    OBVIOUS
  <2>2. IsFiniteSet({i}) /\ IsFiniteSet(part[i])
    BY FS_Singleton
  <2> QED BY <2>1, <2>2, FS_Product
<1> HIDE DEF S
<1>4. IsFiniteSet(UNION S)
  BY <1>2, <1>3, FS_UNION
<1> QED BY <1>4 DEF S

LEMMA MarksFinite ==
    ASSUME FiniteDeployment, NEW cs, NEW c, \A p \in Procs : cs[p][c] \in Nat
    PROVE  IsFiniteSet(Marks(cs, c))
<1> DEFINE part == [p \in Procs |-> 1 .. cs[p][c]]
<1>1. ASSUME NEW p \in Procs PROVE IsFiniteSet(part[p])
  <2>1. cs[p][c] \in Int
    OBVIOUS
  <2>2. IsFiniteSet(1 .. cs[p][c])
    BY <2>1, FS_Interval
  <2> QED BY <2>2
<1>2. Marks(cs, c) = UNION {{p} \X part[p] : p \in Procs}
  BY DEF Marks
<1> HIDE DEF part
<1> QED BY <1>1, <1>2, FiniteParts DEF FiniteDeployment

LEMMA PlacesFinite ==
    ASSUME FiniteDeployment, NEW es \in [Runs -> Seq(Event)], NEW type
    PROVE  IsFiniteSet(Places(es, type))
<1> DEFINE part == [r \in Runs |-> {k \in DOMAIN es[r] : es[r][k].type = type}]
<1>1. ASSUME NEW r \in Runs PROVE IsFiniteSet(part[r])
  <2>1. es[r] \in Seq(Event)
    OBVIOUS
  <2>2. DOMAIN es[r] = 1 .. Len(es[r]) /\ Len(es[r]) \in Nat
    BY <2>1
  <2>3. IsFiniteSet(1 .. Len(es[r]))
    BY <2>2, FS_Interval
  <2>4. part[r] \subseteq 1 .. Len(es[r])
    BY <2>2
  <2> HIDE DEF part
  <2> QED BY <2>3, <2>4, FS_Subset
<1>2. Places(es, type) = UNION {{r} \X part[r] : r \in Runs}
  BY DEF Places
<1> HIDE DEF part
<1> QED BY <1>1, <1>2, FiniteParts DEF FiniteDeployment

LEMMA RowsFinite ==
    ASSUME FiniteDeployment, NEW F \in SUBSET (Runs \X Steps), NEW ts, NEW status
    PROVE  IsFiniteSet(Rows(ts, F, status))
<1>1. IsFiniteSet(Steps)
  BY TypesAssumption, FS_Interval DEF Steps
<1>2. IsFiniteSet(Runs \X Steps)
  BY <1>1, FS_Product DEF FiniteDeployment
<1>3. Rows(ts, F, status) \subseteq Runs \X Steps
  BY DEF Rows
<1> QED BY <1>2, <1>3, FS_Subset

LEMMA InMarks ==
    ASSUME NEW p \in Procs, NEW cs, NEW c, NEW n
    PROVE  <<p, n>> \in Marks(cs, c) <=> n \in 1 .. cs[p][c]
  BY DEF Marks

LEMMA InPlaces ==
    ASSUME NEW r \in Runs, NEW es, NEW type, NEW k
    PROVE  <<r, k>> \in Places(es, type)
              <=> k \in DOMAIN es[r] /\ es[r][k].type = type
  BY DEF Places

----------------------------------------------------------------------------
(* The store's side.  F is a set of rows: all of them, or those of the     *)
(* last steps.  Of these, the ones a worker has in hand under a lease that *)
(* the fence would admit.                                                  *)
WorkedBy(w, x) == Busy(w) /\ x = <<job[w].run, job[w].step>> /\ HoldsLease(w)

WorkedIn(F) == {x \in F : \E w \in Workers : WorkedBy(w, x)}

CancelledRows == Rows(tasks, Runs \X Steps, "cancelled")

(* A history only grows, and a cancelled task stays cancelled.             *)
HistoryKept ==
    \A r \in Runs : \A k \in DOMAIN events[r] :
        k \in DOMAIN events'[r] /\ events'[r][k] = events[r][k]

LEMMA AppendedKeeps ==
    ASSUME NEW s \in Seq(Event), NEW e \in Event
    PROVE  /\ \A k \in DOMAIN s : k \in DOMAIN Append(s, e) /\ Append(s, e)[k] = s[k]
           /\ Len(s) + 1 \in DOMAIN Append(s, e) /\ Len(s) + 1 \notin DOMAIN s
           /\ Append(s, e)[Len(s) + 1] = e
           /\ Append(s, e) \in Seq(Event) /\ Len(Append(s, e)) = Len(s) + 1
  OBVIOUS

LEMMA AppendedTwice ==
    ASSUME NEW s \in Seq(Event), NEW e \in Event, NEW d \in Event, NEW t,
           t = Append(Append(s, e), d)
    PROVE  /\ \A k \in DOMAIN s : k \in DOMAIN t /\ t[k] = s[k]
           /\ \E k \in DOMAIN t : k \notin DOMAIN s /\ t[k] = e
           /\ \E k \in DOMAIN t : k \notin DOMAIN s /\ t[k] = d
<1> DEFINE u == Append(s, e)
<1>1. /\ u \in Seq(Event) /\ Len(u) = Len(s) + 1 /\ u[Len(s) + 1] = e
      /\ \A k \in DOMAIN s : k \in DOMAIN u /\ u[k] = s[k]
      /\ Len(s) + 1 \in DOMAIN u /\ Len(s) + 1 \notin DOMAIN s
  BY AppendedKeeps
<1> HIDE DEF u
<1>2. t = Append(u, d)
  BY DEF u
<1>3. /\ \A k \in DOMAIN u : k \in DOMAIN t /\ t[k] = u[k]
      /\ Len(u) + 1 \in DOMAIN t /\ Len(u) + 1 \notin DOMAIN u
      /\ t[Len(u) + 1] = d
  BY <1>1, <1>2, AppendedKeeps
<1> QED BY <1>1, <1>3

LEMMA StoreGrows ==
    ASSUME StoreInv, [StoreNext]_storeVars
    PROVE  /\ HistoryKept
           /\ \A r \in Runs : \A i \in Steps :
                 tasks[r][i].status = "cancelled" => tasks'[r][i].status = "cancelled"
<1> SUFFICES ASSUME NEW r \in Runs
             PROVE  /\ \A k \in DOMAIN events[r] :
                          k \in DOMAIN events'[r] /\ events'[r][k] = events[r][k]
                    /\ \A i \in Steps : tasks[r][i].status = "cancelled"
                                          => tasks'[r][i].status = "cancelled"
  BY DEF HistoryKept
<1>0. events[r] \in Seq(Event) /\ Effect(r)
  BY RunEffects DEF StoreInv, StoreTypeOK
<1>n. NoStep \in Steps \cup {NoStep}
  OBVIOUS
<1>t. {"WorkflowStarted", "ActivityScheduled", "ActivityCompleted",
       "WorkflowCompleted", "ActivityDeadLettered", "WorkflowFailed",
       "WorkflowCancelled"} \cup ReturnEvents \subseteq EventType
  BY DEF EventType, ReturnEvents
<1>b. ASSUME NEW e \in Event, NEW d \in Event,
             events'[r] = Append(Append(events[r], e), d)
      PROVE  \A k \in DOMAIN events[r] :
                k \in DOMAIN events'[r] /\ events'[r][k] = events[r][k]
  <2>1. PICK s \in Seq(Event) : s = events[r]
    BY <1>0
  <2>2. PICK t : t = Append(Append(s, e), d)
    OBVIOUS
  <2>3. \A k \in DOMAIN s : k \in DOMAIN t /\ t[k] = s[k]
    BY <2>2, AppendedTwice
  <2>4. events[r] = s /\ events'[r] = t
    BY <1>b, <2>1, <2>2
  <2> QED BY <2>3, <2>4
<1>1. CASE StaysPut(r)
  BY <1>1 DEF StaysPut, StandsStill, Outstanding
<1>2. ASSUME NEW i \in Steps, NEW type \in ReturnEvents, ReturnsTask(r, i, type)
      PROVE  /\ \A k \in DOMAIN events[r] :
                   k \in DOMAIN events'[r] /\ events'[r][k] = events[r][k]
             /\ \A j \in Steps : tasks[r][j].status = "cancelled"
                                   => tasks'[r][j].status = "cancelled"
  <2>1. Ev(type, i) \in Event
    BY <1>t, EventTypes
  <2>2. \A j \in Steps : tasks[r][j].status = "cancelled"
                            => tasks'[r][j].status = "cancelled"
    BY <1>2 DEF ReturnsTask, OtherTasks
  <2> QED BY <1>0, <1>2, <2>1, <2>2, AppendedKeeps DEF ReturnsTask
<1>3. ASSUME NEW key \in Keys \cup {NULL}, StartsRun(r, key)
      PROVE  /\ \A k \in DOMAIN events[r] :
                   k \in DOMAIN events'[r] /\ events'[r][k] = events[r][k]
             /\ \A j \in Steps : tasks[r][j].status = "cancelled"
                                   => tasks'[r][j].status = "cancelled"
  <2>1. Ev("WorkflowStarted", NoStep) \in Event /\ Ev("ActivityScheduled", 0) \in Event
    BY <1>3, <1>t, <1>n, EventTypes DEF StartsRun
  <2>2. \A j \in Steps : tasks[r][j].status # "cancelled"
    BY <1>3 DEF StartsRun
  <2> QED BY <1>b, <1>3, <2>1, <2>2 DEF StartsRun
<1>4. ASSUME NEW i \in Steps, NEW p \in Payload,
             PassesOn(r, i, p) \/ FinishesRun(r, i, p)
      PROVE  /\ \A k \in DOMAIN events[r] :
                   k \in DOMAIN events'[r] /\ events'[r][k] = events[r][k]
             /\ \A j \in Steps : tasks[r][j].status = "cancelled"
                                   => tasks'[r][j].status = "cancelled"
  <2>0. i \in Int
    BY TypesAssumption DEF Steps
  <2>1. \E e, d \in Event : events'[r] = Append(Append(events[r], e), d)
    <3>1. CASE PassesOn(r, i, p)
      BY <1>t, <3>1, EventTypes DEF PassesOn
    <3>2. CASE FinishesRun(r, i, p)
      BY <1>t, <1>n, <3>2, EventTypes DEF FinishesRun
    <3> QED BY <1>4, <3>1, <3>2
  <2>2. \A j \in Steps : tasks[r][j].status = "cancelled"
                            => tasks'[r][j].status = "cancelled"
    BY <1>4, <2>0 DEF PassesOn, FinishesRun, OtherTasks, WorksOn
  <2> QED BY <1>b, <2>1, <2>2
<1>5. ASSUME NEW i \in Steps, FailsRun(r, i)
      PROVE  /\ \A k \in DOMAIN events[r] :
                   k \in DOMAIN events'[r] /\ events'[r][k] = events[r][k]
             /\ \A j \in Steps : tasks[r][j].status = "cancelled"
                                   => tasks'[r][j].status = "cancelled"
  <2>1. Ev("ActivityDeadLettered", i) \in Event /\ Ev("WorkflowFailed", NoStep) \in Event
    BY <1>t, <1>n, EventTypes
  <2>2. \A j \in Steps : tasks[r][j].status = "cancelled"
                            => tasks'[r][j].status = "cancelled"
    BY <1>5 DEF FailsRun, OtherTasks
  <2> QED BY <1>b, <1>5, <2>1, <2>2 DEF FailsRun
<1>6. CASE CancelsRun(r)
  <2>1. Ev("WorkflowCancelled", NoStep) \in Event
    BY <1>t, <1>n, EventTypes
  <2>2. \A j \in Steps : tasks[r][j].status = "cancelled"
                            => tasks'[r][j].status = "cancelled"
    BY <1>6 DEF CancelsRun, Outstanding
  <2> QED BY <1>0, <1>6, <2>1, <2>2, AppendedKeeps DEF CancelsRun
<1> QED BY <1>0, <1>1, <1>2, <1>3, <1>4, <1>5, <1>6 DEF Effect

LEMMA EventsCounted ==
    ASSUME FiniteDeployment, StoreInv, StoreInv', [StoreNext]_storeVars, NEW type
    PROVE  /\ EventCount(type) \in Nat /\ EventCount(type)' \in Nat
           /\ EventCount(type) <= EventCount(type)'
           /\ (\E r \in Runs : \E k \in DOMAIN events'[r] :
                 k \notin DOMAIN events[r] /\ events'[r][k].type = type)
                 => EventCount(type) + 1 <= EventCount(type)'
<1> DEFINE S == Places(events, type)
           T == Places(events', type)
<1>0. events' \in [Runs -> Seq(Event)]
  BY DEF StoreInv, StoreTypeOK
<1>1. IsFiniteSet(T)
  BY <1>0, PlacesFinite
<1>2. S \subseteq T
  BY StoreGrows DEF Places, HistoryKept
<1>3. EventCount(type) = Cardinality(S) /\ EventCount(type)' = Cardinality(T)
  BY CountedSets
<1>4. ASSUME NEW r \in Runs, NEW k \in DOMAIN events'[r],
             k \notin DOMAIN events[r], events'[r][k].type = type
      PROVE  <<r, k>> \in T /\ <<r, k>> \notin S
  BY <1>4, InPlaces
<1> HIDE DEF S, T
<1>5. /\ Cardinality(S) \in Nat /\ Cardinality(T) \in Nat
      /\ Cardinality(S) <= Cardinality(T)
  BY <1>1, <1>2, CountMore
<1>6. (\E r \in Runs : \E k \in DOMAIN events'[r] :
         k \notin DOMAIN events[r] /\ events'[r][k].type = type)
         => Cardinality(S) + 1 <= Cardinality(T)
  BY <1>1, <1>2, <1>4, CountOneMore
<1> QED BY <1>3, <1>5, <1>6

----------------------------------------------------------------------------
(* What is owed: the leases at work and those that were taken away.  N is  *)
(* what a step puts to work and G what it lets go.                         *)
LEMMA LeasesBalance ==
    ASSUME FiniteDeployment, StoreInv, [StoreNext]_storeVars,
           NEW F \in SUBSET (Runs \X Steps), NEW N, NEW G,
           IsFiniteSet(N), IsFiniteSet(G),
           N \cap (WorkedIn(F) \cup CancelledRows) = {}, N \subseteq WorkedIn(F)',
           WorkedIn(F) \subseteq WorkedIn(F)' \cup CancelledRows' \cup G
    PROVE  /\ Cardinality(WorkedIn(F)) \in Nat /\ Cardinality(WorkedIn(F)') \in Nat
           /\ Cardinality(CancelledRows) \in Nat /\ Cardinality(CancelledRows') \in Nat
           /\ Cardinality(N) \in Nat /\ Cardinality(G) \in Nat
           /\ Cardinality(WorkedIn(F)) + Cardinality(CancelledRows) + Cardinality(N)
                 <= Cardinality(WorkedIn(F)') + Cardinality(CancelledRows')
                    + Cardinality(G)
<1> DEFINE L == WorkedIn(F)
           M == WorkedIn(F)'
           C == CancelledRows
           D == CancelledRows'
<1>1. IsFiniteSet(L) /\ IsFiniteSet(M) /\ IsFiniteSet(C) /\ IsFiniteSet(D)
  <2>1. L \subseteq Rows(tasks, F, "leased") /\ M \subseteq Rows(tasks', F, "leased")
    BY DEF WorkedIn, WorkedBy, HoldsLease, Fenced, Rows
  <2>2. IsFiniteSet(Rows(tasks, F, "leased")) /\ IsFiniteSet(Rows(tasks', F, "leased"))
    BY RowsFinite
  <2>3. IsFiniteSet(C) /\ IsFiniteSet(D)
    BY RowsFinite DEF CancelledRows
  <2> HIDE DEF L, M, C, D
  <2> QED BY <2>1, <2>2, <2>3, FS_Subset
<1>2. L \cap C = {} /\ M \cap D = {}
  BY DEF WorkedIn, WorkedBy, HoldsLease, Fenced, CancelledRows, Rows
<1>3. C \subseteq D
  BY StoreGrows DEF CancelledRows, Rows
<1> HIDE DEF L, M, C, D
<1>4. N \cap (L \cup C) = {} /\ N \subseteq M /\ L \subseteq M \cup D \cup G
  BY DEF L, M, C, D
<1>5. /\ IsFiniteSet(L \cup C) /\ Cardinality(L) \in Nat /\ Cardinality(C) \in Nat
      /\ Cardinality(L \cup C) = Cardinality(L) + Cardinality(C)
  BY <1>1, <1>2, CountApart
<1>6. /\ Cardinality(N) \in Nat
      /\ Cardinality((L \cup C) \cup N) = Cardinality(L \cup C) + Cardinality(N)
  BY <1>4, <1>5, CountApart
<1>7. /\ IsFiniteSet(M \cup D) /\ Cardinality(M) \in Nat /\ Cardinality(D) \in Nat
      /\ Cardinality(M \cup D) = Cardinality(M) + Cardinality(D)
  BY <1>1, <1>2, CountApart
<1>8. /\ IsFiniteSet((M \cup D) \cup G) /\ Cardinality(G) \in Nat
      /\ Cardinality((M \cup D) \cup G) \in Nat
      /\ Cardinality((M \cup D) \cup G) <= Cardinality(M \cup D) + Cardinality(G)
  <2>1. /\ IsFiniteSet((M \cup D) \cup G)
        /\ Cardinality((M \cup D) \cup G)
              = Cardinality(M \cup D) + Cardinality(G) - Cardinality((M \cup D) \cap G)
    BY <1>7, FS_Union
  <2>2. IsFiniteSet((M \cup D) \cap G)
    BY FS_Intersection
  <2>3. /\ Cardinality((M \cup D) \cap G) \in Nat /\ Cardinality(G) \in Nat
        /\ Cardinality(M \cup D) \in Nat /\ Cardinality((M \cup D) \cup G) \in Nat
    BY <1>7, <2>1, <2>2, FS_CardinalityType
  <2> QED BY <2>1, <2>3
<1>9. (L \cup C) \cup N \subseteq (M \cup D) \cup G
  BY <1>3, <1>4
<1>10. Cardinality((L \cup C) \cup N) <= Cardinality((M \cup D) \cup G)
  BY <1>8, <1>9, FS_Subset
<1>11. Cardinality(L) + Cardinality(C) + Cardinality(N)
          <= Cardinality(M) + Cardinality(D) + Cardinality(G)
  BY <1>5, <1>6, <1>7, <1>8, <1>10
<1> QED BY <1>5, <1>6, <1>7, <1>8, <1>11 DEF L, M, C, D

Owed(F) == Cardinality(WorkedIn(F)) + LeasesTakenAway

LEMMA OwedBalance ==
    ASSUME FiniteDeployment, StoreInv, StoreInv', [StoreNext]_storeVars,
           NEW F \in SUBSET (Runs \X Steps), NEW N, NEW G,
           IsFiniteSet(N), IsFiniteSet(G),
           N \cap (WorkedIn(F) \cup CancelledRows) = {}, N \subseteq WorkedIn(F)',
           WorkedIn(F) \subseteq WorkedIn(F)' \cup CancelledRows' \cup G
    PROVE  /\ Owed(F) \in Nat /\ Owed(F)' \in Nat
           /\ Owed(F) + Cardinality(N) <= Owed(F)' + Cardinality(G)
<1> DEFINE l == Cardinality(WorkedIn(F))
           l1 == Cardinality(WorkedIn(F)')
           a == Cardinality(CancelledRows)
           a1 == Cardinality(CancelledRows')
           e == EventCount("TaskReclaimed")
           e1 == EventCount("TaskReclaimed")'
           u == Cardinality(N)
           g == Cardinality(G)
<1>1. /\ l \in Nat /\ l1 \in Nat /\ a \in Nat /\ a1 \in Nat /\ u \in Nat /\ g \in Nat
      /\ l + a + u <= l1 + a1 + g
  BY LeasesBalance
<1>2. e \in Nat /\ e1 \in Nat /\ e <= e1
  BY EventsCounted
<1>3. Owed(F) = l + (e + a) /\ Owed(F)' = l1 + (e1 + a1)
  BY DEF Owed, LeasesTakenAway, CancelledRows, Rows
<1> HIDE DEF l, l1, a, a1, e, e1, u, g
<1>4. /\ Owed(F) \in Nat /\ Owed(F)' \in Nat
      /\ Owed(F) + u <= Owed(F)' + g
  BY <1>1, <1>2, <1>3
<1> QED BY <1>4 DEF u, g

(* A step that lets a lease stand, or cancels its task; and one that lets  *)
(* a worker go on with its task.                                           *)
LeaseStands(r, i) ==
    tasks[r][i].status = "leased" =>
        \/ tasks'[r][i].status = "cancelled"
        \/ tasks'[r][i].status = "leased" /\ tasks'[r][i].leased_by = tasks[r][i].leased_by

GoesOn(w) ==
    Busy(w) => /\ Busy(w)' /\ job'[w].run = job[w].run /\ job'[w].step = job[w].step

LEMMA StaysWorked ==
    ASSUME NEW F \in SUBSET (Runs \X Steps), NEW x \in F, NEW w \in Workers,
           WorkedBy(w, x), GoesOn(w), LeaseStands(x[1], x[2])
    PROVE  x \in WorkedIn(F)' \cup CancelledRows'
<1>1. x[1] \in Runs /\ x[2] \in Steps /\ x = <<x[1], x[2]>>
  OBVIOUS
<1>2. PICK r \in Runs, i \in Steps : r = job[w].run /\ i = job[w].step /\ x = <<r, i>>
  BY <1>1 DEF WorkedBy
<1>3. tasks[r][i].status = "leased" /\ tasks[r][i].leased_by = OwnerId[w]
  BY <1>2 DEF WorkedBy, HoldsLease, Fenced
<1>4. CASE tasks'[r][i].status = "cancelled"
  BY <1>2, <1>4 DEF CancelledRows, Rows
<1>5. CASE tasks'[r][i].status = "leased" /\ tasks'[r][i].leased_by = OwnerId[w]
  <2>1. Busy(w)' /\ job'[w].run = r /\ job'[w].step = i
    BY <1>2 DEF WorkedBy, GoesOn
  <2>2. WorkedBy(w, x)'
    BY <1>2, <1>5, <2>1 DEF WorkedBy, HoldsLease, Fenced
  <2> QED BY <2>2 DEF WorkedIn
<1> QED BY <1>2, <1>3, <1>4, <1>5 DEF LeaseStands

LEMMA StandingOwed ==
    ASSUME FiniteDeployment, StoreInv, StoreInv', [StoreNext]_storeVars,
           NEW F \in SUBSET (Runs \X Steps),
           \A x \in F : \A w \in Workers : WorkedBy(w, x) =>
              \E v \in Workers : /\ WorkedBy(v, x) /\ GoesOn(v)
                                /\ LeaseStands(x[1], x[2])
    PROVE  Owed(F) \in Nat /\ Owed(F)' \in Nat /\ Owed(F) <= Owed(F)'
<1>1. IsFiniteSet({}) /\ Cardinality({}) = 0
  BY FS_EmptySet
<1>2. WorkedIn(F) \subseteq WorkedIn(F)' \cup CancelledRows'
  BY StaysWorked DEF WorkedIn
<1>3. PICK E : E = {}
  OBVIOUS
<1>4. /\ Owed(F) \in Nat /\ Owed(F)' \in Nat
      /\ Owed(F) + Cardinality(E) <= Owed(F)' + Cardinality(E)
  BY <1>1, <1>2, <1>3, OwedBalance
<1> QED BY <1>1, <1>3, <1>4

LEMMA TakenOwed ==
    ASSUME FiniteDeployment, StoreInv, StoreInv', [StoreNext]_storeVars,
           NEW F \in SUBSET (Runs \X Steps),
           \A r \in Runs : \A i \in Steps : LeaseStands(r, i),
           \A w \in Workers : GoesOn(w),
           NEW x \in Runs \X Steps, tasks[x[1]][x[2]].status = "pending",
           x \in F => x \in WorkedIn(F)'
    PROVE  Owed(F) \in Nat /\ Owed(F)' \in Nat /\ Owed(F) + One(x \in F) <= Owed(F)'
<1>0. IsFiniteSet({}) /\ Cardinality({}) = 0
  BY FS_EmptySet
<1>s. \A y \in F : y[1] \in Runs /\ y[2] \in Steps
  OBVIOUS
<1>1. CASE x \notin F
  <2>1. Owed(F) \in Nat /\ Owed(F)' \in Nat /\ Owed(F) <= Owed(F)'
    BY <1>s, StandingOwed
  <2> QED BY <1>1, <2>1 DEF One
<1>2. CASE x \in F
  <2>1. IsFiniteSet({x}) /\ Cardinality({x}) = 1
    BY FS_Singleton
  <2>2. {x} \cap (WorkedIn(F) \cup CancelledRows) = {}
    BY DEF WorkedIn, WorkedBy, HoldsLease, Fenced, CancelledRows, Rows
  <2>3. WorkedIn(F) \subseteq WorkedIn(F)' \cup CancelledRows'
    BY <1>s, StaysWorked DEF WorkedIn
  <2>4. /\ Owed(F) \in Nat /\ Owed(F)' \in Nat
        /\ Owed(F) + Cardinality({x}) <= Owed(F)' + Cardinality({})
    BY <1>0, <1>2, <2>1, <2>2, <2>3, OwedBalance
  <2> QED BY <1>0, <1>2, <2>1, <2>4 DEF One
<1> QED BY <1>1, <1>2

LEMMA ConcludedOwed ==
    ASSUME FiniteDeployment, StoreInv, StoreInv', [StoreNext]_storeVars,
           NEW F \in SUBSET (Runs \X Steps), NEW x \in Runs \X Steps,
           \A r \in Runs : \A i \in Steps : x # <<r, i>> => LeaseStands(r, i),
           \A w \in Workers : x # <<job[w].run, job[w].step>> => GoesOn(w)
    PROVE  Owed(F) \in Nat /\ Owed(F)' \in Nat /\ Owed(F) <= Owed(F)' + One(x \in F)
<1> DEFINE G == {y \in F : y = x}
<1>0. IsFiniteSet({}) /\ Cardinality({}) = 0
  BY FS_EmptySet
<1>1. IsFiniteSet(G) /\ Cardinality(G) = One(x \in F)
  <2>1. CASE x \in F
    <3>1. G = {x}
      BY <2>1
    <3>2. IsFiniteSet({x}) /\ Cardinality({x}) = 1
      BY FS_Singleton
    <3> QED BY <2>1, <3>1, <3>2 DEF One
  <2>2. CASE x \notin F
    <3>1. G = {}
      BY <2>2
    <3> QED BY <1>0, <2>2, <3>1 DEF One
  <2> QED BY <2>1, <2>2
<1>2. WorkedIn(F) \subseteq WorkedIn(F)' \cup CancelledRows' \cup G
  <2> SUFFICES ASSUME NEW y \in WorkedIn(F), y # x
               PROVE  y \in WorkedIn(F)' \cup CancelledRows'
    BY DEF WorkedIn
  <2>1. y \in F /\ y = <<y[1], y[2]>> /\ y[1] \in Runs /\ y[2] \in Steps
    BY DEF WorkedIn
  <2>2. PICK w \in Workers : WorkedBy(w, y)
    BY DEF WorkedIn
  <2>3. LeaseStands(y[1], y[2]) /\ GoesOn(w)
    BY <2>1, <2>2 DEF WorkedBy
  <2> QED BY <2>1, <2>2, <2>3, StaysWorked
<1> HIDE DEF G
<1>3. /\ Owed(F) \in Nat /\ Owed(F)' \in Nat
      /\ Owed(F) + Cardinality({}) <= Owed(F)' + Cardinality(G)
  BY <1>0, <1>1, <1>2, OwedBalance
<1> QED BY <1>0, <1>1, <1>3 DEF One

(* A reap writes one event for each lease it takes away.                   *)
LEMMA ReapedOwed ==
    ASSUME FiniteDeployment, StoreInv, StoreInv', ReapExpiredLeases,
           \A w \in Workers : GoesOn(w), NEW F \in SUBSET (Runs \X Steps)
    PROVE  Owed(F) \in Nat /\ Owed(F)' \in Nat /\ Owed(F) <= Owed(F)'
<1>r. PICK taken \in SUBSET ExpiredRows : Reclaim(taken)
  BY DEF ReapExpiredLeases
<1> DEFINE P == Places(events, "TaskReclaimed")
           Q == Places(events', "TaskReclaimed")
           G == F \cap taken
           f == [x \in G |-> <<x[1], Len(events[x[1]]) + 1>>]
<1>0. [StoreNext]_storeVars
  BY DEF StoreNext
<1>e. \A r \in Runs : events[r] \in Seq(Event)
  BY DEF StoreInv, StoreTypeOK
<1>1. ASSUME NEW r \in Runs, NEW i \in Steps, <<r, i>> \in taken
      PROVE  <<r, Len(events[r]) + 1>> \in Q \ P
  <2>1. PICK s \in Seq(Event) : s = events[r]
    BY <1>e
  <2>2. PICK e \in Event : e = Ev("TaskReclaimed", i)
    BY EventTypes DEF EventType
  <2>3. events'[r] = s \o <<e>>
    BY <1>r, <1>1, <2>1, <2>2, OneReclaim DEF Reclaim
  <2>4. PICK t : t = Append(s, e)
    OBVIOUS
  <2>5. events'[r] = t
    BY <2>3, <2>4, Concatenated
  <2>6. /\ Len(s) + 1 \in DOMAIN t /\ Len(s) + 1 \notin DOMAIN s
        /\ t[Len(s) + 1] = e
    BY <2>4, AppendedKeeps
  <2>7. e.type = "TaskReclaimed"
    BY <2>2 DEF Ev
  <2> QED BY <2>1, <2>5, <2>6, <2>7, InPlaces
<1>2. f \in Injection(G, Q \ P)
  <2>1. ASSUME NEW x \in G
        PROVE  /\ f[x] \in Q \ P /\ f[x][1] = x[1]
               /\ {j \in Steps : <<x[1], j>> \in taken} = {x[2]}
               /\ x = <<x[1], x[2]>>
    <3>1. x[1] \in Runs /\ x[2] \in Steps /\ <<x[1], x[2]>> \in taken
          /\ x = <<x[1], x[2]>>
      OBVIOUS
    <3>2. f[x] = <<x[1], Len(events[x[1]]) + 1>>
      OBVIOUS
    <3>3. <<x[1], Len(events[x[1]]) + 1>> \in Q \ P
      BY <1>1, <3>1
    <3>4. {j \in Steps : <<x[1], j>> \in taken} = {x[2]}
      <4>1. \A r \in Runs : \A i \in Steps : <<r, i>> \in taken =>
               {j \in Steps : <<r, j>> \in taken} = {i}
        BY OneReclaim
      <4> HIDE DEF f, G, P, Q
      <4> QED BY <3>1, <4>1
    <3> HIDE DEF f, G, P, Q
    <3> QED BY <3>1, <3>2, <3>3, <3>4
  <2>2. DOMAIN f = G
    OBVIOUS
  <2>3. f \in [G -> Q \ P]
    <3>1. \A x \in G : f[x] \in Q \ P
      BY <2>1
    <3> HIDE DEF G, P, Q
    <3> QED BY <3>1
  <2>4. ASSUME NEW x \in G, NEW y \in G, f[x] = f[y] PROVE x = y
    <3>1. x[1] = y[1] /\ {x[2]} = {y[2]}
      BY <2>1, <2>4
    <3> HIDE DEF f, G
    <3> QED BY <2>1, <3>1
  <2> HIDE DEF f, G, P, Q
  <2> QED BY <2>3, <2>4 DEF Injection, IsInjective
<1>3. IsFiniteSet(Q) /\ P \subseteq Q
  <2>1. events' \in [Runs -> Seq(Event)]
    BY DEF StoreInv, StoreTypeOK
  <2>2. P \subseteq Q
    BY <1>0, StoreGrows DEF Places, HistoryKept
  <2> QED BY <2>1, <2>2, PlacesFinite
<1>4. WorkedIn(F) \subseteq WorkedIn(F)' \cup CancelledRows' \cup G
  <2> SUFFICES ASSUME NEW x \in WorkedIn(F), x \notin taken
               PROVE  x \in WorkedIn(F)' \cup CancelledRows'
    BY DEF WorkedIn
  <2>1. x \in F /\ x[1] \in Runs /\ x[2] \in Steps /\ x = <<x[1], x[2]>>
    BY DEF WorkedIn
  <2>2. PICK w \in Workers : WorkedBy(w, x)
    BY DEF WorkedIn
  <2>3. LeaseStands(x[1], x[2])
    BY <1>r, <2>1 DEF Reclaim, LeaseStands
  <2> QED BY <2>1, <2>2, <2>3, StaysWorked
<1>5. /\ EventCount("TaskReclaimed") = Cardinality(P)
      /\ EventCount("TaskReclaimed")' = Cardinality(Q)
  BY CountedSets
<1> HIDE DEF f, G, P, Q
<1>6. IsFiniteSet(P) /\ IsFiniteSet(Q \ P) /\ Q = P \cup (Q \ P)
  BY <1>3, FS_Subset, FS_Difference
<1>7. /\ Cardinality(P) \in Nat /\ Cardinality(Q \ P) \in Nat
      /\ Cardinality(Q) = Cardinality(P) + Cardinality(Q \ P)
  BY <1>6, CountApart
<1>8. IsFiniteSet(G) /\ Cardinality(G) <= Cardinality(Q \ P)
  BY <1>2, <1>6, FS_Injection
<1>9. PICK E : E = {}
  OBVIOUS
<1>10. IsFiniteSet(E) /\ Cardinality(E) = 0
  BY <1>9, FS_EmptySet
<1> DEFINE l == Cardinality(WorkedIn(F))
           l1 == Cardinality(WorkedIn(F)')
           a == Cardinality(CancelledRows)
           a1 == Cardinality(CancelledRows')
           g == Cardinality(G)
           e == Cardinality(P)
           e1 == Cardinality(Q)
           d == Cardinality(Q \ P)
<1>11. /\ l \in Nat /\ l1 \in Nat /\ a \in Nat /\ a1 \in Nat /\ g \in Nat
       /\ l + a + Cardinality(E) <= l1 + a1 + g
  BY <1>0, <1>4, <1>8, <1>9, <1>10, LeasesBalance
<1>12. Owed(F) = l + (e + a) /\ Owed(F)' = l1 + (e1 + a1)
  BY <1>5 DEF Owed, LeasesTakenAway, CancelledRows, Rows
<1> HIDE DEF l, l1, a, a1, g, e, e1, d
<1>13. e \in Nat /\ d \in Nat /\ e1 = e + d /\ g <= d
  BY <1>7, <1>8 DEF g, e, e1, d
<1> QED BY <1>10, <1>11, <1>12, <1>13

(* Which leases the transactions let stand.                                *)
LEMMA RowStands ==
    ASSUME StoreTypeOK, NEW r \in Runs, NEW i \in Steps, NEW row,
           tasks' = [tasks EXCEPT ![r][i] = row]
    PROVE  /\ \A q \in Runs : \A j \in Steps :
                 <<r, i>> # <<q, j>> => LeaseStands(q, j)
           /\ tasks'[r][i] = row
  BY DEF StoreTypeOK, LeaseStands

LEMMA LeasesStand ==
    ASSUME StoreInv,
           \/ Client \/ Tick \/ UNCHANGED storeVars
           \/ \E r \in Runs : \E i \in Steps : \E o \in Owners : LeaseTask(o, r, i)
    PROVE  \A q \in Runs : \A j \in Steps : LeaseStands(q, j)
<1> DEFINE Stand == \A q \in Runs : \A j \in Steps : LeaseStands(q, j)
<1>0. /\ StoreTypeOK /\ tasks \in [Runs -> [Steps -> TaskRow]]
      /\ \A q \in Runs : \A j \in Steps : tasks[q][j] \in TaskRow
  BY DEF StoreInv, StoreTypeOK
<1>1. ASSUME NEW r \in Runs, NEW i \in Steps, NEW row,
             tasks' = [tasks EXCEPT ![r][i] = row],
             tasks[r][i].status # "leased"
      PROVE  Stand
  <2>1. /\ \A q \in Runs : \A j \in Steps : <<r, i>> # <<q, j>> => LeaseStands(q, j)
        /\ tasks'[r][i] = row
    BY <1>0, <1>1, RowStands
  <2>2. LeaseStands(r, i)
    BY <1>1, <2>1 DEF LeaseStands
  <2> QED BY <2>1, <2>2
<1>2. ASSUME NEW r \in Runs, NEW wf \in Workflows, NEW key, StartWorkflow(r, wf, key)
      PROVE  Stand
  <2>1. 0 \in Steps
    BY TypesAssumption DEF Steps
  <2>2. tasks[r][0].status = "none"
    BY <1>2, <2>1 DEF StartWorkflow, StartRun, StoreInv, RunShape, ShapeOf
  <2>3. \E row : tasks' = [tasks EXCEPT ![r][0] = row]
    BY <1>2 DEF StartWorkflow, StartRun
  <2> QED BY <1>1, <2>1, <2>2, <2>3
<1>3. ASSUME NEW r \in Runs, CancelRun(r) PROVE Stand
  <2>1. \A t \in TaskRow : [t EXCEPT !.status = "cancelled"].status = "cancelled"
    BY RowData
  <2> QED BY <1>0, <1>3, <2>1 DEF CancelRun, LeaseStands
<1>4. ASSUME NEW r \in Runs, NEW i \in Steps, Replay(r, i) PROVE Stand
  <2>1. tasks[r][i].status = "dead" /\ \E row : tasks' = [tasks EXCEPT ![r][i] = row]
    BY <1>4 DEF Replay, ReplayDeadLetter
  <2> QED BY <1>1, <2>1
<1>5. ASSUME NEW r \in Runs, NEW i \in Steps, NEW o \in Owners, LeaseTask(o, r, i)
      PROVE  Stand
  <2>1. /\ tasks[r][i].status = "pending"
        /\ \E row : tasks' = [tasks EXCEPT ![r][i] = row]
    BY <1>5 DEF LeaseTask, Due
  <2> QED BY <1>1, <2>1
<1>6. CASE Tick
  <2>1. \A t \in TaskRow : Closer(t).status = t.status /\ Closer(t).leased_by = t.leased_by
    BY RowStatus DEF Closer, TaskRow
  <2> QED BY <1>0, <1>6, <2>1 DEF Tick, LeaseStands
<1>7. CASE UNCHANGED storeVars
  BY <1>7 DEF storeVars, LeaseStands
<1> QED BY <1>2, <1>3, <1>4, <1>5, <1>6, <1>7 DEF Client

LEMMA OthersStand ==
    ASSUME StoreInv, JobsOK, NEW w \in Workers, BackToPoll(w),
           AdvanceJob(w) \/ RetryJob(w) \/ DeadLetterJob(w)
    PROVE  \A q \in Runs : \A j \in Steps :
              <<job[w].run, job[w].step>> # <<q, j>> => LeaseStands(q, j)
<1>0. /\ StoreTypeOK /\ tasks \in [Runs -> [Steps -> TaskRow]]
      /\ job[w].run \in Runs /\ job[w].step \in Steps
  BY DEF StoreInv, StoreTypeOK, JobsOK, Job, BackToPoll, Busy
<1>1. PICK r \in Runs, i \in Steps : r = job[w].run /\ i = job[w].step
  BY <1>0
<1>2. i \in Int
  BY TypesAssumption DEF Steps
<1>3. ASSUME NEW row, tasks' = [tasks EXCEPT ![r][i] = row]
      PROVE  \A q \in Runs : \A j \in Steps : <<r, i>> # <<q, j>> => LeaseStands(q, j)
  BY <1>0, <1>3, RowStands
<1>4. ASSUME NEW row, NEW next, tasks' = [tasks EXCEPT ![r][i] = row, ![r][i + 1] = next],
             tasks[r][i + 1].status = "none"
      PROVE  \A q \in Runs : \A j \in Steps : <<r, i>> # <<q, j>> => LeaseStands(q, j)
  BY <1>0, <1>2, <1>4 DEF LeaseStands
<1>5. CASE AdvanceJob(w)
  <2>1. PICK o, p : Advance(r, i, o, p)
    BY <1>1, <1>5 DEF AdvanceJob
  <2>2. ASSUME NEW next, AdvanceNext(r, i, o, p, next)
        PROVE  \A q \in Runs : \A j \in Steps : <<r, i>> # <<q, j>> => LeaseStands(q, j)
    <3>1. PICK row, new : row = CompletedWith(tasks[r][i], p) /\ new = InsertTask(next)
      OBVIOUS
    <3>2. /\ tasks' = [tasks EXCEPT ![r][i] = row, ![r][i + 1] = new]
          /\ tasks[r][i + 1].status = "none"
      BY <2>2, <3>1 DEF AdvanceNext
    <3> QED BY <1>4, <3>2
  <2>3. ASSUME AdvanceFinish(r, i, o, p)
        PROVE  \A q \in Runs : \A j \in Steps : <<r, i>> # <<q, j>> => LeaseStands(q, j)
    BY <1>3, <2>3 DEF AdvanceFinish
  <2> QED BY <1>1, <2>1, <2>2, <2>3 DEF Advance
<1>6. CASE RetryJob(w) \/ DeadLetterJob(w)
  <2>1. \E row : tasks' = [tasks EXCEPT ![r][i] = row]
    BY <1>1, <1>6 DEF RetryJob, Retry, DeadLetterJob, DeadLetter
  <2> QED BY <1>1, <1>3, <2>1
<1> QED BY <1>5, <1>6

(* Runs keep the workflow they were started with.                          *)
LEMMA WorkflowsKept ==
    ASSUME StoreInv, [StoreNext]_storeVars, NEW r \in Runs,
           runs[r].status # "none"
    PROVE  runs'[r].status # "none" /\ runs'[r].workflow = runs[r].workflow
<1>0. StoreTypeOK /\ runs \in [Runs -> RunRow] /\ runs[r] \in RunRow
  BY DEF StoreInv, StoreTypeOK
<1>1. CASE RunStep(r)
  <2>1. ASSUME NEW wf, NEW key, StartWorkflow(r, wf, key) PROVE FALSE
    BY <2>1 DEF StartWorkflow, StartRun
  <2>2. ASSUME NEW i \in Steps, NEW o, NEW p, Advance(r, i, o, p)
        PROVE  runs'[r].status # "none" /\ runs'[r].workflow = runs[r].workflow
    BY <1>0, <2>2 DEF Advance, AdvanceNext, AdvanceFinish, RunRow
  <2>3. CASE CancelRun(r)
    BY <1>0, <2>3 DEF CancelRun, RunRow
  <2>4. ASSUME NEW i, NEW o, DeadLetter(r, i, o)
        PROVE  runs'[r].status # "none" /\ runs'[r].workflow = runs[r].workflow
    BY <1>0, <2>4 DEF DeadLetter, RunRow
  <2>5. ASSUME UNCHANGED runs
        PROVE  runs'[r].status # "none" /\ runs'[r].workflow = runs[r].workflow
    BY <2>5
  <2> QED BY <1>1, <2>1, <2>2, <2>3, <2>4, <2>5
             DEF RunStep, Replay, ReplayDeadLetter, LeaseTask, Retry
<1>2. ASSUME NEW q \in Runs, q # r, RunStep(q)
      PROVE  runs'[r] = runs[r]
  BY <1>0, <1>2, OtherRuns
<1>3. CASE ReapExpiredLeases \/ Tick \/ UNCHANGED storeVars
  BY <1>3 DEF ReapExpiredLeases, Reclaim, Tick, storeVars
<1> QED BY <1>1, <1>2, <1>3, NextByRun

----------------------------------------------------------------------------
(* The engine's side: the tasks of F that workers have in hand, and what   *)
(* the processes count.                                                    *)
HeldIn(F) == {w \in Workers : Busy(w) /\ <<job[w].run, job[w].step>> \in F}

Held(F) == Cardinality(HeldIn(F))

LEMMA HeldFinite ==
    ASSUME FiniteDeployment, NEW F
    PROVE  /\ IsFiniteSet(HeldIn(F)) /\ IsFiniteSet(HeldIn(F)')
           /\ Held(F) \in Nat /\ Held(F)' \in Nat
<1>1. IsFiniteSet(HeldIn(F)) /\ IsFiniteSet(HeldIn(F)')
  BY FS_Subset DEF HeldIn, FiniteDeployment
<1> QED BY <1>1, FS_CardinalityType DEF Held

LEMMA HeldStill ==
    ASSUME FiniteDeployment, NEW F, \A w \in Workers : Busy(w)' => SameJob(w)
    PROVE  Held(F)' <= Held(F)
<1>1. HeldIn(F)' \subseteq HeldIn(F)
  BY DEF HeldIn, SameJob
<1> QED BY <1>1, HeldFinite, CountMore DEF Held

LEMMA HeldMore ==
    ASSUME FiniteDeployment, JobsOK, NEW F, NEW w \in Workers,
           NEW r \in Runs, NEW i \in Steps, Lease(w, r, i)
    PROVE  Held(F)' <= Held(F) + One(<<r, i>> \in F)
<1> DEFINE H == HeldIn(F)
           G == HeldIn(F)'
<1>1. /\ job'[w].run = r /\ job'[w].step = i
      /\ \A v \in Workers : v # w => job'[v] = job[v] /\ pc'[v] = pc[v]
  BY DEF Lease, JobsOK
<1>2. G \ {w} \subseteq H
  BY <1>1 DEF HeldIn, Busy
<1>3. w \in G => <<r, i>> \in F
  BY <1>1 DEF HeldIn
<1>4. IsFiniteSet(H) /\ IsFiniteSet(G)
  BY HeldFinite
<1> HIDE DEF H, G
<1>5. /\ Cardinality(G) \in Nat /\ Cardinality(H) \in Nat
      /\ Cardinality(G) <= Cardinality(H) + One(w \in G)
  BY <1>2, <1>4, CountOneLess
<1>6. Cardinality(G) <= Cardinality(H) + One(<<r, i>> \in F)
  BY <1>3, <1>5 DEF One
<1> QED BY <1>6 DEF Held, H, G

LEMMA HeldLess ==
    ASSUME FiniteDeployment, JobsOK, NEW F, NEW w \in Workers, BackToPoll(w)
    PROVE  Held(F)' + One(<<job[w].run, job[w].step>> \in F) <= Held(F)
<1> DEFINE H == HeldIn(F)
           G == HeldIn(F)'
           b == <<job[w].run, job[w].step>> \in F
<1>1. /\ pc[w] = "commit" /\ pc'[w] = "poll"
      /\ \A v \in Workers : v # w => job'[v] = job[v] /\ pc'[v] = pc[v]
  BY DEF BackToPoll, JobsOK
<1>2. G \subseteq H /\ w \notin G
  BY <1>1 DEF HeldIn, Busy
<1>3. b => w \in H
  BY <1>1 DEF HeldIn, Busy
<1>4. IsFiniteSet(H) /\ IsFiniteSet(G)
  BY HeldFinite
<1> HIDE DEF H, G, b
<1>5. CASE b
  <2>1. Cardinality(G) + 1 <= Cardinality(H)
    BY <1>2, <1>3, <1>4, <1>5, CountOneMore
  <2> QED BY <1>5, <2>1 DEF One, Held, H, G, b
<1>6. CASE ~b
  <2>1. /\ Cardinality(G) <= Cardinality(H)
        /\ Cardinality(G) \in Nat /\ Cardinality(H) \in Nat
    BY <1>2, <1>4, CountMore
  <2>2. Cardinality(G) + One(b) <= Cardinality(H)
    BY <1>6, <2>1 DEF One
  <2> QED BY <2>2 DEF Held, H, G, b
<1> QED BY <1>5, <1>6

(* The counters that say a task or a run has ended.                        *)
Ending == {"TasksCompleted", "TasksDead", "RunsCompleted"}

TotalsStill == \A p \in Procs : \A c \in Ending : counters'[p][c] <= counters[p][c]

LEMMA TotalsType ==
    ASSUME FiniteDeployment, BooksOK, BooksOK', NEW c \in Ending
    PROVE  /\ \A p \in Procs : counters[p][c] \in Nat /\ counters'[p][c] \in Nat
           /\ IsFiniteSet(Marks(counters, c)) /\ IsFiniteSet(Marks(counters', c))
           /\ Total(c) \in Nat /\ Total(c)' \in Nat
<1>1. \A p \in Procs : counters[p][c] \in Nat /\ counters'[p][c] \in Nat
  BY DEF BooksOK, Kept, Ending
<1>2. IsFiniteSet(Marks(counters, c)) /\ IsFiniteSet(Marks(counters', c))
  BY <1>1, MarksFinite
<1> QED BY <1>1, <1>2, CountedSets, FS_CardinalityType

LEMMA TotalStays ==
    ASSUME FiniteDeployment, BooksOK, BooksOK', TotalsStill, NEW c \in Ending
    PROVE  Total(c)' <= Total(c)
<1>1. Marks(counters', c) \subseteq Marks(counters, c)
  <2>1. ASSUME NEW p \in Procs PROVE 1 .. counters'[p][c] \subseteq 1 .. counters[p][c]
    BY TotalsType DEF TotalsStill
  <2> QED BY <2>1 DEF Marks
<1> QED BY <1>1, TotalsType, CountMore, CountedSets

LEMMA TotalCounts ==
    ASSUME FiniteDeployment, BooksOK, BooksOK', NEW w \in Workers, NEW cs,
           Counts(w, cs), NEW c \in Ending
    PROVE  Total(c)' <= Total(c) + One(c \in cs)
<1> DEFINE S == Marks(counters', c)
           T == Marks(counters, c)
<1>1. PICK q \in Procs : q = ProcOf[w]
  BY EngineAssumption
<1>2. PICK n \in Nat : n = counters[q][c]
  BY TotalsType
<1>3. /\ \A p \in Procs : p # q => counters'[p] = counters[p]
      /\ counters'[q][c] = n + One(c \in cs)
  BY <1>1, <1>2 DEF Counts, Counter, Ending, One
<1>4. S \ {<<q, n + 1>>} \subseteq T
  <2> SUFFICES ASSUME NEW p \in Procs, NEW k \in 1 .. counters'[p][c],
                      <<p, k>> # <<q, n + 1>>
               PROVE  <<p, k>> \in T
    BY DEF Marks
  <2>1. CASE p # q
    BY <1>3, <2>1, InMarks
  <2>2. CASE p = q
    <3>1. k \in 1 .. (n + One(c \in cs)) /\ k # n + 1
      BY <1>3, <2>2
    <3>2. k \in 1 .. n
      BY <3>1 DEF One
    <3> QED BY <1>2, <2>2, <3>2, InMarks
  <2> QED BY <2>1, <2>2
<1>5. <<q, n + 1>> \in S => c \in cs
  <2> SUFFICES ASSUME <<q, n + 1>> \in S PROVE c \in cs
    OBVIOUS
  <2>1. n + 1 \in 1 .. (n + One(c \in cs))
    BY <1>3, InMarks
  <2> QED BY <2>1 DEF One
<1>6. IsFiniteSet(S) /\ IsFiniteSet(T)
  BY TotalsType
<1>7. Total(c) = Cardinality(T) /\ Total(c)' = Cardinality(S)
  BY CountedSets
<1> HIDE DEF S, T
<1>8. PICK x : x = <<q, n + 1>>
  OBVIOUS
<1>9. /\ Cardinality(S) \in Nat /\ Cardinality(T) \in Nat
      /\ Cardinality(S) <= Cardinality(T) + One(x \in S)
  BY <1>4, <1>6, <1>8, CountOneLess
<1>10. Cardinality(S) <= Cardinality(T) + One(c \in cs)
  BY <1>5, <1>8, <1>9 DEF One
<1> QED BY <1>7, <1>10

----------------------------------------------------------------------------
(* The steps of the metrics, by what they do to both sides: nothing (or a  *)
(* reap), a lease, or a worker that is done with its task.                 *)
CommitsJob(w) == AdvanceJob(w) \/ RetryJob(w) \/ DeadLetterJob(w)

SameTasks ==
    /\ job' = job
    /\ \A w \in Workers : Busy(w)' <=> Busy(w)

Passive ==
    /\ TotalsStill
    /\ \A w \in Workers : Busy(w)' => SameJob(w)
    /\ \/ UNCHANGED storeVars
       \/ SameTasks /\ \A r \in Runs : \A i \in Steps : LeaseStands(r, i)
       \/ SameTasks /\ ReapExpiredLeases

Takes(w) == TotalsStill /\ \E r \in Runs : \E i \in Steps : Lease(w, r, i)

HandsIn(w) ==
    /\ BackToPoll(w)
    /\ \/ TotalsStill /\ (UNCHANGED storeVars \/ CommitsJob(w))
       \/ /\ UNCHANGED storeVars /\ ~HoldsLease(w)
          /\ \E cs \in DiscardedCounters(w) : Counts(w, cs)
       \/ AdvanceJob(w) /\ Counts(w, CompletedCounters(w))
       \/ DeadLetterJob(w) /\ Counts(w, {"TasksDead"})

LEMMA StillUnlessEnding ==
    ASSUME BooksOK, NEW w \in Workers, NEW cs, Counts(w, cs), cs \cap Ending = {}
    PROVE  TotalsStill
<1>1. /\ \A p \in Procs : \A c \in Ending : counters[p][c] \in Nat
      /\ \A c \in Ending : c \in Counter /\ c \notin cs
  BY DEF BooksOK, Kept, Ending, Counter
<1>2. \A p \in Procs : \A c \in Ending : counters'[p][c] = counters[p][c]
  BY <1>1 DEF Counts
<1> QED BY <1>1, <1>2 DEF TotalsStill

LEMMA StillIfUnchanged ==
    ASSUME BooksOK, \A p \in Procs : \A c \in Kept : counters'[p][c] = counters[p][c]
    PROVE  TotalsStill
<1>1. \A p \in Procs : \A c \in Ending : counters[p][c] \in Nat /\ c \in Kept
  BY DEF BooksOK, Kept, Ending
<1> QED BY <1>1 DEF TotalsStill

(* A worker that stays where it is, or moves on with the same task.        *)
LEMMA WorkerKinds ==
    ASSUME StoreInv, JobsOK, BooksOK, NEW w \in Workers,
           CountedStep(w) \/ CountedFault(w)
    PROVE  Passive \/ Takes(w) \/ HandsIn(w)
<1>0. DOMAIN counters = Procs /\ \A v \in Workers : OwnerId[v] \in Owners
  BY EngineAssumption DEF BooksOK
<1>u. UNCHANGED counters => TotalsStill
  BY StillIfUnchanged
<1>i. ASSUME NEW cs, Inc(w, cs), cs \cap Ending = {} PROVE TotalsStill
  BY <1>0, <1>i, IncCounts, StillUnlessEnding
<1>a. Alone(w)
  BY WorkerAlone DEF CountedStep, CountedFault, WorkerStep, WorkerFault
<1>1. ASSUME TotalsStill, UNCHANGED storeVars,
             Poll(w) \/ LeaseNone(w) \/ LeaseError(w) \/ \E oc : Returns(w, oc)
      PROVE  Passive
  <2>1. Busy(w)' => SameJob(w)
    BY <1>1 DEF Poll, LeaseNone, LeaseError, Returns, Busy, SameJob, JobsOK, Job
  <2>2. \A v \in Workers : Busy(v)' => SameJob(v)
    BY <1>a, <2>1 DEF Alone, Busy, SameJob
  <2> QED BY <1>1, <2>2 DEF Passive
<1>2. CASE (Poll(w) \/ LeaseNone(w)) /\ UNCHANGED counters
  BY <1>1, <1>2, <1>u DEF Poll, LeaseNone
<1>3. CASE CommitRetry(w) /\ UNCHANGED counters
  BY <1>3, <1>u DEF CommitRetry, HandsIn, CommitsJob
<1>4. CASE /\ \E r \in Runs : \E i \in Steps : Lease(w, r, i)
           /\ Inc(w, {"TasksLeased"})
  <2>1. {"TasksLeased"} \cap Ending = {}
    BY DEF Ending
  <2> QED BY <1>4, <1>i, <2>1 DEF Takes
<1>5. CASE ExecuteOk(w) /\ Inc(w, FiredCounters(w))
  <2>1. FiredCounters(w) \cap Ending = {}
    BY DEF Ending, FiredCounters
  <2>2. TotalsStill
    BY <1>5, <1>i, <2>1
  <2> QED BY <1>1, <1>5, <2>2 DEF ExecuteOk
<1>6. CASE ExecuteFail(w) /\ Inc(w, {"TasksFailed"})
  <2>1. {"TasksFailed"} \cap Ending = {}
    BY DEF Ending
  <2>2. TotalsStill
    BY <1>6, <1>i, <2>1
  <2> QED BY <1>1, <1>6, <2>2 DEF ExecuteFail
<1>7. CASE CommitAdvance(w) /\ Inc(w, CompletedCounters(w))
  BY <1>0, <1>7, IncCounts DEF CommitAdvance, HandsIn
<1>8. CASE CommitDeadLetter(w) /\ Inc(w, {"TasksDead"})
  BY <1>0, <1>8, IncCounts DEF CommitDeadLetter, HandsIn
<1>9. CASE CommitNothing(w) /\ \E cs \in DiscardedCounters(w) : Inc(w, cs)
  <2>1. CASE HoldsLease(w)
    <3>1. DiscardedCounters(w) = {{}} /\ {} \cap Ending = {}
      BY <2>1 DEF DiscardedCounters
    <3>2. TotalsStill
      BY <1>9, <1>i, <3>1
    <3> QED BY <1>9, <3>2 DEF CommitNothing, HandsIn
  <2>2. CASE ~HoldsLease(w)
    BY <1>0, <1>9, <2>2, IncCounts DEF CommitNothing, HandsIn
  <2> QED BY <2>1, <2>2
<1>10. CASE LeaseError(w) /\ UNCHANGED counters
  <2>1. \A v \in Workers : Busy(v)' => SameJob(v)
    BY <1>10, <1>a DEF LeaseError, Alone, Busy, SameJob, JobsOK
  <2>2. SameTasks
    BY <1>10, <1>a DEF LeaseError, Alone, SameTasks, Busy, JobsOK
  <2>3. \A r \in Runs : \A i \in Steps : LeaseStands(r, i)
    BY <1>0, <1>10, LeasesStand DEF LeaseError
  <2> QED BY <1>10, <1>u, <2>1, <2>2, <2>3 DEF Passive
<1>11. CASE CommitError(w) /\ UNCHANGED counters
  BY <1>11, <1>u DEF CommitError, HandsIn, CommitsJob
<1>12. CASE /\ NextStepFail(w)
            /\ Inc(w, {"TasksFailed"} \cup FiredCounters(w))
  <2>1. ({"TasksFailed"} \cup FiredCounters(w)) \cap Ending = {}
    BY DEF Ending, FiredCounters
  <2>2. TotalsStill
    BY <1>12, <1>i, <2>1
  <2> QED BY <1>1, <1>12, <2>2 DEF NextStepFail
<1>13. CASE /\ ExecuteOdd(w)
            /\ Inc(w, IF job'[w].outcome = "raw" THEN {"TasksFailed"} ELSE {})
  <2>1. {"TasksFailed"} \cap Ending = {} /\ {} \cap Ending = {}
    BY DEF Ending
  <2>2. TotalsStill
    BY <1>13, <1>i, <2>1
  <2> QED BY <1>1, <1>13, <2>2 DEF ExecuteOdd
<1> QED
  BY <1>2, <1>3, <1>4, <1>5, <1>6, <1>7, <1>8, <1>9, <1>10, <1>11, <1>12, <1>13
     DEF CountedStep, CountedFault

LEMMA StepKinds ==
    ASSUME StoreInv, JobsOK, BooksOK, [MetricsNext]_metricsVars
    PROVE  Passive \/ \E w \in Workers : Takes(w) \/ HandsIn(w)
<1>d. DOMAIN counters = Procs
  BY DEF BooksOK
<1>u. UNCHANGED counters => TotalsStill
  BY StillIfUnchanged
<1>1. ASSUME NEW w \in Workers, CountedStep(w) \/ CountedFault(w)
      PROVE  Passive \/ Takes(w) \/ HandsIn(w)
  BY <1>1, WorkerKinds
<1>2. ASSUME UNCHANGED <<pc, job>>
      PROVE  SameTasks /\ \A w \in Workers : Busy(w)' => SameJob(w)
  BY <1>2 DEF Busy, SameJob, SameTasks
<1>3. ASSUME NEW p \in Procs, CountedReap(p) PROVE Passive
  <2>1. {"TasksReclaimed"} \cap Kept = {}
    BY DEF Kept
  <2>2. TotalsStill
    BY <1>d, <1>3, <1>u, <2>1, AddBooks, StillIfUnchanged DEF CountedReap
  <2> QED BY <1>2, <1>3, <2>2 DEF CountedReap, Reap, engineVars, Passive
<1>4. CASE CountedClient
  <2>1. {"RunsStarted"} \cap Kept = {}
    BY DEF Kept
  <2>2. TotalsStill
    BY <1>d, <1>4, <1>u, <2>1, AddBooks, StillIfUnchanged DEF CountedClient
  <2>3. Client /\ UNCHANGED <<pc, job>>
    BY <1>4 DEF CountedClient, Client, engineVars
  <2> QED BY <1>2, <2>2, <2>3, LeasesStand DEF Passive
<1>5. CASE Clock /\ UNCHANGED counters
  BY <1>2, <1>5, <1>u, LeasesStand DEF Clock, Passive
<1>6. ASSUME NEW p \in Procs, ReaperStop(p) \/ Sigterm(p) \/ Exit(p), UNCHANGED counters
      PROVE  Passive
  <2>1. UNCHANGED storeVars /\ UNCHANGED <<pc, job>>
    BY <1>6 DEF ReaperStop, Sigterm, Exit
  <2> QED BY <1>2, <1>6, <1>u, <2>1 DEF Passive
<1>7. ASSUME NEW p \in Procs, Crash(p), UNCHANGED counters PROVE Passive
  <2>1. UNCHANGED storeVars /\ \A w \in Workers : Busy(w)' => SameJob(w)
    BY <1>7 DEF Crash, Busy, SameJob
  <2> QED BY <1>7, <1>u, <2>1 DEF Passive
<1>8. ASSUME NEW p \in Procs, CountedRestart(p) PROVE Passive
  <2>1. UNCHANGED storeVars /\ \A w \in Workers : Busy(w)' => SameJob(w)
    BY <1>8 DEF CountedRestart, Restart, Busy, SameJob
  <2>2. /\ \A q \in Procs : q # p => counters'[q] = counters[q]
        /\ counters'[p] = NewCounters
    BY <1>d, <1>8 DEF CountedRestart
  <2>3. \A c \in Ending : NewCounters[c] = 0
    BY DEF NewCounters, Counter, Ending
  <2>4. \A q \in Procs : \A c \in Ending : counters[q][c] \in Nat
    BY DEF BooksOK, Kept, Ending
  <2>5. TotalsStill
    BY <2>2, <2>3, <2>4 DEF TotalsStill
  <2> QED BY <2>1, <2>5 DEF Passive
<1>9. CASE UNCHANGED metricsVars
  <2>1. UNCHANGED storeVars /\ UNCHANGED <<pc, job>> /\ UNCHANGED counters
    BY <1>9 DEF metricsVars, storeVars
  <2> QED BY <1>2, <1>u, <2>1 DEF Passive
<1> QED
  BY <1>1, <1>3, <1>4, <1>5, <1>6, <1>7, <1>8, <1>9 DEF MetricsNext

(* The leases owed for F make up for the tasks of F in hand, whatever the  *)
(* step; and a worker that drops a task whose lease it had lost leaves one *)
(* to spare.                                                               *)
Covers(F, n) ==
    /\ Held(F) \in Nat /\ Held(F)' \in Nat /\ Owed(F) \in Nat /\ Owed(F)' \in Nat
    /\ Held(F)' + Owed(F) + n <= Held(F) + Owed(F)'

(* A process that goes away drops tasks, each of one worker; what it drops *)
(* of the leases at work was worked by a worker of its own.                *)
LEMMA DroppedCovers ==
    ASSUME FiniteDeployment, StoreInv, StoreInv', [StoreNext]_storeVars,
           UNCHANGED storeVars, \A w \in Workers : Busy(w)' => SameJob(w),
           NEW F \in SUBSET (Runs \X Steps)
    PROVE  Covers(F, 0)
<1> DEFINE H == HeldIn(F)
           K == HeldIn(F)'
           G == WorkedIn(F) \ WorkedIn(F)'
           f == [x \in G |-> CHOOSE w \in Workers : WorkedBy(w, x)]
<1>1. K \subseteq H /\ IsFiniteSet(H) /\ IsFiniteSet(K)
  BY HeldFinite DEF HeldIn, SameJob
<1>2. ASSUME NEW x \in G
      PROVE  f[x] \in H \ K /\ x = <<job[f[x]].run, job[f[x]].step>>
  <2>1. PICK w : w = f[x]
    OBVIOUS
  <2>2. x \in F /\ x \notin WorkedIn(F)' /\ \E v \in Workers : WorkedBy(v, x)
    BY DEF WorkedIn
  <2>3. w \in Workers /\ WorkedBy(w, x)
    BY <2>1, <2>2
  <2>4. w \in H
    BY <2>2, <2>3 DEF WorkedBy, HeldIn
  <2>5. ASSUME Busy(w)' PROVE FALSE
    <3>1. job'[w].run = job[w].run /\ job'[w].step = job[w].step
      BY <2>3, <2>5 DEF SameJob
    <3>2. WorkedBy(w, x)'
      BY <2>3, <2>5, <3>1 DEF WorkedBy, HoldsLease, Fenced, storeVars
    <3> QED BY <2>2, <2>3, <3>2 DEF WorkedIn
  <2>6. w \notin K
    BY <2>5 DEF HeldIn
  <2>7. x = <<job[w].run, job[w].step>>
    BY <2>3 DEF WorkedBy
  <2> QED BY <2>1, <2>4, <2>6, <2>7
<1>3. DOMAIN f = G /\ f = [x \in G |-> f[x]]
  OBVIOUS
<1>4. WorkedIn(F) \subseteq WorkedIn(F)' \cup CancelledRows' \cup G
  OBVIOUS
<1>5. Held(F) = Cardinality(H) /\ Held(F)' = Cardinality(K)
  BY DEF Held
<1> HIDE DEF f, G, H, K
<1>6. f \in Injection(G, H \ K)
  BY <1>2, <1>3 DEF Injection, IsInjective
<1>7. IsFiniteSet(H \ K) /\ H = K \cup (H \ K)
  BY <1>1, FS_Difference
<1>8. /\ Cardinality(K) \in Nat /\ Cardinality(H \ K) \in Nat
      /\ Cardinality(H) = Cardinality(K) + Cardinality(H \ K)
  BY <1>1, <1>7, CountApart
<1>9. IsFiniteSet(G) /\ Cardinality(G) <= Cardinality(H \ K)
  BY <1>6, <1>7, FS_Injection
<1>10. Cardinality(G) \in Nat
  BY <1>9, FS_CardinalityType
<1>11. PICK E : E = {}
  OBVIOUS
<1>12. IsFiniteSet(E) /\ Cardinality(E) = 0
  BY <1>11, FS_EmptySet
<1>13. /\ Owed(F) \in Nat /\ Owed(F)' \in Nat
       /\ Owed(F) + Cardinality(E) <= Owed(F)' + Cardinality(G)
  BY <1>4, <1>9, <1>11, <1>12, OwedBalance
<1> QED BY <1>5, <1>8, <1>9, <1>10, <1>12, <1>13 DEF Covers

LEMMA PassiveCovers ==
    ASSUME FiniteDeployment, StoreInv, StoreInv', [StoreNext]_storeVars, Passive,
           NEW F \in SUBSET (Runs \X Steps)
    PROVE  Covers(F, 0)
<1>1. CASE UNCHANGED storeVars
  BY <1>1, DroppedCovers DEF Passive
<1>2. ASSUME SameTasks, \/ \A r \in Runs : \A i \in Steps : LeaseStands(r, i)
                        \/ ReapExpiredLeases
      PROVE  Covers(F, 0)
  <2>1. \A w \in Workers : GoesOn(w)
    BY <1>2 DEF SameTasks, GoesOn
  <2>2. \A x \in F : x[1] \in Runs /\ x[2] \in Steps
    OBVIOUS
  <2>3. Owed(F) \in Nat /\ Owed(F)' \in Nat /\ Owed(F) <= Owed(F)'
    BY <1>2, <2>1, <2>2, StandingOwed, ReapedOwed
  <2>4. Held(F) \in Nat /\ Held(F)' \in Nat /\ Held(F)' <= Held(F)
    BY HeldFinite, HeldStill DEF Passive
  <2> QED BY <2>3, <2>4 DEF Covers
<1> QED BY <1>1, <1>2 DEF Passive

LEMMA TakesCovers ==
    ASSUME FiniteDeployment, StoreInv, StoreInv', [StoreNext]_storeVars, JobsOK,
           NEW w \in Workers, Takes(w), NEW F \in SUBSET (Runs \X Steps)
    PROVE  Covers(F, 0)
<1>1. PICK r \in Runs, i \in Steps : Lease(w, r, i)
  BY DEF Takes
<1>2. PICK x \in Runs \X Steps : x = <<r, i>>
  OBVIOUS
<1>3. /\ tasks[r][i].status = "pending" /\ tasks'[r][i].status = "leased"
      /\ tasks'[r][i].leased_by = OwnerId[w]
  <2>1. tasks[r][i] \in TaskRow /\ tasks \in [Runs -> [Steps -> TaskRow]]
    BY DEF StoreInv, StoreTypeOK
  <2>2. \A o : /\ LeasedTo(tasks[r][i], o).status = "leased"
               /\ LeasedTo(tasks[r][i], o).leased_by = o
    BY <2>1 DEF LeasedTo, TaskRow
  <2> QED BY <1>1, <2>1, <2>2 DEF Lease, LeaseTask, Due
<1>4. \A q \in Runs : \A j \in Steps : LeaseStands(q, j)
  <2>1. OwnerId[w] \in Owners
    BY EngineAssumption
  <2> QED BY <1>1, <2>1, LeasesStand DEF Lease
<1>5. /\ ~Busy(w) /\ Busy(w)' /\ job'[w].run = r /\ job'[w].step = i
      /\ \A v \in Workers : v # w => job'[v] = job[v] /\ pc'[v] = pc[v]
  BY <1>1 DEF Lease, JobsOK, Busy
<1>6. \A v \in Workers : GoesOn(v)
  BY <1>5 DEF GoesOn, Busy
<1>7. x \in F => x \in WorkedIn(F)'
  <2>1. WorkedBy(w, x)'
    BY <1>2, <1>3, <1>5 DEF WorkedBy, HoldsLease, Fenced
  <2> QED BY <2>1 DEF WorkedIn
<1>8. Owed(F) \in Nat /\ Owed(F)' \in Nat /\ Owed(F) + One(x \in F) <= Owed(F)'
  BY <1>2, <1>3, <1>4, <1>6, <1>7, TakenOwed
<1>9. Held(F) \in Nat /\ Held(F)' \in Nat /\ Held(F)' <= Held(F) + One(x \in F)
  BY <1>1, <1>2, HeldFinite, HeldMore
<1>10. One(x \in F) \in Nat
  BY DEF One
<1> QED BY <1>8, <1>9, <1>10 DEF Covers

LEMMA CommitCovers ==
    ASSUME FiniteDeployment, StoreInv, StoreInv', [StoreNext]_storeVars, JobsOK,
           NEW w \in Workers, BackToPoll(w), NEW F \in SUBSET (Runs \X Steps),
           UNCHANGED storeVars \/ CommitsJob(w)
    PROVE  /\ Covers(F, 0)
           /\ UNCHANGED storeVars /\ ~HoldsLease(w) =>
                 Covers(F, One(<<job[w].run, job[w].step>> \in F))
<1>1. job[w].run \in Runs /\ job[w].step \in Steps
  BY DEF JobsOK, Job, BackToPoll, Busy
<1>2. PICK x \in Runs \X Steps : x = <<job[w].run, job[w].step>>
  BY <1>1
<1>3. /\ Held(F) \in Nat /\ Held(F)' \in Nat
      /\ Held(F)' + One(x \in F) <= Held(F)
  BY <1>2, HeldFinite, HeldLess
<1>4. One(x \in F) \in Nat
  BY DEF One
<1>5. \A v \in Workers : v # w => GoesOn(v)
  BY DEF BackToPoll, JobsOK, GoesOn, Busy
<1>6. \A q \in Runs : \A j \in Steps : x # <<q, j>> => LeaseStands(q, j)
  BY <1>2, OthersStand, LeasesStand DEF CommitsJob
<1>7. Covers(F, 0)
  <2>1. Owed(F) \in Nat /\ Owed(F)' \in Nat /\ Owed(F) <= Owed(F)' + One(x \in F)
    BY <1>2, <1>5, <1>6, ConcludedOwed
  <2> QED BY <1>3, <1>4, <2>1 DEF Covers
<1>8. ASSUME UNCHANGED storeVars, ~HoldsLease(w) PROVE Covers(F, One(x \in F))
  <2>1. \A q \in Runs : \A j \in Steps : LeaseStands(q, j)
    BY <1>8, LeasesStand
  <2>2. \A y \in F : \A v \in Workers : WorkedBy(v, y) => GoesOn(v)
    BY <1>5, <1>8 DEF WorkedBy
  <2>3. \A y \in F : y[1] \in Runs /\ y[2] \in Steps
    OBVIOUS
  <2>4. Owed(F) \in Nat /\ Owed(F)' \in Nat /\ Owed(F) <= Owed(F)'
    BY <2>1, <2>2, <2>3, StandingOwed
  <2> QED BY <1>3, <1>4, <2>4 DEF Covers
<1> QED BY <1>2, <1>7, <1>8

(* A commit that took effect is in the history.                            *)
LEMMA CommitEvents ==
    ASSUME FiniteDeployment, StoreInv, StoreInv', [StoreNext]_storeVars, JobsOK,
           NEW w \in Workers, BackToPoll(w)
    PROVE  /\ AdvanceJob(w) =>
                 EventCount("ActivityCompleted") + 1 <= EventCount("ActivityCompleted")'
           /\ AdvanceJob(w) /\ Finished(job[w].run, job[w].step) =>
                 EventCount("WorkflowCompleted") + 1 <= EventCount("WorkflowCompleted")'
           /\ DeadLetterJob(w) =>
                 EventCount("ActivityDeadLettered") + 1
                    <= EventCount("ActivityDeadLettered")'
<1>0. job[w].run \in Runs /\ job[w].step \in Steps
  BY DEF JobsOK, Job, BackToPoll, Busy
<1>1. PICK r \in Runs, i \in Steps : r = job[w].run /\ i = job[w].step
  BY <1>0
<1>2. PICK s \in Seq(Event) : s = events[r]
  BY DEF StoreInv, StoreTypeOK
<1>3. events \in [Runs -> Seq(Event)]
  BY DEF StoreInv, StoreTypeOK
<1>4. ASSUME NEW e \in Event, NEW d \in Event,
             events' = AppendEvents(r, <<e, d>>)
      PROVE  /\ EventCount(e.type) + 1 <= EventCount(e.type)'
             /\ EventCount(d.type) + 1 <= EventCount(d.type)'
  <2>1. PICK t : t = Append(Append(s, e), d)
    OBVIOUS
  <2>2. events'[r] = s \o <<e, d>>
    BY <1>2, <1>3, <1>4 DEF AppendEvents
  <2>3. events'[r] = t
    BY <2>1, <2>2, Concatenated
  <2>4. /\ \E k \in DOMAIN t : k \notin DOMAIN s /\ t[k] = e
        /\ \E k \in DOMAIN t : k \notin DOMAIN s /\ t[k] = d
    BY <2>1, AppendedTwice
  <2>5. /\ \E k \in DOMAIN events'[r] :
              k \notin DOMAIN events[r] /\ events'[r][k].type = e.type
        /\ \E k \in DOMAIN events'[r] :
              k \notin DOMAIN events[r] /\ events'[r][k].type = d.type
    BY <1>2, <2>3, <2>4
  <2> QED BY <2>5, EventsCounted
<1>5. ASSUME NEW j \in Steps
      PROVE  /\ Ev("ActivityCompleted", j) \in Event
             /\ Ev("ActivityScheduled", j) \in Event
             /\ Ev("ActivityDeadLettered", j) \in Event
             /\ Ev("WorkflowCompleted", NoStep) \in Event
             /\ Ev("WorkflowFailed", NoStep) \in Event
  BY EventTypes DEF EventType
<1>6. \A type, j : Ev(type, j).type = type
  BY DEF Ev
<1>7. ASSUME AdvanceJob(w)
      PROVE  /\ EventCount("ActivityCompleted") + 1 <= EventCount("ActivityCompleted")'
             /\ Finished(r, i) =>
                 EventCount("WorkflowCompleted") + 1 <= EventCount("WorkflowCompleted")'
  <2>1. PICK o \in Owners : \E p \in ResultsBy(o) : Advance(r, i, o, p)
    <3>1. OwnerId[w] \in Owners /\ ResultOf(w) \in ResultsBy(OwnerId[w])
      BY <1>0, <1>7, EngineAssumption
         DEF AdvanceJob, ResultOf, ResultsBy, Forms, JobsOK, Job, BackToPoll, Busy
    <3> QED BY <1>1, <1>7, <3>1 DEF AdvanceJob
  <2>p. PICK p \in ResultsBy(o) : Advance(r, i, o, p)
    BY <2>1
  <2>2. CASE Finished(r, i)
    <3>1. PICK e \in Event, d \in Event :
             e = Ev("ActivityCompleted", i) /\ d = Ev("WorkflowCompleted", NoStep)
      BY <1>5
    <3>2. events' = AppendEvents(r, <<e, d>>)
      BY <2>p, <2>2, <3>1 DEF Advance, AdvanceFinish
    <3>3. e.type = "ActivityCompleted" /\ d.type = "WorkflowCompleted"
      BY <1>6, <3>1
    <3> QED BY <1>4, <3>2, <3>3
  <2>3. CASE ~Finished(r, i)
    <3>1. i + 1 \in Steps
      <4>1. PassesOn(r, i, p) \/ FinishesRun(r, i, p)
        BY <2>p, AdvanceEffect
      <4>2. i \in Int /\ runs[r].total_steps = TotalSteps(runs[r].workflow)
            /\ runs[r].total_steps \in Nat
        BY <4>1, WorkedStep, TypesAssumption
           DEF PassesOn, FinishesRun, Steps, StoreInv, StoreTypeOK, RunRow
      <4> QED BY <2>3, <4>1, <4>2 DEF PassesOn, FinishesRun, Finished
    <3>2. PICK e \in Event, d \in Event :
             e = Ev("ActivityCompleted", i) /\ d = Ev("ActivityScheduled", i + 1)
      BY <1>5, <3>1
    <3>3. events' = AppendEvents(r, <<e, d>>)
      BY <2>p, <2>3, <3>2 DEF Advance, AdvanceNext
    <3>4. e.type = "ActivityCompleted"
      BY <1>6, <3>2
    <3> QED BY <1>4, <2>3, <3>3, <3>4
  <2> QED BY <2>2, <2>3
<1>8. ASSUME DeadLetterJob(w)
      PROVE  EventCount("ActivityDeadLettered") + 1
                <= EventCount("ActivityDeadLettered")'
  <2>1. PICK e \in Event, d \in Event :
           e = Ev("ActivityDeadLettered", i) /\ d = Ev("WorkflowFailed", NoStep)
    BY <1>5
  <2>2. events' = AppendEvents(r, <<e, d>>)
    BY <1>1, <1>8, <2>1 DEF DeadLetterJob, DeadLetter
  <2>3. e.type = "ActivityDeadLettered"
    BY <1>6, <2>1
  <2> QED BY <1>4, <2>2, <2>3
<1> QED BY <1>1, <1>7, <1>8

----------------------------------------------------------------------------
(* The rows of last steps, of the runs there are.                          *)
LastRows ==
    {x \in Runs \X Steps : runs[x[1]].status # "none" /\ Finished(x[1], x[2])}

JobsStarted == \A w \in Workers : Busy(w) => runs[job[w].run].status # "none"

TasksBacked ==
    Held(Runs \X Steps) + Total("TasksCompleted") + Total("TasksDead")
       <= Owed(Runs \X Steps)
          + EventCount("ActivityCompleted") + EventCount("ActivityDeadLettered")

RunsBacked ==
    Held(LastRows) + Total("RunsCompleted")
       <= Owed(LastRows) + EventCount("WorkflowCompleted")

LEMMA JobsStartedStep ==
    ASSUME StoreInv, JobsOK, JobsStarted, [Next]_vars
    PROVE  /\ JobsStarted'
           /\ \A w \in Workers : Busy(w)' =>
                 /\ job'[w].run \in Runs /\ job'[w].step \in Steps
                 /\ runs[job'[w].run].status # "none"
<1>0. [StoreNext]_storeVars
  BY EngineStepIsStoreStep
<1>1. ASSUME NEW w \in Workers, Busy(w)'
      PROVE  /\ job'[w].run \in Runs /\ job'[w].step \in Steps
             /\ runs[job'[w].run].status # "none"
  <2>1. CASE SameJob(w)
    BY <2>1 DEF SameJob, JobsStarted, JobsOK, Job
  <2>2. ASSUME NEW r \in Runs, NEW i \in Steps, Lease(w, r, i)
        PROVE  /\ job'[w].run \in Runs /\ job'[w].step \in Steps
               /\ runs[job'[w].run].status # "none"
    <3>1. job'[w].run = r /\ job'[w].step = i
      BY <2>2 DEF Lease, JobsOK
    <3>2. tasks[r][i].status = "pending"
      BY <2>2 DEF Lease, LeaseTask, Due
    <3>3. runs[r].status \in {"running", "failed"}
      BY <3>2, WorkedStep DEF WorksOn
    <3> QED BY <3>1, <3>3
  <2> QED BY <1>1, <2>1, <2>2, JobKept
<1>2. \A w \in Workers : Busy(w)' => runs'[job'[w].run].status # "none"
  BY <1>0, <1>1, WorkflowsKept
<1> QED BY <1>1, <1>2 DEF JobsStarted

(* The counters of tasks: every step pays for what it counts.              *)
LEMMA TasksBackedStep ==
    ASSUME FiniteDeployment, StoreInv, StoreInv', JobsOK, BooksOK, BooksOK',
           [StoreNext]_storeVars, [MetricsNext]_metricsVars, TasksBacked
    PROVE  TasksBacked'
<1> DEFINE h == Held(Runs \X Steps)
           h1 == Held(Runs \X Steps)'
           o == Owed(Runs \X Steps)
           o1 == Owed(Runs \X Steps)'
           c == Total("TasksCompleted")
           c1 == Total("TasksCompleted")'
           d == Total("TasksDead")
           d1 == Total("TasksDead")'
           e == EventCount("ActivityCompleted")
           e1 == EventCount("ActivityCompleted")'
           f == EventCount("ActivityDeadLettered")
           f1 == EventCount("ActivityDeadLettered")'
<1>1. PICK F \in SUBSET (Runs \X Steps) : F = Runs \X Steps
  OBVIOUS
<1>2. /\ c \in Nat /\ c1 \in Nat /\ d \in Nat /\ d1 \in Nat
      /\ TotalsStill => c1 <= c /\ d1 <= d
  BY TotalsType, TotalStays DEF Ending
<1>3. ASSUME NEW w \in Workers, NEW cs, Counts(w, cs)
      PROVE  c1 <= c + One("TasksCompleted" \in cs) /\ d1 <= d + One("TasksDead" \in cs)
  BY <1>3, TotalCounts DEF Ending
<1>4. /\ e \in Nat /\ e1 \in Nat /\ e <= e1
      /\ f \in Nat /\ f1 \in Nat /\ f <= f1
  BY EventsCounted
<1>5. h + c + d <= o + e + f
  BY DEF TasksBacked
<1>6. SUFFICES h1 + c1 + d1 <= o1 + e1 + f1
  BY DEF TasksBacked
<1>7. \A n : Covers(F, n) => /\ h \in Nat /\ h1 \in Nat /\ o \in Nat /\ o1 \in Nat
                             /\ h1 + o + n <= h + o1
  BY <1>1 DEF Covers
<1>8. ASSUME NEW w \in Workers, BackToPoll(w)
      PROVE  /\ AdvanceJob(w) => e + 1 <= e1
             /\ DeadLetterJob(w) => f + 1 <= f1
             /\ UNCHANGED storeVars \/ CommitsJob(w) => Covers(F, 0)
             /\ UNCHANGED storeVars /\ ~HoldsLease(w) => Covers(F, 1)
  <2>1. <<job[w].run, job[w].step>> \in F
    BY <1>1, <1>8 DEF JobsOK, Job, BackToPoll, Busy
  <2>2. One(<<job[w].run, job[w].step>> \in F) = 1
    BY <2>1 DEF One
  <2> QED BY <1>8, <2>2, CommitEvents, CommitCovers
<1> HIDE DEF h, h1, o, o1, c, c1, d, d1, e, e1, f, f1
<1>9. ASSUME TotalsStill, Covers(F, 0) PROVE h1 + c1 + d1 <= o1 + e1 + f1
  BY <1>2, <1>4, <1>5, <1>7, <1>9
<1>10. CASE Passive
  BY <1>9, <1>10, PassiveCovers DEF Passive
<1>11. ASSUME NEW w \in Workers, Takes(w) PROVE h1 + c1 + d1 <= o1 + e1 + f1
  BY <1>9, <1>11, TakesCovers DEF Takes
<1>12. ASSUME NEW w \in Workers, HandsIn(w) PROVE h1 + c1 + d1 <= o1 + e1 + f1
  <2>0. BackToPoll(w)
    BY <1>12 DEF HandsIn
  <2>1. CASE TotalsStill /\ (UNCHANGED storeVars \/ CommitsJob(w))
    BY <1>8, <1>9, <2>0, <2>1
  <2>2. ASSUME UNCHANGED storeVars, ~HoldsLease(w), NEW cs \in DiscardedCounters(w), Counts(w, cs)
        PROVE  h1 + c1 + d1 <= o1 + e1 + f1
    <3>1. "TasksCompleted" \notin cs \/ "TasksDead" \notin cs
      BY DEF DiscardedCounters, CompletedCounters
    <3>2. c1 + d1 <= c + d + 1
      BY <1>2, <1>3, <2>2, <3>1 DEF One
    <3>3. /\ h \in Nat /\ h1 \in Nat /\ o \in Nat /\ o1 \in Nat
          /\ h1 + o + 1 <= h + o1
      BY <1>7, <1>8, <2>0, <2>2
    <3> QED BY <1>2, <1>4, <1>5, <3>2, <3>3
  <2>3. CASE AdvanceJob(w) /\ Counts(w, CompletedCounters(w))
    <3>1. "TasksDead" \notin CompletedCounters(w)
      BY DEF CompletedCounters
    <3>2. c1 <= c + 1 /\ d1 <= d
      BY <1>2, <1>3, <2>3, <3>1 DEF One
    <3>3. e + 1 <= e1 /\ Covers(F, 0)
      BY <1>8, <2>0, <2>3 DEF CommitsJob
    <3> QED BY <1>2, <1>4, <1>5, <1>7, <3>2, <3>3
  <2>4. CASE DeadLetterJob(w) /\ Counts(w, {"TasksDead"})
    <3>1. "TasksCompleted" \notin {"TasksDead"}
      OBVIOUS
    <3>2. c1 <= c /\ d1 <= d + 1
      BY <1>2, <1>3, <2>4, <3>1 DEF One
    <3>3. f + 1 <= f1 /\ Covers(F, 0)
      BY <1>8, <2>0, <2>4 DEF CommitsJob
    <3> QED BY <1>2, <1>4, <1>5, <1>7, <3>2, <3>3
  <2> QED BY <1>12, <2>1, <2>2, <2>3, <2>4 DEF HandsIn
<1> QED BY <1>10, <1>11, <1>12, StepKinds

(* The last steps of the runs there are now, seen from the next state.     *)
LEMMA LastRowsMove ==
    ASSUME FiniteDeployment, StoreInv, StoreInv', JobsOK, JobsStarted,
           [Next]_vars, [StoreNext]_storeVars, NEW F \in SUBSET (Runs \X Steps),
           F = LastRows, Owed(F)' \in Nat
    PROVE  /\ Held(LastRows)' \in Nat /\ Owed(LastRows)' \in Nat
           /\ Held(LastRows)' <= Held(F)' /\ Owed(F)' <= Owed(LastRows)'
<1>1. ASSUME NEW r \in Runs, runs[r].status # "none"
      PROVE  /\ runs'[r].status # "none"
             /\ \A i \in Steps : Finished(r, i)' <=> Finished(r, i)
  BY <1>1, WorkflowsKept DEF Finished
<1>2. F \subseteq LastRows'
  BY <1>1 DEF LastRows
<1>3. HeldIn(LastRows)' \subseteq HeldIn(F)'
  <2> SUFFICES ASSUME NEW w \in Workers, Busy(w)', <<job'[w].run, job'[w].step>> \in LastRows'
               PROVE  <<job'[w].run, job'[w].step>> \in F
    BY DEF HeldIn
  <2>1. PICK r \in Runs, i \in Steps :
           /\ r = job'[w].run /\ i = job'[w].step /\ runs[r].status # "none"
    BY JobsStartedStep
  <2>2. Finished(r, i)'
    BY <2>1 DEF LastRows
  <2> QED BY <1>1, <2>1, <2>2 DEF LastRows
<1>4. /\ Held(LastRows)' \in Nat /\ Held(F)' \in Nat
      /\ Held(LastRows)' <= Held(F)'
  <2>1. IsFiniteSet(HeldIn(F)')
    BY HeldFinite
  <2> QED BY <1>3, <2>1, CountMore DEF Held
<1>5. WorkedIn(F)' \subseteq WorkedIn(LastRows)'
  BY <1>2 DEF WorkedIn
<1>6. IsFiniteSet(WorkedIn(LastRows)')
  <2>1. WorkedIn(LastRows)' \subseteq Rows(tasks', Runs \X Steps, "leased")
    BY DEF LastRows, WorkedIn, WorkedBy, HoldsLease, Fenced, Rows
  <2>2. IsFiniteSet(Rows(tasks', Runs \X Steps, "leased"))
    BY RowsFinite
  <2> QED BY <2>1, <2>2, FS_Subset
<1>7. /\ Cardinality(WorkedIn(F)') \in Nat /\ Cardinality(WorkedIn(LastRows)') \in Nat
      /\ Cardinality(WorkedIn(F)') <= Cardinality(WorkedIn(LastRows)')
  BY <1>5, <1>6, CountMore
<1>8. LeasesTakenAway' \in Nat
  <2>1. EventCount("TaskReclaimed")' \in Nat
    BY EventsCounted
  <2>2. IsFiniteSet(CancelledRows')
    BY RowsFinite DEF CancelledRows
  <2>3. Cardinality(CancelledRows') \in Nat
    BY <2>2, FS_CardinalityType
  <2> QED BY <2>1, <2>3 DEF LeasesTakenAway, CancelledRows, Rows
<1> QED BY <1>4, <1>7, <1>8 DEF Owed

LEMMA RunsBackedStep ==
    ASSUME FiniteDeployment, StoreInv, StoreInv', JobsOK, BooksOK, BooksOK',
           JobsStarted, [Next]_vars,
           [StoreNext]_storeVars, [MetricsNext]_metricsVars, RunsBacked
    PROVE  RunsBacked'
<1> DEFINE c == Total("RunsCompleted")
           c1 == Total("RunsCompleted")'
           e == EventCount("WorkflowCompleted")
           e1 == EventCount("WorkflowCompleted")'
<1>1. PICK F \in SUBSET (Runs \X Steps) : F = LastRows
  BY DEF LastRows
<1> DEFINE h == Held(F)
           h1 == Held(F)'
           o == Owed(F)
           o1 == Owed(F)'
<1>2. /\ c \in Nat /\ c1 \in Nat
      /\ TotalsStill => c1 <= c
  BY TotalsType, TotalStays DEF Ending
<1>3. ASSUME NEW w \in Workers, NEW cs, Counts(w, cs)
      PROVE  c1 <= c + One("RunsCompleted" \in cs)
  BY <1>3, TotalCounts DEF Ending
<1>4. e \in Nat /\ e1 \in Nat /\ e <= e1
  BY EventsCounted
<1>5. h + c <= o + e
  BY <1>1 DEF RunsBacked
<1>6. SUFFICES /\ h1 \in Nat /\ o1 \in Nat
               /\ h1 + c1 <= o1 + e1
  <2>1. /\ Held(LastRows)' \in Nat /\ Owed(LastRows)' \in Nat
        /\ Held(LastRows)' <= h1 /\ o1 <= Owed(LastRows)'
    BY <1>1, <1>6, LastRowsMove
  <2>2. Held(LastRows)' + c1 <= Owed(LastRows)' + e1
    <3> DEFINE x == Held(LastRows)'
               y == Owed(LastRows)'
    <3> HIDE DEF h1, o1, c1, e1, x, y
    <3>1. x \in Nat /\ y \in Nat /\ x <= h1 /\ o1 <= y
      BY <2>1 DEF x, y
    <3>2. x + c1 <= y + e1
      BY <1>2, <1>4, <1>6, <3>1
    <3> QED BY <3>2 DEF x, y
  <2> QED BY <2>2 DEF RunsBacked
<1>7. \A n : Covers(F, n) => /\ h \in Nat /\ h1 \in Nat /\ o \in Nat /\ o1 \in Nat
                             /\ h1 + o + n <= h + o1
  BY DEF Covers
<1>8. ASSUME NEW w \in Workers, BackToPoll(w)
      PROVE  /\ AdvanceJob(w) => e + One("RunsCompleted" \in CompletedCounters(w)) <= e1
             /\ UNCHANGED storeVars \/ CommitsJob(w) => Covers(F, 0)
             /\ UNCHANGED storeVars /\ ~HoldsLease(w) =>
                   Covers(F, One("RunsCompleted" \in CompletedCounters(w)))
  <2>1. PICK r \in Runs, i \in Steps :
           r = job[w].run /\ i = job[w].step /\ runs[r].status # "none"
    BY <1>8 DEF JobsOK, Job, JobsStarted, BackToPoll, Busy
  <2>2. "RunsCompleted" \in CompletedCounters(w) <=> Finished(r, i)
    BY <2>1 DEF CompletedCounters
  <2>3. <<r, i>> \in F <=> Finished(r, i)
    BY <1>1, <2>1 DEF LastRows
  <2>4. One(<<job[w].run, job[w].step>> \in F)
           = One("RunsCompleted" \in CompletedCounters(w))
    BY <2>1, <2>2, <2>3 DEF One
  <2>5. AdvanceJob(w) => e + One("RunsCompleted" \in CompletedCounters(w)) <= e1
    BY <1>4, <1>8, <2>1, <2>2, CommitEvents DEF One
  <2> QED BY <1>8, <2>4, <2>5, CommitCovers
<1> HIDE DEF h, h1, o, o1, c, c1, e, e1
<1>9. ASSUME TotalsStill, Covers(F, 0)
      PROVE  h1 \in Nat /\ o1 \in Nat /\ h1 + c1 <= o1 + e1
  BY <1>2, <1>4, <1>5, <1>7, <1>9
<1>10. CASE Passive
  BY <1>9, <1>10, PassiveCovers DEF Passive
<1>11. ASSUME NEW w \in Workers, Takes(w)
       PROVE  h1 \in Nat /\ o1 \in Nat /\ h1 + c1 <= o1 + e1
  BY <1>9, <1>11, TakesCovers DEF Takes
<1>12. ASSUME NEW w \in Workers, HandsIn(w)
       PROVE  h1 \in Nat /\ o1 \in Nat /\ h1 + c1 <= o1 + e1
  <2>0. BackToPoll(w)
    BY <1>12 DEF HandsIn
  <2>n. PICK n \in Nat : n = One("RunsCompleted" \in CompletedCounters(w))
    BY DEF One
  <2>1. CASE TotalsStill /\ (UNCHANGED storeVars \/ CommitsJob(w))
    BY <1>8, <1>9, <2>0, <2>1
  <2>2. ASSUME UNCHANGED storeVars, ~HoldsLease(w), NEW cs \in DiscardedCounters(w), Counts(w, cs)
        PROVE  h1 \in Nat /\ o1 \in Nat /\ h1 + c1 <= o1 + e1
    <3>1. "RunsCompleted" \in cs => "RunsCompleted" \in CompletedCounters(w)
      BY DEF DiscardedCounters
    <3>2. c1 <= c + n
      BY <1>2, <1>3, <2>n, <2>2, <3>1 DEF One
    <3>3. /\ h \in Nat /\ h1 \in Nat /\ o \in Nat /\ o1 \in Nat
          /\ h1 + o + n <= h + o1
      BY <1>7, <1>8, <2>n, <2>0, <2>2
    <3> QED BY <1>2, <1>4, <1>5, <3>2, <3>3
  <2>3. CASE AdvanceJob(w) /\ Counts(w, CompletedCounters(w))
    <3>1. c1 <= c + n /\ e + n <= e1 /\ Covers(F, 0)
      BY <1>3, <1>8, <2>0, <2>n, <2>3 DEF CommitsJob
    <3> QED BY <1>2, <1>4, <1>5, <1>7, <3>1
  <2>4. CASE DeadLetterJob(w) /\ Counts(w, {"TasksDead"})
    <3>1. "RunsCompleted" \notin {"TasksDead"}
      OBVIOUS
    <3>2. c1 <= c /\ Covers(F, 0)
      BY <1>2, <1>3, <1>8, <2>0, <2>4, <3>1 DEF CommitsJob, One
    <3> QED BY <1>2, <1>4, <1>5, <1>7, <3>2
  <2> QED BY <1>12, <2>1, <2>2, <2>3, <2>4 DEF HandsIn
<1> QED BY <1>10, <1>11, <1>12, StepKinds

LEMMA BackedInit ==
    ASSUME FiniteDeployment, MetricsInit, StoreInv
    PROVE  JobsStarted /\ TasksBacked /\ RunsBacked
<1>1. Init /\ counters = [p \in Procs |-> NewCounters]
  BY DEF MetricsInit
<1>2. ASSUME NEW F PROVE Held(F) = 0
  <2>1. HeldIn(F) = {}
    BY <1>1 DEF Init, HeldIn, Busy
  <2> QED BY <2>1, FS_EmptySet DEF Held
<1>3. ASSUME NEW c \in Ending PROVE Total(c) = 0
  <2>1. \A p \in Procs : counters[p][c] = 0
    BY <1>1 DEF NewCounters, Counter, Ending
  <2>2. Marks(counters, c) = {}
    BY <2>1 DEF Marks
  <2> QED BY <2>2, CountedSets, FS_EmptySet
<1>4. ASSUME NEW type PROVE EventCount(type) \in Nat
  <2>1. IsFiniteSet(Places(events, type))
    BY PlacesFinite DEF StoreInv, StoreTypeOK
  <2> QED BY <2>1, CountedSets, FS_CardinalityType
<1>5. ASSUME NEW F \in SUBSET (Runs \X Steps) PROVE Owed(F) \in Nat
  <2>1. IsFiniteSet(CancelledRows)
    BY RowsFinite DEF CancelledRows
  <2>2. WorkedIn(F) = {}
    BY <1>1 DEF Init, WorkedIn, WorkedBy, Busy
  <2>3. Cardinality(WorkedIn(F)) \in Nat /\ Cardinality(CancelledRows) \in Nat
    BY <2>1, <2>2, FS_EmptySet, FS_CardinalityType
  <2> QED BY <1>4, <2>3 DEF Owed, LeasesTakenAway, CancelledRows, Rows
<1>6. JobsStarted
  BY <1>1 DEF Init, JobsStarted, Busy
<1>7. TasksBacked
  <2>1. Owed(Runs \X Steps) \in Nat
    BY <1>5
  <2> QED BY <1>2, <1>3, <1>4, <2>1 DEF TasksBacked, Ending
<1>8. RunsBacked
  <2>1. PICK F \in SUBSET (Runs \X Steps) : F = LastRows
    BY DEF LastRows
  <2>2. Owed(LastRows) \in Nat
    BY <1>5, <2>1
  <2> QED BY <1>2, <1>3, <1>4, <2>2 DEF RunsBacked, Ending
<1> QED BY <1>6, <1>7, <1>8

(* Every lease at work has a worker of its own, so what the tasks in hand  *)
(* leave for the counters is events and leases taken away.                 *)
LEMMA WorkedIsHeld ==
    ASSUME FiniteDeployment, NEW F
    PROVE  /\ Cardinality(WorkedIn(F)) \in Nat /\ Held(F) \in Nat
           /\ Cardinality(WorkedIn(F)) <= Held(F)
<1> DEFINE G == WorkedIn(F)
           H == HeldIn(F)
           f == [x \in G |-> CHOOSE w \in Workers : WorkedBy(w, x)]
<1>1. ASSUME NEW x \in G
      PROVE  f[x] \in H /\ x = <<job[f[x]].run, job[f[x]].step>>
  <2>1. PICK w : w = f[x]
    OBVIOUS
  <2>2. x \in F /\ \E v \in Workers : WorkedBy(v, x)
    BY DEF WorkedIn
  <2>3. w \in Workers /\ WorkedBy(w, x)
    BY <2>1, <2>2
  <2> QED BY <2>1, <2>2, <2>3 DEF WorkedBy, HeldIn
<1>2. f = [x \in G |-> f[x]]
  OBVIOUS
<1>3. IsFiniteSet(H)
  BY HeldFinite
<1> HIDE DEF f, G, H
<1>4. f \in Injection(G, H)
  BY <1>1, <1>2 DEF Injection, IsInjective
<1>5. IsFiniteSet(G) /\ Cardinality(G) <= Cardinality(H)
  BY <1>3, <1>4, FS_Injection
<1>6. Cardinality(G) \in Nat /\ Cardinality(H) \in Nat
  BY <1>3, <1>5, FS_CardinalityType
<1> QED BY <1>5, <1>6 DEF G, H, Held

LEMMA BackedSums ==
    ASSUME FiniteDeployment, StoreInv, BooksOK, TasksBacked, RunsBacked
    PROVE  CountsAreBacked
<1> DEFINE a == LeasesTakenAway
           c == Total("TasksCompleted")
           d == Total("TasksDead")
           e == Total("RunsCompleted")
           x == EventCount("ActivityCompleted")
           y == EventCount("ActivityDeadLettered")
           z == EventCount("WorkflowCompleted")
<1>1. ASSUME NEW F
      PROVE  /\ Held(F) \in Nat
             /\ \E n \in 0 .. Held(F) : Owed(F) = n + a
  BY WorkedIsHeld DEF Owed
<1>2. ASSUME NEW k \in Ending PROVE Total(k) \in Nat
  <2>1. \A p \in Procs : counters[p][k] \in Nat
    BY DEF BooksOK, Kept, Ending
  <2>2. IsFiniteSet(Marks(counters, k))
    BY <2>1, MarksFinite
  <2> QED BY <2>2, CountedSets, FS_CardinalityType
<1>3. ASSUME NEW type PROVE EventCount(type) \in Nat
  <2>1. IsFiniteSet(Places(events, type))
    BY PlacesFinite DEF StoreInv, StoreTypeOK
  <2> QED BY <2>1, CountedSets, FS_CardinalityType
<1>4. a \in Nat
  <2>1. IsFiniteSet(CancelledRows)
    BY RowsFinite DEF CancelledRows
  <2>2. Cardinality(CancelledRows) \in Nat
    BY <2>1, FS_CardinalityType
  <2> QED BY <1>3, <2>2 DEF LeasesTakenAway, CancelledRows, Rows
<1>5. /\ c \in Nat /\ d \in Nat /\ e \in Nat
      /\ x \in Nat /\ y \in Nat /\ z \in Nat
  BY <1>2, <1>3 DEF Ending
<1> HIDE DEF a, c, d, e, x, y, z
<1>6. c + d <= x + y + a
  <2>1. PICK h \in Nat, n \in Nat :
           h = Held(Runs \X Steps) /\ n <= h /\ Owed(Runs \X Steps) = n + a
    BY <1>1
  <2>2. h + c + d <= n + a + x + y
    BY <2>1 DEF TasksBacked, c, d, x, y
  <2> QED BY <1>4, <1>5, <2>1, <2>2
<1>7. e <= z + a
  <2>1. PICK h \in Nat, n \in Nat :
           h = Held(LastRows) /\ n <= h /\ Owed(LastRows) = n + a
    BY <1>1
  <2>2. h + e <= n + a + z
    BY <2>1 DEF RunsBacked, e, z
  <2> QED BY <1>4, <1>5, <2>1, <2>2
<1> QED BY <1>6, <1>7 DEF CountsAreBacked, a, c, d, e, x, y, z

(* For any number of processes, workers, runs and faults, also where       *)
(* workers share an id: the tasks counted as completed or dead are no more *)
(* than the history shows plus the leases the reaper and cancels took away *)
(* while they stood, and so are the runs counted as completed.             *)
THEOREM CountersAreBacked == FiniteDeployment => (MetricsSpec => []CountsAreBacked)
<1> SUFFICES ASSUME FiniteDeployment PROVE MetricsSpec => []CountsAreBacked
  OBVIOUS
<1> DEFINE Inv == BooksInv /\ JobsStarted /\ TasksBacked /\ RunsBacked
<1>1. MetricsInit => Inv
  BY BooksInit, BackedInit DEF BooksInv
<1>2. Inv /\ [MetricsNext]_metricsVars => Inv'
  <2> SUFFICES ASSUME Inv, [MetricsNext]_metricsVars PROVE Inv'
    OBVIOUS
  <2>0. StoreInv /\ JobsOK /\ BooksOK
    BY DEF BooksInv
  <2>1. [Next]_vars
    BY MetricsStep
  <2>2. [StoreNext]_storeVars
    BY <2>0, <2>1, EngineStepIsStoreStep
  <2>3. BooksInv' /\ StoreInv' /\ BooksOK'
    BY BooksNext DEF BooksInv
  <2>4. JobsStarted'
    BY <2>0, <2>1, JobsStartedStep
  <2>5. TasksBacked' /\ RunsBacked'
    BY <2>0, <2>1, <2>2, <2>3, TasksBackedStep, RunsBackedStep
  <2> QED BY <2>3, <2>4, <2>5
<1>3. Inv => CountsAreBacked
  BY BackedSums DEF BooksInv
<1> QED BY <1>1, <1>2, <1>3, PTL DEF MetricsSpec

=============================================================================
