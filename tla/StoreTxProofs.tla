--------------------------- MODULE StoreTxProofs ---------------------------
(***************************************************************************)
(* Proofs about StoreTx: however the statements of any number of           *)
(* transactions interleave, each takes effect as one transaction of the    *)
(* store.                                                                  *)
(***************************************************************************)
EXTENDS StoreTx, DuraflowStoreProofs, SequenceTheorems

----------------------------------------------------------------------------
(* What a transaction has done so far is one of eleven forms.  Each says   *)
(* what it has written in terms of the rows that are committed now, which  *)
(* is what its commit will be judged by.                                   *)

OnTask == {"advance", "retry", "dead", "replay"}

IsCommand(cmd) ==
    /\ cmd.op \in OnTask \cup {"cancel", "reap"}
    /\ cmd.op # "reap" => cmd.run \in Runs
    /\ cmd.op \in OnTask => cmd.step \in Steps
    /\ cmd.op \in {"advance", "retry", "dead"} => cmd.owner \in Owners
    /\ cmd.op = "advance" =>
          cmd.result = [by |-> cmd.owner, attempt |-> 1, form |-> "json"]
    /\ cmd.op = "retry" => cmd.delay \in 0 .. MaxBackoff
    /\ cmd.op = "cancel" => cmd = [op |-> "cancel", run |-> cmd.run]

(* A transaction is a record, and what it has written functions.           *)
IsTx(t) ==
    /\ t = [cmd |-> t.cmd, stmt |-> t.stmt, todo |-> t.todo, waits |-> t.waits,
            late |-> t.late, rows |-> t.rows, run |-> t.run, log |-> t.log]
    /\ t.cmd.op # "reap" => t.late = {}
    /\ t.rows = [x \in DOMAIN t.rows |-> t.rows[x]]

(* What an UPDATE has made of a row: as the clock moves on, the delay of a *)
(* retry shrinks with the rest.                                            *)
Rewrites(cmd, u) ==
    IF cmd.op = "retry"
    THEN {[BackToPending(u) EXCEPT !.available_at = d] : d \in 0 .. MaxBackoff}
    ELSE {NewTaskRow(cmd, u)}

(* A row that t has locked and rewritten: the committed one still          *)
(* satisfies the WHERE clause.                                             *)
Taken(t, x) ==
    /\ TaskMatches(t.cmd, x[1], x[2])
    /\ t.rows[x] \in Rewrites(t.cmd, tasks[x[1]][x[2]])

NoLog == [r \in Runs |-> <<>>]
OnlyLog(r, es) == [q \in Runs |-> IF q = r THEN es ELSE <<>>]

OwnRow(t) == <<t.cmd.run, t.cmd.step>>
CurrentRow(r) == <<r, runs[r].current_step>>

Rests(t) == t.todo = {} /\ t.waits = NULL

Blank(t) == DOMAIN t.rows = {} /\ t.run = NULL /\ t.log = NoLog

(* Before the first row is locked, and after nothing was found to lock.    *)
Searching(t) ==
    /\ Blank(t) /\ t.stmt = 1 /\ t.cmd.op # "reap"
    /\ t.todo \subseteq {IF t.cmd.op = "cancel" THEN RunOf(t.cmd.run)
                                                ELSE OwnRow(t)}
    /\ t.waits \in {NULL} \cup t.todo

GaveUp(t) == Blank(t) /\ Rests(t) /\ t.stmt = Len(Statements(t.cmd.op)) + 1

(* Retry and ReplayDeadLetter.                                             *)
Took(t) ==
    /\ t.cmd.op \in {"retry", "replay"} /\ t.stmt = 2 /\ Rests(t)
    /\ DOMAIN t.rows = {OwnRow(t)} /\ Taken(t, OwnRow(t)) /\ t.run = NULL
    /\ t.log = OnlyLog(t.cmd.run, EventsAfter(t.cmd, "task", {}))

(* Advance and DeadLetter: the task locked, the run not yet, both.         *)
HasTask(t) ==
    /\ t.cmd.op \in {"advance", "dead"} /\ t.stmt = 1 /\ Rests(t)
    /\ DOMAIN t.rows = {OwnRow(t)} /\ Taken(t, OwnRow(t)) /\ t.run = NULL
    /\ t.log = NoLog

GoesOn(cmd) == cmd.op = "advance" /\ ~Finished(cmd.run, cmd.step)

NextRow(t) == <<t.cmd.run, t.cmd.step + 1>>

TaskWritten(t) ==
    /\ t.cmd.op \in {"advance", "dead"}
    /\ DOMAIN t.rows = {OwnRow(t)} \cup (IF GoesOn(t.cmd) THEN {NextRow(t)}
                                                          ELSE {})
    /\ Taken(t, OwnRow(t))
    /\ GoesOn(t.cmd) =>
         \E u \in NextTasks(runs[t.cmd.run].workflow, t.cmd.step + 1,
                            t.cmd.result) : t.rows[NextRow(t)] = InsertTask(u)

NeedsRun(t) ==
    /\ TaskWritten(t) /\ t.stmt = 2 /\ t.run = NULL
    /\ t.todo = {RunOf(t.cmd.run)} /\ t.waits \in {NULL, RunOf(t.cmd.run)}
    /\ t.log = OnlyLog(t.cmd.run, EventsAfter(t.cmd, "task", {}))

HasBoth(t) ==
    /\ TaskWritten(t) /\ t.stmt = 3 /\ Rests(t)
    /\ t.run = NewRunRow(t.cmd, runs[t.cmd.run])
    /\ t.log = OnlyLog(t.cmd.run, EventsAfter(t.cmd, "task", {})
                                    \o EventsAfter(t.cmd, "run", {}))

(* CancelRun: the run locked, its task not yet, both.                      *)
RunClosed(t) ==
    /\ t.cmd.op = "cancel" /\ runs[t.cmd.run].status = "running"
    /\ t.run = NewRunRow(t.cmd, runs[t.cmd.run])

HasRun(t) ==
    /\ RunClosed(t) /\ t.stmt = 1 /\ Rests(t)
    /\ DOMAIN t.rows = {} /\ t.log = NoLog

NeedsTask(t) ==
    /\ RunClosed(t) /\ t.stmt = 2
    /\ t.todo = {CurrentRow(t.cmd.run)} /\ t.waits \in {NULL} \cup t.todo
    /\ DOMAIN t.rows = {} /\ t.log = NoLog

Swept(t) ==
    /\ RunClosed(t) /\ t.stmt = 3 /\ Rests(t)
    /\ DOMAIN t.rows = {CurrentRow(t.cmd.run)}
    /\ Taken(t, CurrentRow(t.cmd.run))
    /\ t.log = OnlyLog(t.cmd.run, <<Ev("WorkflowCancelled", NoStep)>>)

(* ReapExpiredLeases: some of the expired leases are taken back, and others *)
(* may expire meanwhile.                                                   *)
TakenBack(t, r) == {i \in Steps : <<r, i>> \in DOMAIN t.rows}

Reaping(t) ==
    /\ t.cmd.op = "reap" /\ t.stmt = 1 /\ t.run = NULL /\ t.log = NoLog
    /\ t.todo # {} /\ t.todo \subseteq TaskRows /\ t.waits \in {NULL} \cup t.todo
    /\ DOMAIN t.rows \subseteq ExpiredRows
    /\ \A x \in DOMAIN t.rows : Taken(t, x)

Reaped(t) ==
    /\ t.cmd.op = "reap" /\ t.stmt = 2 /\ t.run = NULL /\ Rests(t)
    /\ DOMAIN t.rows \subseteq ExpiredRows /\ DOMAIN t.rows # {}
    /\ \A x \in DOMAIN t.rows : Taken(t, x)
    /\ t.log = [r \in Runs |-> ReclaimEvents(TakenBack(t, r))]

Form(t) ==
    \/ Searching(t) \/ GaveUp(t) \/ Took(t)
    \/ HasTask(t) \/ NeedsRun(t) \/ HasBoth(t)
    \/ HasRun(t) \/ NeedsTask(t) \/ Swept(t)
    \/ Reaping(t) \/ Reaped(t)

TxOK(t) == IsTx(t) /\ (t = NoTx \/ (IsCommand(t.cmd) /\ Form(t)))

Exclusive == \A c, d \in Conns : c # d => Locks(c) \cap Locks(d) = {}

(* The rows that are committed fit together, no two transactions hold a    *)
(* lock on the same row, and each is in one of the forms.                  *)
TxInv ==
    /\ StoreInv
    /\ Exclusive
    /\ tx = [c \in Conns |-> tx[c]]
    /\ \A c \in Conns : TxOK(tx[c])

----------------------------------------------------------------------------
(* Transactions and the rows they lock.                                    *)

LEMMA StatementsOf ==
    /\ \A op \in {"advance", "dead"} :
          Statements(op) = <<"task", "run">> /\ Len(Statements(op)) = 2
    /\ Statements("cancel") = <<"run", "task">> /\ Len(Statements("cancel")) = 2
    /\ \A op \in {"retry", "replay", "reap"} :
          Statements(op) = <<"task">> /\ Len(Statements(op)) = 1
  BY DEF Statements

LEMMA CommandIsOpen ==
    ASSUME NEW cmd, IsCommand(cmd)
    PROVE  cmd # NoCmd
  BY DEF IsCommand, NoCmd, OnTask

(* A run that was started has a current step.                              *)
LEMMA CurrentStep ==
    ASSUME StoreInv, NEW r \in Runs, runs[r].status # "none"
    PROVE  /\ runs[r].current_step \in Steps
           /\ CurrentRow(r) \in TaskRows
           /\ runs[r].status = "running" =>
                tasks[r][runs[r].current_step].status \in Outstanding
<1>1. /\ runs[r] \in RunRow /\ ShapeOf(runs[r], tasks[r])
  BY DEF StoreInv, StoreTypeOK, RunShape
<1>2. /\ runs[r].current_step \in Nat
      /\ runs[r].workflow \in Workflows
      /\ runs[r].current_step < TotalSteps(runs[r].workflow)
      /\ TaskFits(runs[r], tasks[r][runs[r].current_step])
  BY <1>1 DEF ShapeOf, RunRow
<1>3. /\ TotalSteps(runs[r].workflow) \in Nat
      /\ TotalSteps(runs[r].workflow) <= MaxSteps
  BY <1>2, TypesAssumption DEF TotalSteps
<1>4. runs[r].current_step \in Steps
  BY <1>2, <1>3, TypesAssumption DEF Steps
<1> QED BY <1>2, <1>4 DEF CurrentRow, TaskRows, TaskFits

(* What an UPDATE of tasks finds is the current task of its run.           *)
LEMMA MatchIsActive ==
    ASSUME NEW cmd, IsCommand(cmd), NEW r, NEW i, TaskMatches(cmd, r, i)
    PROVE  tasks[r][i].status \in {"pending", "leased", "dead"}
  BY DEF IsCommand, OnTask, TaskMatches, Fenced, Expired, Outstanding

LEMMA ActiveRow ==
    ASSUME StoreInv, NEW r \in Runs, NEW i \in Steps,
           tasks[r][i].status \in {"pending", "leased", "dead"}
    PROVE  /\ i = runs[r].current_step
           /\ CurrentRow(r) = <<r, i>>
           /\ runs[r].status \in {"running", "failed"}
           /\ runs[r].workflow \in Workflows
           /\ runs[r].total_steps = TotalSteps(runs[r].workflow)
           /\ i < runs[r].total_steps
<1>1. /\ runs[r] \in RunRow /\ ShapeOf(runs[r], tasks[r])
      /\ tasks[r] \in [Steps -> TaskRow]
  BY DEF StoreInv, StoreTypeOK, RunShape
<1> QED BY <1>1, ActiveIsCurrent DEF CurrentRow

LEMMA TakenIsCurrent ==
    ASSUME StoreInv, NEW t, IsCommand(t.cmd), NEW r \in Runs, NEW i \in Steps,
           Taken(t, <<r, i>>)
    PROVE  /\ CurrentRow(r) = <<r, i>>
           /\ runs[r].status \in {"running", "failed"}
<1>1. TaskMatches(t.cmd, r, i)
  BY DEF Taken
<1> QED BY <1>1, MatchIsActive, ActiveRow

(* A transaction that has locked a task of a run has locked its current    *)
(* one (the other is the task it is about to schedule), and one that has   *)
(* something to say in the history of a run has locked its current task.   *)
LEMMA LockedIsCurrent ==
    ASSUME StoreInv, NEW t, TxOK(t)
    PROVE  /\ DOMAIN t.rows \subseteq Runs \X Nat
           /\ \A q \in Runs : \A j \in Nat : <<q, j>> \in DOMAIN t.rows =>
                 /\ CurrentRow(q) \in DOMAIN t.rows
                 /\ runs[q].status \in {"running", "failed"}
                 /\ CurrentRow(q) \in TaskRows
           /\ \A q \in Runs : t.log[q] # <<>> => CurrentRow(q) \in DOMAIN t.rows
<1> DEFINE Good == 
           /\ DOMAIN t.rows \subseteq Runs \X Nat
           /\ \A q \in Runs : \A j \in Nat : <<q, j>> \in DOMAIN t.rows =>
                 /\ CurrentRow(q) \in DOMAIN t.rows
                 /\ runs[q].status \in {"running", "failed"}
                 /\ CurrentRow(q) \in TaskRows
           /\ \A q \in Runs : t.log[q] # <<>> => CurrentRow(q) \in DOMAIN t.rows
<1>0. Steps \subseteq Nat
  BY TypesAssumption DEF Steps
<1>1. CASE t = NoTx
  BY <1>1 DEF NoTx
<1>2. ASSUME IsCommand(t.cmd), DOMAIN t.rows = {}, t.log = NoLog
      PROVE  Good
  BY <1>2 DEF NoLog
<1>3. ASSUME IsCommand(t.cmd), t.cmd.op \in OnTask, Taken(t, OwnRow(t)),
             \/ DOMAIN t.rows = {OwnRow(t)}
             \/ DOMAIN t.rows = {OwnRow(t), NextRow(t)},
             NEW es, t.log = OnlyLog(t.cmd.run, es) \/ t.log = NoLog
      PROVE  Good
  <2>1. t.cmd.run \in Runs /\ t.cmd.step \in Steps
    BY <1>3 DEF IsCommand, OnTask
  <2>a. t.cmd.step \in Nat /\ t.cmd.step + 1 \in Nat
    <3>1. \A i \in Steps : i \in Nat /\ i + 1 \in Nat
      BY <1>0
    <3> QED BY <2>1, <3>1
  <2>2. /\ CurrentRow(t.cmd.run) = OwnRow(t)
        /\ runs[t.cmd.run].status \in {"running", "failed"}
    BY <1>3, <2>1, TakenIsCurrent DEF OwnRow
  <2>3. /\ OwnRow(t) \in TaskRows /\ OwnRow(t) \in Runs \X Nat
        /\ NextRow(t) \in Runs \X Nat
    BY <2>1, <2>a DEF OwnRow, NextRow, TaskRows
  <2>4. \A q \in Runs : \A j \in Nat : <<q, j>> \in DOMAIN t.rows => q = t.cmd.run
    BY <1>3 DEF OwnRow, NextRow
  <2>5. \A q \in Runs : t.log[q] # <<>> => q = t.cmd.run
    BY <1>3 DEF OnlyLog, NoLog
  <2>6. OwnRow(t) \in DOMAIN t.rows /\ DOMAIN t.rows \subseteq Runs \X Nat
    BY <1>3, <2>3
  <2> QED BY <2>2, <2>3, <2>4, <2>5, <2>6
<1>4. ASSUME IsCommand(t.cmd), Swept(t) PROVE Good
  <2>1. t.cmd.run \in Runs /\ runs[t.cmd.run].status = "running"
    BY <1>4 DEF IsCommand, Swept, RunClosed
  <2>2. CurrentRow(t.cmd.run) \in TaskRows
    BY <2>1, CurrentStep
  <2>3. \A q \in Runs : \A j \in Nat : <<q, j>> \in DOMAIN t.rows => q = t.cmd.run
    BY <1>4 DEF Swept, CurrentRow
  <2>4. \A q \in Runs : t.log[q] # <<>> => q = t.cmd.run
    BY <1>4 DEF OnlyLog, Swept
  <2>5. /\ CurrentRow(t.cmd.run) \in DOMAIN t.rows
        /\ DOMAIN t.rows \subseteq Runs \X Nat
    BY <1>0, <1>4, <2>2 DEF Swept, TaskRows
  <2> QED BY <2>1, <2>2, <2>3, <2>4, <2>5
<1>5. ASSUME IsCommand(t.cmd), DOMAIN t.rows \subseteq ExpiredRows,
             \A x \in DOMAIN t.rows : Taken(t, x),
             \A q \in Runs : t.log[q] # <<>> => \E j \in Steps : <<q, j>> \in DOMAIN t.rows
      PROVE  Good
  <2>1. DOMAIN t.rows \subseteq TaskRows /\ DOMAIN t.rows \subseteq Runs \X Nat
    BY <1>0, <1>5 DEF ExpiredRows, TaskRows
  <2>2. ASSUME NEW q \in Runs, NEW j, <<q, j>> \in DOMAIN t.rows
        PROVE  /\ CurrentRow(q) = <<q, j>>
               /\ runs[q].status \in {"running", "failed"}
    <3>1. j \in Steps
      BY <2>1, <2>2 DEF TaskRows
    <3> QED BY <1>5, <2>2, <3>1, TakenIsCurrent
  <2> QED BY <1>5, <2>1, <2>2
<1>6. ASSUME IsCommand(t.cmd), Reaped(t) PROVE Good
  <2>1. ASSUME NEW q \in Runs, t.log[q] # <<>>
        PROVE  \E j \in Steps : <<q, j>> \in DOMAIN t.rows
    <3>1. ReclaimEvents(TakenBack(t, q)) # <<>>
      BY <1>6, <2>1 DEF Reaped
    <3>2. ReclaimEvents({}) = <<>>
      BY FS_EmptySet DEF ReclaimEvents
    <3>3. TakenBack(t, q) # {}
      BY <3>1, <3>2
    <3> QED BY <3>3 DEF TakenBack
  <2> QED BY <1>5, <1>6, <2>1 DEF Reaped
<1>7. ASSUME IsCommand(t.cmd), Reaping(t) PROVE Good
  BY <1>5, <1>7 DEF Reaping, NoLog
<1>8. ASSUME IsCommand(t.cmd),
             Took(t) \/ HasTask(t) \/ NeedsRun(t) \/ HasBoth(t)
      PROVE  Good
  <2>1. t.cmd.op \in OnTask /\ Taken(t, OwnRow(t))
    BY <1>8 DEF Took, HasTask, NeedsRun, HasBoth, TaskWritten, OnTask
  <2>2. \/ DOMAIN t.rows = {OwnRow(t)}
        \/ DOMAIN t.rows = {OwnRow(t), NextRow(t)}
    BY <1>8 DEF Took, HasTask, NeedsRun, HasBoth, TaskWritten
  <2>3. \E es : t.log = OnlyLog(t.cmd.run, es) \/ t.log = NoLog
    BY <1>8 DEF Took, HasTask, NeedsRun, HasBoth
  <2> QED BY <1>3, <1>8, <2>1, <2>2, <2>3
<1>9. ASSUME IsCommand(t.cmd),
             Searching(t) \/ GaveUp(t) \/ HasRun(t) \/ NeedsTask(t)
      PROVE  Good
  BY <1>2, <1>9 DEF Searching, GaveUp, HasRun, NeedsTask, Blank
<1> QED
  BY <1>1, <1>4, <1>6, <1>7, <1>8, <1>9 DEF TxOK, Form

----------------------------------------------------------------------------
(* What others do leaves a transaction in its form, as long as they keep   *)
(* off the runs it has locked.                                             *)
Aloof(t) ==
    /\ \A q \in Runs : \A j \in Nat : <<q, j>> \in DOMAIN t.rows =>
          /\ runs'[q] = runs[q]
          /\ tasks'[q] = tasks[q]
          /\ events'[q] = events[q]
    /\ t.run # NULL => runs'[t.cmd.run] = runs[t.cmd.run]

SameRun(q) == runs'[q] = runs[q] /\ tasks'[q] = tasks[q] /\ events'[q] = events[q]

LEMMA TakenStays ==
    ASSUME NEW t, IsCommand(t.cmd),
           NEW q \in Runs, NEW j \in Steps, SameRun(q),
           Taken(t, <<q, j>>)
    PROVE  Taken(t, <<q, j>>)'
<1> DEFINE cmd == t.cmd
<1>1. TaskMatches(cmd, q, j) => TaskMatches(cmd, q, j)'
  BY DEF TaskMatches, Fenced, Replays, Expired, SameRun, IsCommand, OnTask
<1>2. Rewrites(cmd, tasks[q][j])' = Rewrites(cmd, tasks[q][j])
  BY DEF SameRun, Rewrites, NewTaskRow
<1> QED BY <1>1, <1>2 DEF Taken

LEMMA NewRunRowIsRow ==
    ASSUME NEW cmd, IsCommand(cmd), cmd.op \in {"advance", "dead", "cancel"},
           NEW run \in RunRow
    PROVE  NewRunRow(cmd, run) \in RunRow /\ NewRunRow(cmd, run) # NULL
<1>1. CASE cmd.op = "advance" /\ Finished(cmd.run, cmd.step)
  <2>1. NewRunRow(cmd, run) = [run EXCEPT !.status = "completed",
                                          !.result = cmd.result]
    BY <1>1 DEF NewRunRow
  <2>2. cmd.result \in Payload /\ "completed" \in RunStatus
    BY <1>1 DEF IsCommand, Payload, RunStatus
  <2> QED BY <2>1, <2>2, TxAssumption DEF RunRow
<1>2. CASE cmd.op = "advance" /\ ~Finished(cmd.run, cmd.step)
  <2>1. NewRunRow(cmd, run) = [run EXCEPT !.current_step = cmd.step + 1]
    BY <1>2 DEF NewRunRow
  <2>2. cmd.step + 1 \in Nat
    <3>1. cmd.step \in Steps
      BY <1>2 DEF IsCommand, OnTask
    <3>2. \A i \in Steps : i + 1 \in Nat
      BY TypesAssumption DEF Steps
    <3> QED BY <3>1, <3>2
  <2> QED BY <2>1, <2>2, TxAssumption DEF RunRow
<1>3. CASE cmd.op = "dead"
  BY <1>3, TxAssumption DEF NewRunRow, RunRow, RunStatus
<1>4. CASE cmd.op = "cancel"
  BY <1>4, TxAssumption DEF NewRunRow, RunRow, RunStatus
<1> QED BY <1>1, <1>2, <1>3, <1>4

(* What a transaction that has locked a run's row has written in it.       *)
LEMMA LockedRun ==
    ASSUME StoreInv, NEW t, IsCommand(t.cmd), HasBoth(t) \/ RunClosed(t)
    PROVE  t.run \in RunRow /\ t.run # NULL /\ t.cmd.run \in Runs
<1>1. t.cmd.op \in {"advance", "dead", "cancel"}
  BY DEF HasBoth, TaskWritten, RunClosed
<1>2. t.cmd.run \in Runs
  BY <1>1 DEF IsCommand
<1>3. runs[t.cmd.run] \in RunRow
  BY <1>2 DEF StoreInv, StoreTypeOK
<1>4. t.run = NewRunRow(t.cmd, runs[t.cmd.run])
  BY DEF HasBoth, RunClosed
<1> QED BY <1>1, <1>2, <1>3, <1>4, NewRunRowIsRow

LEMMA Undisturbed ==
    ASSUME StoreInv, StoreInv', NEW t, TxOK(t), Aloof(t)
    PROVE  TxOK(t)'
<1>0. Steps \subseteq Nat
  BY TypesAssumption DEF Steps
<1>1. IsTx(t)'
  BY DEF TxOK, IsTx
<1>2. CASE t = NoTx
  BY <1>1, <1>2 DEF TxOK, NoTx
<1> SUFFICES ASSUME t # NoTx PROVE Form(t)'
  BY <1>1, <1>2 DEF TxOK, IsCommand
<1>3. IsCommand(t.cmd) /\ Form(t)
  BY DEF TxOK
<1>4. ASSUME Searching(t) \/ GaveUp(t) PROVE Form(t)'
  BY <1>4 DEF Form, Searching, GaveUp, Blank, Rests, NoLog, OwnRow, RunOf
<1>5. ASSUME t.cmd.op \in OnTask, Taken(t, OwnRow(t)),
             OwnRow(t) \in DOMAIN t.rows
      PROVE  /\ SameRun(t.cmd.run)
             /\ Taken(t, OwnRow(t))'
             /\ Finished(t.cmd.run, t.cmd.step)' =
                   Finished(t.cmd.run, t.cmd.step)
  <2>1. t.cmd.run \in Runs /\ t.cmd.step \in Steps
    BY <1>3, <1>5 DEF IsCommand, OnTask
  <2>2. SameRun(t.cmd.run)
    BY <1>0, <1>5, <2>1 DEF Aloof, SameRun, OwnRow
  <2>3. Taken(t, <<t.cmd.run, t.cmd.step>>)'
    BY <1>3, <1>5, <2>1, <2>2, TakenStays DEF OwnRow
  <2> QED BY <2>2, <2>3 DEF OwnRow, Finished, SameRun
<1>6. ASSUME Took(t) PROVE Took(t)'
  <2>1. Taken(t, OwnRow(t))'
    BY <1>5, <1>6 DEF Took, OnTask
  <2>2. OnlyLog(t.cmd.run, EventsAfter(t.cmd, "task", {}))' =
          OnlyLog(t.cmd.run, EventsAfter(t.cmd, "task", {}))
    BY <1>6 DEF Took, EventsAfter, OnlyLog
  <2> QED BY <1>6, <2>1, <2>2 DEF Took, Rests, OwnRow
<1>7. ASSUME HasTask(t) PROVE HasTask(t)'
  <2>1. Taken(t, OwnRow(t))'
    BY <1>5, <1>7 DEF HasTask, OnTask
  <2> QED BY <1>7, <2>1 DEF HasTask, Rests, OwnRow, NoLog
<1>8. ASSUME TaskWritten(t)
      PROVE  /\ TaskWritten(t)'
             /\ SameRun(t.cmd.run)
             /\ \A table \in {"task", "run"} :
                   EventsAfter(t.cmd, table, {})' =
                      EventsAfter(t.cmd, table, {})
             /\ NewRunRow(t.cmd, runs[t.cmd.run])' =
                   NewRunRow(t.cmd, runs[t.cmd.run])
  <2>1. /\ SameRun(t.cmd.run)
        /\ Taken(t, OwnRow(t))'
        /\ Finished(t.cmd.run, t.cmd.step)' =
              Finished(t.cmd.run, t.cmd.step)
    BY <1>5, <1>8 DEF TaskWritten, OnTask
  <2>2. TaskWritten(t)'
    BY <1>8, <2>1 DEF TaskWritten, GoesOn, OwnRow, NextRow, SameRun
  <2>3. \A table \in {"task", "run"} :
                   EventsAfter(t.cmd, table, {})' =
                      EventsAfter(t.cmd, table, {})
    BY <1>8, <2>1 DEF EventsAfter, TaskWritten
  <2>4. NewRunRow(t.cmd, runs[t.cmd.run])' =
                   NewRunRow(t.cmd, runs[t.cmd.run])
    BY <1>8, <2>1 DEF NewRunRow, TaskWritten, SameRun
  <2> QED BY <2>1, <2>2, <2>3, <2>4
<1>9. ASSUME NeedsRun(t) PROVE NeedsRun(t)'
  <2>1. TaskWritten(t)
    BY <1>9 DEF NeedsRun
  <2> QED BY <1>8, <1>9, <2>1 DEF NeedsRun, OnlyLog, RunOf
<1>10. ASSUME HasBoth(t) PROVE HasBoth(t)'
  <2>1. TaskWritten(t)
    BY <1>10 DEF HasBoth
  <2> QED BY <1>8, <1>10, <2>1 DEF HasBoth, OnlyLog, Rests
<1>11. ASSUME RunClosed(t)
       PROVE  /\ RunClosed(t)' /\ runs'[t.cmd.run] = runs[t.cmd.run]
              /\ CurrentRow(t.cmd.run)' = CurrentRow(t.cmd.run)
  <2>1. runs'[t.cmd.run] = runs[t.cmd.run]
    BY <1>3, <1>11, LockedRun DEF Aloof
  <2> QED BY <1>11, <2>1 DEF RunClosed, NewRunRow, CurrentRow
<1>12. ASSUME HasRun(t) \/ NeedsTask(t) PROVE Form(t)'
  <2>1. RunClosed(t)
    BY <1>12 DEF HasRun, NeedsTask
  <2>2. CASE HasRun(t)
    BY <1>11, <2>1, <2>2 DEF Form, HasRun, Rests, NoLog
  <2>3. CASE NeedsTask(t)
    BY <1>11, <2>1, <2>3 DEF Form, NeedsTask, NoLog
  <2> QED BY <1>12, <2>2, <2>3
<1>13. ASSUME Swept(t) PROVE Swept(t)'
  <2>1. RunClosed(t)
    BY <1>13 DEF Swept
  <2> DEFINE r == t.cmd.run
             i == runs[t.cmd.run].current_step
  <2>2. r \in Runs /\ i \in Steps
    BY <1>3, <2>1, CurrentStep DEF RunClosed, IsCommand
  <2>3. <<r, i>> \in DOMAIN t.rows /\ Taken(t, <<r, i>>)
    BY <1>13 DEF Swept, CurrentRow
  <2>4. SameRun(r)
    BY <1>0, <2>2, <2>3 DEF Aloof, SameRun
  <2>5. ASSUME NEW k \in Runs, NEW j \in Steps, k = r, j = i
        PROVE  Taken(t, <<k, j>>)'
    BY <1>3, <2>3, <2>4, <2>5, TakenStays
  <2>6. CurrentRow(t.cmd.run)' = <<r, i>>
    BY <1>11, <2>1 DEF CurrentRow
  <2>7. Taken(t, CurrentRow(t.cmd.run))'
    BY <2>2, <2>5, <2>6 DEF Taken
  <2> QED BY <1>11, <1>13, <2>1, <2>7 DEF Swept, Rests, OnlyLog
<1>14. ASSUME DOMAIN t.rows \subseteq ExpiredRows,
              \A x \in DOMAIN t.rows : Taken(t, x)
       PROVE  /\ DOMAIN t.rows \subseteq ExpiredRows'
              /\ \A x \in DOMAIN t.rows : Taken(t, x)'
  <2>1. ASSUME NEW x \in DOMAIN t.rows
        PROVE  x \in ExpiredRows' /\ Taken(t, x)'
    <3>1. PICK q \in Runs, j \in Steps : x = <<q, j>>
      BY <1>14, <2>1 DEF ExpiredRows, TaskRows
    <3>2. SameRun(q)
      BY <1>0, <2>1, <3>1 DEF Aloof, SameRun
    <3>3. Taken(t, <<q, j>>)'
      BY <1>3, <1>14, <2>1, <3>1, <3>2, TakenStays
    <3>4. Expired(tasks[q][j])
      BY <1>14, <2>1, <3>1 DEF ExpiredRows
    <3> QED BY <3>1, <3>2, <3>3, <3>4 DEF SameRun, ExpiredRows, TaskRows
  <2> QED BY <2>1
<1>15. ASSUME Reaping(t) PROVE Reaping(t)'
  BY <1>14, <1>15 DEF Reaping, NoLog, TaskRows
<1>16. ASSUME Reaped(t) PROVE Reaped(t)'
  <2>1. \A q \in Runs : ReclaimEvents(TakenBack(t, q))' = ReclaimEvents(TakenBack(t, q))
    BY DEF TakenBack, ReclaimEvents
  <2> QED BY <1>14, <1>16, <2>1 DEF Reaped, Rests
<1> QED
  BY <1>3, <1>4, <1>6, <1>7, <1>9, <1>10, <1>12, <1>13, <1>15, <1>16 DEF Form

----------------------------------------------------------------------------
(* A transaction's own steps take it from form to form.                    *)

LEMMA NothingWritten ==
    ASSUME NEW t, IsTx(t)
    PROVE  t.rows = <<>> <=> DOMAIN t.rows = {}
<1>1. PICK f : f = t.rows /\ f = [x \in DOMAIN f |-> f[x]]
  BY DEF IsTx
<1>2. DOMAIN f = {} => f = <<>>
  BY <1>1
<1>3. f = <<>> => DOMAIN f = {}
  OBVIOUS
<1> QED BY <1>1, <1>2, <1>3

(* The events of a statement are a sequence.                               *)
SomeEvent == [type : EventType, step : Int]

LEMMA EventsAfterSeq ==
    ASSUME NEW cmd, IsCommand(cmd), NEW S,
           NEW table, \/ cmd.op # "reap" /\ table = "task"
                      \/ cmd.op \in {"advance", "dead", "cancel"} /\ table = "run"
    PROVE  /\ EventsAfter(cmd, table, S) \in Seq(SomeEvent)
           /\ EventsAfter(cmd, table, S) = EventsAfter(cmd, table, {})
<1>1. cmd.op \in OnTask => cmd.step \in Int /\ cmd.step + 1 \in Int
  <2>1. cmd.op \in OnTask => cmd.step \in Steps
    BY DEF IsCommand
  <2>2. \A i \in Steps : i \in Int /\ i + 1 \in Int
    BY TypesAssumption DEF Steps
  <2> QED BY <2>1, <2>2
<1>2. /\ \A e \in EventType : \A i \in Int : Ev(e, i) \in SomeEvent
      /\ NoStep \in Int
  BY DEF Ev, SomeEvent, NoStep
<1>3. CASE cmd.op = "advance"
  BY <1>1, <1>2, <1>3 DEF EventsAfter, EventType, OnTask
<1>4. CASE cmd.op = "dead"
  BY <1>1, <1>2, <1>4 DEF EventsAfter, EventType, OnTask
<1>5. CASE cmd.op \in {"retry", "replay"}
  BY <1>1, <1>2, <1>5 DEF EventsAfter, EventType, OnTask
<1>6. CASE cmd.op = "cancel"
  BY <1>1, <1>2, <1>6 DEF EventsAfter, EventType, OnTask, CancelEvent
<1> QED BY <1>3, <1>4, <1>5, <1>6 DEF IsCommand, OnTask

(* The end of a statement that found nothing, and of one that did.         *)
LEMMA EndedBlank ==
    ASSUME NEW t, IsTx(t), DOMAIN t.rows = {}, t.run = NULL
    PROVE  Ended(t) = [t EXCEPT !.stmt = Len(Statements(t.cmd.op)) + 1]
  BY NothingWritten DEF Ended

LEMMA EndedFields ==
    ASSUME NEW t, IsTx(t), DOMAIN t.rows # {} \/ t.run # NULL
    PROVE  LET order == Statements(t.cmd.op)
               e == Ended(t)
           IN  /\ e.cmd = t.cmd /\ e.stmt = t.stmt + 1
               /\ e.waits = t.waits /\ e.run = t.run
               /\ e.todo = IF t.stmt < Len(order)
                           THEN Matching(t.cmd, order[t.stmt + 1]) ELSE {}
               /\ e.rows = WithInsert(t.cmd, order[t.stmt], t.rows)
               /\ e.log = [r \in Runs |->
                    IF t.cmd.op # "reap" => r = t.cmd.run
                    THEN t.log[r] \o EventsAfter(t.cmd, order[t.stmt],
                           {i \in Steps : <<r, i>> \in DOMAIN t.rows})
                    ELSE t.log[r]]
               /\ IsTx(e)
<1> DEFINE order == Statements(t.cmd.op)
           todo == IF t.stmt < Len(order)
                   THEN Matching(t.cmd, order[t.stmt + 1]) ELSE {}
           rows == WithInsert(t.cmd, order[t.stmt], t.rows)
           log == [r \in Runs |->
                    IF t.cmd.op # "reap" => r = t.cmd.run
                    THEN t.log[r] \o EventsAfter(t.cmd, order[t.stmt],
                           {i \in Steps : <<r, i>> \in DOMAIN t.rows})
                    ELSE t.log[r]]
<1>1. Ended(t) = [t EXCEPT !.stmt = t.stmt + 1, !.todo = todo, !.rows = rows,
                           !.log = log]
  BY NothingWritten DEF Ended
<1>2. rows = [x \in DOMAIN rows |-> rows[x]]
  BY DEF WithInsert, WithRow, IsTx
<1> HIDE DEF todo, rows, log
<1>3. Ended(t) = [cmd |-> t.cmd, stmt |-> t.stmt + 1, todo |-> todo,
                  waits |-> t.waits, late |-> t.late, rows |-> rows,
                  run |-> t.run, log |-> log]
  BY <1>1 DEF IsTx
<1>4. IsTx(Ended(t))
  BY <1>2, <1>3 DEF IsTx
<1> QED BY <1>3, <1>4 DEF todo, rows, log

(* A row locked: passed over, rewritten, or the run's.                     *)
LEMMA RewrittenFields ==
    ASSUME NEW t, IsTx(t), NEW row, NEW table, table = Statements(t.cmd.op)[t.stmt],
           NEW w, w = Rewritten(t, row)
    PROVE  /\ w.cmd = t.cmd /\ w.stmt = t.stmt /\ w.log = t.log
           /\ w.todo = t.todo \ {row} /\ w.waits = NULL
           /\ row \notin Matching(t.cmd, table) \ t.late =>
                w.rows = t.rows /\ w.run = t.run
           /\ row \in Matching(t.cmd, table) \ t.late /\ table = "task" =>
                /\ w.rows = WithRow(t.rows, row, NewTaskRow(t.cmd, tasks[row[1]][row[2]]))
                /\ w.run = t.run
           /\ row \in Matching(t.cmd, table) \ t.late /\ table # "task" =>
                w.rows = t.rows /\ w.run = NewRunRow(t.cmd, runs[t.cmd.run])
           /\ IsTx(w)
<1> DEFINE new == WithRow(t.rows, row, NewTaskRow(t.cmd, tasks[row[1]][row[2]]))
           newrun == NewRunRow(t.cmd, runs[t.cmd.run])
           hit == row \in Matching(t.cmd, table) \ t.late
           less == t.todo \ {row}
<1>1. PICK rest : rest = [t EXCEPT !.todo = less, !.waits = NULL]
  OBVIOUS
<1>2. w = IF ~hit THEN rest
          ELSE IF table = "task" THEN [rest EXCEPT !.rows = new]
          ELSE [rest EXCEPT !.run = newrun]
  BY <1>1 DEF Rewritten
<1>3. new = [x \in DOMAIN new |-> new[x]]
  BY DEF WithRow
<1> HIDE DEF new, newrun, hit, less
<1>4. rest = [cmd |-> t.cmd, stmt |-> t.stmt, todo |-> less, waits |-> NULL,
              late |-> t.late, rows |-> t.rows, run |-> t.run, log |-> t.log]
  BY <1>1 DEF IsTx
<1>5. CASE ~hit
  BY <1>2, <1>4, <1>5 DEF IsTx, hit, less
<1>6. CASE hit /\ table = "task"
  <2>1. w = [cmd |-> t.cmd, stmt |-> t.stmt, todo |-> less, waits |-> NULL,
             late |-> t.late, rows |-> new, run |-> t.run, log |-> t.log]
    BY <1>2, <1>4, <1>6
  <2>2. IsTx(w)
    BY <1>3, <2>1 DEF IsTx
  <2>3. /\ w.cmd = t.cmd /\ w.stmt = t.stmt /\ w.todo = less /\ w.waits = NULL
        /\ w.rows = new /\ w.run = t.run /\ w.log = t.log
    BY <2>1
  <2> QED BY <1>2, <1>6, <2>2, <2>3 DEF hit, less, new
<1>7. CASE hit /\ table # "task"
  <2>1. w = [cmd |-> t.cmd, stmt |-> t.stmt, todo |-> less, waits |-> NULL,
             late |-> t.late, rows |-> t.rows, run |-> newrun, log |-> t.log]
    BY <1>2, <1>4, <1>7
  <2>2. IsTx(w)
    BY <2>1 DEF IsTx
  <2>3. /\ w.cmd = t.cmd /\ w.stmt = t.stmt /\ w.todo = less /\ w.waits = NULL
        /\ w.rows = t.rows /\ w.run = newrun /\ w.log = t.log
    BY <2>1
  <2> QED BY <1>2, <1>7, <2>2, <2>3 DEF hit, less, newrun
<1> QED BY <1>5, <1>6, <1>7

LEMMA RewrittenTask ==
    ASSUME NEW t, IsTx(t), NEW row, Statements(t.cmd.op)[t.stmt] = "task",
           row \in Matching(t.cmd, "task") \ t.late, NEW w, w = Rewritten(t, row)
    PROVE  /\ w.rows = WithRow(t.rows, row, NewTaskRow(t.cmd, tasks[row[1]][row[2]]))
           /\ w.run = t.run
<1>1. PICK table : table = Statements(t.cmd.op)[t.stmt]
  OBVIOUS
<1>2. table = "task" /\ row \in Matching(t.cmd, table) \ t.late
  BY <1>1
<1>3. row \in Matching(t.cmd, table) \ t.late /\ table = "task" =>
        /\ w.rows = WithRow(t.rows, row, NewTaskRow(t.cmd, tasks[row[1]][row[2]]))
        /\ w.run = t.run
  BY <1>1, RewrittenFields
<1> QED BY <1>2, <1>3

LEMMA RewrittenRun ==
    ASSUME NEW t, IsTx(t), NEW row, Statements(t.cmd.op)[t.stmt] = "run",
           row \in Matching(t.cmd, "run") \ t.late, NEW w, w = Rewritten(t, row)
    PROVE  w.rows = t.rows /\ w.run = NewRunRow(t.cmd, runs[t.cmd.run])
<1>1. PICK table : table = Statements(t.cmd.op)[t.stmt]
  OBVIOUS
<1>2. table # "task" /\ row \in Matching(t.cmd, table) \ t.late
  BY <1>1
<1>3. row \in Matching(t.cmd, table) \ t.late /\ table # "task" =>
        w.rows = t.rows /\ w.run = NewRunRow(t.cmd, runs[t.cmd.run])
  BY <1>1, RewrittenFields
<1> QED BY <1>2, <1>3

LEMMA NoTxFields ==
    /\ IsTx(NoTx) /\ TxOK(NoTx) /\ NoTx.cmd = NoCmd /\ Blank(NoTx)
<1>1. <<>> = [x \in DOMAIN <<>> |-> <<>>[x]] /\ DOMAIN <<>> = {}
  OBVIOUS
<1> QED BY <1>1 DEF NoTx, IsTx, TxOK, Blank, NoLog

LEMMA BeginForm ==
    ASSUME NEW cmd, IsCommand(cmd), NEW todo,
           todo = Matching(cmd, Statements(cmd.op)[1]), todo # {},
           NEW t, t = [NoTx EXCEPT !.cmd = cmd, !.stmt = 1, !.todo = todo]
    PROVE  TxOK(t) /\ Blank(t)
<1>1. /\ t.cmd = cmd /\ t.stmt = 1 /\ t.todo = todo /\ t.waits = NULL
      /\ t.rows = <<>> /\ t.run = NULL /\ t.log = NoLog /\ IsTx(t)
  BY NoTxFields DEF NoTx, IsTx, NoLog
<1>2. DOMAIN t.rows = {}
  BY <1>1
<1>3. CASE cmd.op \in OnTask
  <2>1. Statements(cmd.op)[1] = "task"
    BY <1>3, StatementsOf DEF OnTask
  <2>a. \A q, j : TaskMatches(cmd, q, j) => q = cmd.run /\ j = cmd.step
    BY <1>3 DEF TaskMatches, OnTask
  <2>2. \A x \in TaskRows : TaskMatches(cmd, x[1], x[2]) => x = <<cmd.run, cmd.step>>
    BY <2>a DEF TaskRows
  <2>3. todo \subseteq {<<cmd.run, cmd.step>>}
    BY <2>1, <2>2 DEF Matching
  <2>4. Searching(t)
    BY <1>1, <1>2, <1>3, <2>3 DEF Searching, Blank, OwnRow, OnTask
  <2> QED BY <1>1, <1>2, <2>4 DEF TxOK, Form, Blank
<1>4. CASE cmd.op = "cancel"
  <2>1. todo \subseteq {RunOf(cmd.run)}
    BY <1>4, StatementsOf DEF Matching
  <2>2. Searching(t)
    BY <1>1, <1>2, <1>4, <2>1 DEF Searching, Blank
  <2> QED BY <1>1, <1>2, <2>2 DEF TxOK, Form, Blank
<1>5. CASE cmd.op = "reap"
  <2>1. todo = ExpiredRows /\ todo \subseteq TaskRows
    BY <1>5, StatementsOf DEF Matching, TaskMatches, ExpiredRows
  <2>2. Reaping(t)
    BY <1>1, <1>2, <1>5, <2>1 DEF Reaping
  <2> QED BY <1>1, <1>2, <2>2 DEF TxOK, Form, Blank
<1> QED BY <1>3, <1>4, <1>5 DEF IsCommand

(* The log after a statement of a transaction on one run.                  *)
LEMMA LogAfter ==
    ASSUME NEW t, IsTx(t), IsCommand(t.cmd), t.cmd.op # "reap",
           DOMAIN t.rows # {} \/ t.run # NULL,
           NEW table, table = Statements(t.cmd.op)[t.stmt],
           \/ table = "task"
           \/ t.cmd.op \in {"advance", "dead", "cancel"} /\ table = "run"
    PROVE  /\ t.log = NoLog =>
                Ended(t).log = OnlyLog(t.cmd.run, EventsAfter(t.cmd, table, {}))
           /\ \A es : t.log = OnlyLog(t.cmd.run, es) =>
                Ended(t).log = OnlyLog(t.cmd.run, es \o EventsAfter(t.cmd, table, {}))
<1> DEFINE new == EventsAfter(t.cmd, table, {})
           seen(r) == {i \in Steps : <<r, i>> \in DOMAIN t.rows}
<1>1. Ended(t).log = [r \in Runs |-> IF t.cmd.op # "reap" => r = t.cmd.run
                                     THEN t.log[r] \o EventsAfter(t.cmd, table, seen(r))
                                     ELSE t.log[r]]
  BY EndedFields
<1>2. /\ \A S : EventsAfter(t.cmd, table, S) = new
      /\ new \in Seq(SomeEvent)
  BY EventsAfterSeq
<1> HIDE DEF new, seen
<1>3. Ended(t).log = [r \in Runs |-> IF r = t.cmd.run THEN t.log[r] \o new
                                                      ELSE t.log[r]]
  BY <1>1, <1>2
<1>4. <<>> \o new = new
  BY <1>2
<1>5. ASSUME t.log = NoLog PROVE Ended(t).log = OnlyLog(t.cmd.run, new)
  BY <1>3, <1>4, <1>5 DEF OnlyLog, NoLog
<1>6. ASSUME NEW es, t.log = OnlyLog(t.cmd.run, es)
      PROVE  Ended(t).log = OnlyLog(t.cmd.run, es \o new)
  BY <1>3, <1>6 DEF OnlyLog
<1> QED BY <1>5, <1>6 DEF new

LocksIn(t) == DOMAIN t.rows \cup (IF t.run = NULL THEN {}
                                                  ELSE {RunOf(t.cmd.run)})

(* Nothing found: the transaction gives up.                                *)
LEMMA GivesUp ==
    ASSUME NEW t, IsTx(t), IsCommand(t.cmd), Blank(t), Rests(t)
    PROVE  TxOK(Ended(t)) /\ Blank(Ended(t))
<1>1. PICK e : /\ e = Ended(t)
               /\ e = [t EXCEPT !.stmt = Len(Statements(t.cmd.op)) + 1]
  BY EndedBlank DEF Blank
<1> DEFINE n == Len(Statements(t.cmd.op)) + 1
<1>2. e = [cmd |-> t.cmd, stmt |-> n, todo |-> t.todo, waits |-> t.waits,
           late |-> t.late, rows |-> t.rows, run |-> t.run, log |-> t.log]
  <2> HIDE DEF n
  <2>1. e = [t EXCEPT !.stmt = n]
    BY <1>1 DEF n
  <2> QED BY <2>1 DEF IsTx
<1>3. IsTx(e)
  BY <1>2 DEF IsTx
<1>4. Blank(e) /\ Rests(e) /\ e.cmd = t.cmd /\ e.stmt = n
  BY <1>2 DEF Blank, Rests
<1> QED BY <1>1, <1>3, <1>4 DEF TxOK, Form, GaveUp

(* What nextStep built, when its transaction begins.                       *)
LEMMA NextTaskBuilt ==
    ASSUME StoreInv, NEW cmd, IsCommand(cmd),
           NEW r \in Runs, NEW i \in Steps, NEW p \in Payload,
           TaskMatches(cmd, r, i), ~Finished(r, i)
    PROVE  /\ runs[r].workflow \in Workflows
           /\ i + 1 \in Nat /\ i + 1 < TotalSteps(runs[r].workflow)
           /\ BuildTask(runs[r].workflow, i + 1, p) \in
                NextTasks(runs[r].workflow, i + 1, p)
<1>1. runs[r].workflow \in Workflows
  BY MatchIsActive, ActiveRow
<1>2. TotalSteps(runs[r].workflow) \in Nat
  BY <1>1, TypesAssumption DEF TotalSteps
<1>3. i + 1 \in Nat /\ i + 1 < TotalSteps(runs[r].workflow)
  BY <1>2, TypesAssumption DEF Finished, Steps
<1>4. PICK task : task = BuildTask(runs[r].workflow, i + 1, p)
  OBVIOUS
<1>5. task \in NewTask
  BY <1>1, <1>3, <1>4, BuildTaskType
<1>6. /\ task.available_at \in 0 .. task.available_at
      /\ task = [task EXCEPT !.available_at = task.available_at]
  BY <1>5 DEF NewTask
<1> QED BY <1>1, <1>3, <1>4, <1>6 DEF NextTasks

(* Advance and DeadLetter go on to the run; CancelRun to the tasks.        *)
LEMMA EndForm ==
    ASSUME StoreInv, NEW t, TxOK(t), t # NoTx, t.todo = {},
           t.stmt <= Len(Statements(t.cmd.op))
    PROVE  /\ TxOK(Ended(t))
           /\ \/ LocksIn(Ended(t)) = LocksIn(t)
              \/ /\ HasTask(t) /\ GoesOn(t.cmd)
                 /\ LocksIn(Ended(t)) = LocksIn(t) \cup {NextRow(t)}
<1>1. IsTx(t) /\ IsCommand(t.cmd) /\ Form(t)
  BY DEF TxOK
<1>2. Searching(t) \/ HasTask(t) \/ HasRun(t)
  <2>1. /\ Reaping(t) => t.todo # {}
        /\ NeedsRun(t) => t.todo # {}
        /\ NeedsTask(t) => t.todo # {}
    BY DEF Reaping, NeedsRun, NeedsTask
  <2>2. /\ Took(t) => t.stmt = 2 /\ Len(Statements(t.cmd.op)) = 1
        /\ Reaped(t) => t.stmt = 2 /\ Len(Statements(t.cmd.op)) = 1
        /\ HasBoth(t) => t.stmt = 3 /\ Len(Statements(t.cmd.op)) = 2
        /\ Swept(t) => t.stmt = 3 /\ Len(Statements(t.cmd.op)) = 2
    BY StatementsOf DEF Took, HasBoth, Swept, Reaped, TaskWritten, RunClosed
  <2>3. Len(Statements(t.cmd.op)) \in {1, 2}
    BY <1>1, StatementsOf DEF IsCommand, OnTask
  <2>4. GaveUp(t) => t.stmt = Len(Statements(t.cmd.op)) + 1
    BY DEF GaveUp
  <2>5. ~GaveUp(t) /\ ~Took(t) /\ ~Reaped(t) /\ ~HasBoth(t) /\ ~Swept(t)
    <3>1. ~GaveUp(t)
      BY <2>3, <2>4
    <3>2. Len(Statements(t.cmd.op)) = 1 => t.stmt # 2
      OBVIOUS
    <3>3. Len(Statements(t.cmd.op)) = 2 => t.stmt # 3
      OBVIOUS
    <3> QED BY <2>2, <3>1, <3>2, <3>3
  <2> QED BY <1>1, <2>1, <2>5 DEF Form
<1> DEFINE e == Ended(t)
<1>3. CASE Searching(t)
  <2>1. Blank(t) /\ Rests(t)
    BY <1>3 DEF Searching, Rests
  <2>2. TxOK(e) /\ Blank(e)
    BY <1>1, <2>1, GivesUp
  <2> QED BY <2>1, <2>2 DEF Blank, LocksIn
<1>4. CASE HasTask(t)
  <2>1. /\ t.cmd.op \in {"advance", "dead"} /\ t.stmt = 1
        /\ Statements(t.cmd.op)[1] = "task" /\ Statements(t.cmd.op)[2] = "run"
        /\ Len(Statements(t.cmd.op)) = 2
        /\ DOMAIN t.rows = {OwnRow(t)} /\ t.run = NULL /\ t.log = NoLog
        /\ t.waits = NULL
        /\ Taken(t, OwnRow(t))
    BY <1>4, StatementsOf DEF HasTask, Rests
  <2>a. t.stmt < Len(Statements(t.cmd.op)) /\ t.stmt + 1 = 2
    BY <2>1
  <2>2. /\ e.cmd = t.cmd /\ e.stmt = 2 /\ e.waits = NULL /\ e.run = NULL
        /\ e.todo = Matching(t.cmd, "run")
        /\ e.rows = WithInsert(t.cmd, "task", t.rows)
        /\ IsTx(e)
    <3>1. DOMAIN t.rows # {} \/ t.run # NULL
      BY <2>1
    <3>2. /\ e.cmd = t.cmd /\ e.stmt = t.stmt + 1
          /\ e.waits = t.waits /\ e.run = t.run /\ IsTx(e)
      BY <1>1, <3>1, EndedFields
    <3>3. e.todo = IF t.stmt < Len(Statements(t.cmd.op))
                   THEN Matching(t.cmd, Statements(t.cmd.op)[t.stmt + 1]) ELSE {}
      BY <1>1, <3>1, EndedFields
    <3>4. e.rows = WithInsert(t.cmd, Statements(t.cmd.op)[t.stmt], t.rows)
      BY <1>1, <3>1, EndedFields
    <3> HIDE DEF e
    <3> QED BY <2>1, <2>a, <3>2, <3>3, <3>4
  <2>3. e.log = OnlyLog(t.cmd.run, EventsAfter(t.cmd, "task", {}))
    BY <1>1, <2>1, LogAfter
  <2> HIDE DEF e
  <2>4. e.todo = {RunOf(e.cmd.run)}
    BY <2>1, <2>2 DEF Matching, RunMatches
  <2>5. OwnRow(t) # NextRow(t)
    <3>1. t.cmd.step \in Steps
      BY <1>1, <2>1 DEF IsCommand, OnTask
    <3>2. \A i \in Steps : i # i + 1
      BY TypesAssumption DEF Steps
    <3> QED BY <3>1, <3>2 DEF OwnRow, NextRow
  <2>6. /\ DOMAIN e.rows = {OwnRow(t)} \cup (IF GoesOn(t.cmd) THEN {NextRow(t)}
                                                              ELSE {})
        /\ e.rows[OwnRow(t)] = t.rows[OwnRow(t)]
        /\ GoesOn(t.cmd) => e.rows[NextRow(t)] =
              InsertTask(BuildTask(runs[t.cmd.run].workflow, t.cmd.step + 1,
                                   t.cmd.result))
    BY <2>1, <2>2, <2>5 DEF WithInsert, WithRow, GoesOn, NextRow
  <2>7. GoesOn(t.cmd) =>
           BuildTask(runs[t.cmd.run].workflow, t.cmd.step + 1, t.cmd.result) \in
             NextTasks(runs[t.cmd.run].workflow, t.cmd.step + 1, t.cmd.result)
    <3>1. ASSUME GoesOn(t.cmd)
          PROVE  /\ t.cmd.run \in Runs /\ t.cmd.step \in Steps
                 /\ t.cmd.result \in Payload
                 /\ ~Finished(t.cmd.run, t.cmd.step)
      BY <1>1, <3>1 DEF GoesOn, IsCommand, OnTask, Payload
    <3>2. TaskMatches(t.cmd, t.cmd.run, t.cmd.step)
      BY <2>1 DEF Taken, OwnRow
    <3> QED BY <1>1, <3>1, <3>2, NextTaskBuilt
  <2>8. TaskWritten(e)
    BY <2>1, <2>2, <2>6, <2>7 DEF TaskWritten, Taken, OwnRow, NextRow, GoesOn
  <2>9. NeedsRun(e)
    BY <2>2, <2>3, <2>4, <2>8 DEF NeedsRun
  <2> QED BY <1>1, <1>4, <2>1, <2>2, <2>6, <2>9 DEF TxOK, Form, LocksIn, e
<1>5. CASE HasRun(t)
  <2>1. /\ t.cmd.op = "cancel" /\ t.stmt = 1 /\ RunClosed(t)
        /\ Statements(t.cmd.op)[1] = "run" /\ Statements(t.cmd.op)[2] = "task"
        /\ Len(Statements(t.cmd.op)) = 2
        /\ DOMAIN t.rows = {} /\ t.run # NULL /\ t.log = NoLog
        /\ t.waits = NULL /\ t.cmd.run \in Runs
    BY <1>1, <1>5, StatementsOf, LockedRun DEF HasRun, Rests, RunClosed
  <2>a. t.stmt < Len(Statements(t.cmd.op)) /\ t.stmt + 1 = 2
    BY <2>1
  <2>2. /\ e.cmd = t.cmd /\ e.stmt = 2 /\ e.waits = NULL /\ e.run = t.run
        /\ e.todo = Matching(t.cmd, "task")
        /\ e.rows = WithInsert(t.cmd, "run", t.rows)
        /\ IsTx(e)
    <3>1. DOMAIN t.rows # {} \/ t.run # NULL
      BY <2>1
    <3>2. /\ e.cmd = t.cmd /\ e.stmt = t.stmt + 1
          /\ e.waits = t.waits /\ e.run = t.run /\ IsTx(e)
      BY <1>1, <3>1, EndedFields
    <3>3. e.todo = IF t.stmt < Len(Statements(t.cmd.op))
                   THEN Matching(t.cmd, Statements(t.cmd.op)[t.stmt + 1]) ELSE {}
      BY <1>1, <3>1, EndedFields
    <3>4. e.rows = WithInsert(t.cmd, Statements(t.cmd.op)[t.stmt], t.rows)
      BY <1>1, <3>1, EndedFields
    <3> HIDE DEF e
    <3> QED BY <2>1, <2>a, <3>2, <3>3, <3>4
  <2>3. e.log = OnlyLog(t.cmd.run, EventsAfter(t.cmd, "run", {}))
    BY <1>1, <2>1, LogAfter
  <2> HIDE DEF e
  <2>4. e.log = NoLog /\ e.rows = t.rows
    BY <2>1, <2>2, <2>3 DEF OnlyLog, NoLog, EventsAfter, CancelEvent, WithInsert
  <2>5. e.todo = {CurrentRow(t.cmd.run)}
    <3>1. /\ runs[t.cmd.run].status = "running"
          /\ runs[t.cmd.run].current_step \in Steps
          /\ tasks[t.cmd.run][runs[t.cmd.run].current_step].status \in Outstanding
      BY <2>1, CurrentStep DEF RunClosed
    <3>2. ASSUME NEW j \in Steps, tasks[t.cmd.run][j].status \in Outstanding
          PROVE  j = runs[t.cmd.run].current_step
      BY <2>1, <3>2, ActiveRow DEF Outstanding
    <3>3. Matching(t.cmd, "task") =
            {x \in TaskRows : x[1] = t.cmd.run /\ tasks[x[1]][x[2]].status \in Outstanding}
      BY <2>1 DEF Matching, TaskMatches
    <3> QED BY <2>1, <2>2, <3>1, <3>2, <3>3 DEF TaskRows, CurrentRow
  <2>6. NeedsTask(e)
    BY <2>1, <2>2, <2>4, <2>5 DEF NeedsTask, RunClosed
  <2> QED BY <1>1, <2>2, <2>4, <2>6 DEF TxOK, Form, LocksIn, e
<1> QED BY <1>2, <1>3, <1>4, <1>5

(* The end of a transaction's last statement.                              *)
LEMMA EndedLast ==
    ASSUME NEW t, IsTx(t), IsCommand(t.cmd), DOMAIN t.rows # {} \/ t.run # NULL,
           t.stmt = Len(Statements(t.cmd.op))
    PROVE  /\ Ended(t).cmd = t.cmd
           /\ Ended(t).stmt = Len(Statements(t.cmd.op)) + 1
           /\ Ended(t).todo = {} /\ Ended(t).waits = t.waits
           /\ Ended(t).run = t.run /\ Ended(t).rows = t.rows
           /\ IsTx(Ended(t))
<1> DEFINE e == Ended(t)
           n == Len(Statements(t.cmd.op))
           table == Statements(t.cmd.op)[t.stmt]
<1>1. /\ e.cmd = t.cmd /\ e.stmt = t.stmt + 1
      /\ e.waits = t.waits /\ e.run = t.run /\ IsTx(e)
  BY EndedFields
<1>2. e.todo = IF t.stmt < n
               THEN Matching(t.cmd, Statements(t.cmd.op)[t.stmt + 1]) ELSE {}
  BY EndedFields
<1>3. e.rows = WithInsert(t.cmd, table, t.rows)
  BY EndedFields
<1>4. t.cmd.op = "advance" => table = "run"
  <2>1. t.cmd.op = "advance" => Statements(t.cmd.op) = <<"task", "run">> /\ t.stmt = 2
    BY StatementsOf
  <2>2. <<"task", "run">>[2] = "run"
    OBVIOUS
  <2> QED BY <2>1, <2>2
<1> HIDE DEF e, table, n
<1>5. n \in {1, 2} /\ t.stmt = n
  BY StatementsOf DEF IsCommand, OnTask, n
<1>6. ~(t.stmt < n)
  BY <1>5
<1>7. e.rows = t.rows
  BY <1>3, <1>4 DEF WithInsert
<1>8. e.stmt = n + 1
  BY <1>1, <1>5
<1> QED BY <1>1, <1>2, <1>6, <1>7, <1>8 DEF e, n

(* What a reap records is what it has taken back.                          *)
LEMMA ReapLog ==
    ASSUME StoreInv, NEW t, IsTx(t), t.cmd.op = "reap", t.stmt = 1, t.log = NoLog,
           DOMAIN t.rows # {}
    PROVE  Ended(t).log = [r \in Runs |-> ReclaimEvents(TakenBack(t, r))]
<1> DEFINE seen(r) == {i \in Steps : <<r, i>> \in DOMAIN t.rows}
<1>1. Ended(t).log = [r \in Runs |->
         IF t.cmd.op # "reap" => r = t.cmd.run
         THEN t.log[r] \o EventsAfter(t.cmd, Statements(t.cmd.op)[t.stmt], seen(r))
         ELSE t.log[r]]
  BY EndedFields
<1>2. ASSUME NEW r \in Runs
      PROVE  t.log[r] \o EventsAfter(t.cmd, Statements(t.cmd.op)[t.stmt], seen(r)) =
                ReclaimEvents(TakenBack(t, r))
  <2>1. seen(r) = TakenBack(t, r)
    BY DEF TakenBack
  <2>2. EventsAfter(t.cmd, Statements(t.cmd.op)[t.stmt], seen(r)) =
          ReclaimEvents(TakenBack(t, r))
    BY <2>1 DEF EventsAfter
  <2>3. TakenBack(t, r) \in SUBSET Steps
    BY DEF TakenBack
  <2>4. ReclaimEvents(TakenBack(t, r)) \in Seq(Event)
    BY <2>3, ReclaimEventsType
  <2>5. t.log[r] = <<>>
    BY DEF NoLog
  <2> QED BY <2>2, <2>4, <2>5
<1> HIDE DEF seen
<1> QED BY <1>1, <1>2

(* What an UPDATE makes of a row is what it is said to.                    *)
LEMMA RowTaken ==
    ASSUME NEW t, IsTx(t), IsCommand(t.cmd), NEW row,
           TaskMatches(t.cmd, row[1], row[2]), NEW w, w.cmd = t.cmd,
           w.rows = WithRow(t.rows, row, NewTaskRow(t.cmd, tasks[row[1]][row[2]]))
    PROVE  /\ DOMAIN w.rows = DOMAIN t.rows \cup {row}
           /\ Taken(w, row)
           /\ \A x \in DOMAIN t.rows : Taken(t, x) => Taken(w, x)
<1> DEFINE u == tasks[row[1]][row[2]]
<1>1. /\ DOMAIN w.rows = DOMAIN t.rows \cup {row}
      /\ w.rows[row] = NewTaskRow(t.cmd, u)
      /\ \A x \in DOMAIN t.rows : x # row => w.rows[x] = t.rows[x]
  BY DEF WithRow
<1>2. NewTaskRow(t.cmd, u) \in Rewrites(t.cmd, u)
  <2> HIDE DEF u
  <2>1. CASE t.cmd.op = "retry"
    <3>1. /\ t.cmd.delay \in 0 .. MaxBackoff
          /\ NewTaskRow(t.cmd, u) = [BackToPending(u) EXCEPT !.available_at = t.cmd.delay]
      BY <2>1 DEF IsCommand, NewTaskRow
    <3> QED BY <2>1, <3>1 DEF Rewrites
  <2>2. CASE t.cmd.op # "retry"
    BY <2>2 DEF Rewrites
  <2> QED BY <2>1, <2>2
<1>3. Taken(w, row)
  BY <1>1, <1>2 DEF Taken
<1>4. ASSUME NEW x \in DOMAIN t.rows, Taken(t, x) PROVE Taken(w, x)
  BY <1>1, <1>3, <1>4 DEF Taken
<1> QED BY <1>1, <1>3, <1>4

(* The row locked, and the statement ended if it is the last of the last.  *)
TakenInto(w) ==
    IF w.todo = {} /\ w.stmt = Len(Statements(w.cmd.op)) THEN Ended(w) ELSE w

(* The first UPDATE of a command on a task.                                *)
LEMMA TakeOwnTask ==
    ASSUME StoreInv, NEW t, IsTx(t), IsCommand(t.cmd), Searching(t),
           t.cmd.op \in OnTask, NEW row \in t.todo,
           NEW w, w = Rewritten(t, row)
    PROVE  /\ TxOK(TakenInto(w))
           /\ LocksIn(TakenInto(w)) \subseteq LocksIn(t) \cup {row}
<1> DEFINE e == TakenInto(w)
<1>1. /\ Statements(t.cmd.op)[t.stmt] = "task" /\ t.stmt = 1
      /\ Blank(t) /\ row = OwnRow(t) /\ t.todo = {row} /\ t.late = {}
  BY StatementsOf DEF Searching, OnTask, IsTx
<1>2. /\ t.cmd.run \in Runs /\ t.cmd.step \in Steps
  BY DEF IsCommand, OnTask
<1>3. /\ w.cmd = t.cmd /\ w.stmt = 1 /\ w.log = NoLog /\ w.waits = NULL
      /\ w.todo = {} /\ IsTx(w)
  <2>1. /\ w.cmd = t.cmd /\ w.stmt = t.stmt /\ w.log = t.log
        /\ w.todo = t.todo \ {row} /\ w.waits = NULL /\ IsTx(w)
    BY RewrittenFields
  <2> QED BY <1>1, <2>1 DEF Blank
<1>4. CASE row \notin Matching(t.cmd, "task")
  <2>1. w.rows = t.rows /\ w.run = t.run
    BY <1>1, <1>4, RewrittenFields
  <2>2. Blank(w) /\ Rests(w)
    BY <1>1, <1>3, <2>1 DEF Blank, Rests
  <2>3. Searching(w)
    BY <1>3, <2>2 DEF Searching, OnTask, Rests
  <2>4. TxOK(w)
    BY <1>3, <2>3 DEF TxOK, Form
  <2>5. TxOK(Ended(w)) /\ Blank(Ended(w))
    BY <1>3, <2>2, GivesUp
  <2>6. TxOK(e) /\ Blank(e)
    BY <2>2, <2>4, <2>5 DEF TakenInto
  <2> QED BY <2>6 DEF Blank, LocksIn
<1>5. CASE row \in Matching(t.cmd, "task")
  <2>1. /\ w.rows = WithRow(t.rows, row, NewTaskRow(t.cmd, tasks[row[1]][row[2]]))
        /\ w.run = NULL
    BY <1>1, <1>5, RewrittenTask DEF Blank
  <2>2. TaskMatches(t.cmd, row[1], row[2])
    BY <1>5 DEF Matching
  <2>3. DOMAIN w.rows = {OwnRow(w)} /\ Taken(w, OwnRow(w)) /\ OwnRow(w) = row
    <3>1. DOMAIN t.rows = {}
      BY <1>1 DEF Blank
    <3>2. OwnRow(w) = row
      BY <1>1, <1>3 DEF OwnRow
    <3>3. DOMAIN w.rows = DOMAIN t.rows \cup {row} /\ Taken(w, row)
      BY <1>3, <2>1, <2>2, RowTaken
    <3> QED BY <3>1, <3>2, <3>3
  <2>4. CASE t.cmd.op \in {"advance", "dead"}
    <3>1. HasTask(w)
      BY <1>3, <2>1, <2>3, <2>4 DEF HasTask, Rests
    <3>2. w.stmt # Len(Statements(w.cmd.op))
      BY <1>3, <2>4, StatementsOf
    <3>3. e = w
      BY <3>2 DEF TakenInto
    <3>4. TxOK(w)
      BY <1>3, <3>1 DEF TxOK, Form
    <3> QED BY <2>1, <2>3, <3>3, <3>4 DEF LocksIn
  <2>5. CASE t.cmd.op \in {"retry", "replay"}
    <3>1. /\ Len(Statements(w.cmd.op)) = 1 /\ Statements(w.cmd.op)[w.stmt] = "task"
      BY <1>3, <2>5, StatementsOf
    <3>2. e = Ended(w)
      BY <1>3, <3>1 DEF TakenInto
    <3>3. /\ e.cmd = w.cmd /\ e.stmt = 2 /\ e.todo = {} /\ e.waits = NULL
          /\ e.run = NULL /\ e.rows = w.rows /\ IsTx(e)
      <4>1. DOMAIN w.rows # {} /\ IsCommand(w.cmd)
        BY <1>3, <2>3
      <4>2. w.stmt = Len(Statements(w.cmd.op))
        BY <1>3, <3>1
      <4>3. /\ Ended(w).cmd = w.cmd
            /\ Ended(w).stmt = Len(Statements(w.cmd.op)) + 1
            /\ Ended(w).todo = {} /\ Ended(w).waits = w.waits
            /\ Ended(w).run = w.run /\ Ended(w).rows = w.rows
            /\ IsTx(Ended(w))
        BY <1>3, <4>1, <4>2, EndedLast
      <4> QED BY <1>3, <2>1, <3>1, <3>2, <4>3
    <3>4. e.log = OnlyLog(w.cmd.run, EventsAfter(w.cmd, "task", {}))
      <4>1. DOMAIN w.rows # {} /\ IsCommand(w.cmd) /\ w.cmd.op # "reap"
        BY <1>3, <2>3, <2>5
      <4>2. Ended(w).log = OnlyLog(w.cmd.run, EventsAfter(w.cmd, "task", {}))
        BY <1>3, <3>1, <4>1, LogAfter
      <4> QED BY <3>2, <4>2
    <3> HIDE DEF e
    <3>5. OwnRow(e) = OwnRow(w) /\ Taken(e, OwnRow(e)) /\ DOMAIN e.rows = {OwnRow(e)}
      BY <2>3, <3>3 DEF OwnRow, Taken
    <3>6. Took(e)
      BY <1>3, <2>5, <3>3, <3>4, <3>5 DEF Took, Rests
    <3>7. TxOK(e)
      BY <1>3, <3>3, <3>6 DEF TxOK, Form
    <3> QED BY <2>3, <3>3, <3>5, <3>7 DEF LocksIn, e
  <2> QED BY <2>4, <2>5 DEF OnTask
<1> QED BY <1>4, <1>5

(* CancelRun's first UPDATE.                                               *)
LEMMA TakeRunToCancel ==
    ASSUME StoreInv, NEW t, IsTx(t), IsCommand(t.cmd), Searching(t),
           t.cmd.op = "cancel", NEW row \in t.todo,
           NEW w, w = Rewritten(t, row)
    PROVE  /\ TxOK(TakenInto(w))
           /\ LocksIn(TakenInto(w)) \subseteq LocksIn(t) \cup {row}
<1>1. /\ Statements(t.cmd.op)[t.stmt] = "run" /\ t.stmt = 1
      /\ Len(Statements(t.cmd.op)) = 2
      /\ Blank(t) /\ row = RunOf(t.cmd.run) /\ t.todo = {row} /\ t.late = {}
  BY StatementsOf DEF Searching, IsTx
<1>2. /\ w.cmd = t.cmd /\ w.stmt = 1 /\ w.log = NoLog /\ w.waits = NULL
      /\ w.todo = {} /\ IsTx(w)
  <2>1. /\ w.cmd = t.cmd /\ w.stmt = t.stmt /\ w.log = t.log
        /\ w.todo = t.todo \ {row} /\ w.waits = NULL /\ IsTx(w)
    BY RewrittenFields
  <2> QED BY <1>1, <2>1 DEF Blank
<1>3. TakenInto(w) = w
  <2>1. Len(Statements(w.cmd.op)) = 2
    BY <1>1, <1>2
  <2>2. w.stmt # Len(Statements(w.cmd.op))
    BY <1>2, <2>1
  <2> QED BY <2>2 DEF TakenInto
<1>4. CASE row \notin Matching(t.cmd, "run")
  <2>1. w.rows = t.rows /\ w.run = t.run
    <3>1. PICK table : /\ table = Statements(t.cmd.op)[t.stmt]
                       /\ row \notin Matching(t.cmd, table) \ t.late
      BY <1>1, <1>4
    <3> QED BY <3>1, RewrittenFields
  <2>2. Blank(w)
    BY <1>1, <1>2, <2>1 DEF Blank
  <2>3. Searching(w)
    BY <1>2, <2>2 DEF Searching
  <2>4. TxOK(w)
    BY <1>2, <2>3 DEF TxOK, Form
  <2> QED BY <1>3, <2>2, <2>4 DEF Blank, LocksIn
<1>5. CASE row \in Matching(t.cmd, "run")
  <2>1. w.rows = t.rows /\ w.run = NewRunRow(t.cmd, runs[t.cmd.run])
    BY <1>1, <1>5, RewrittenRun
  <2>2. runs[t.cmd.run].status = "running"
    BY <1>5 DEF Matching, RunMatches
  <2>3. HasRun(w)
    BY <1>1, <1>2, <2>1, <2>2 DEF HasRun, RunClosed, Rests, Blank
  <2>4. TxOK(w)
    BY <1>2, <2>3 DEF TxOK, Form
  <2> QED BY <1>1, <1>2, <1>3, <2>1, <2>4 DEF LocksIn, Blank
<1> QED BY <1>4, <1>5

(* Advance and DeadLetter lock the run, which has not changed since.       *)
LEMMA TakeRun ==
    ASSUME StoreInv, NEW t, IsTx(t), IsCommand(t.cmd), NeedsRun(t),
           NEW row \in t.todo, NEW w, w = Rewritten(t, row)
    PROVE  /\ TxOK(TakenInto(w))
           /\ LocksIn(TakenInto(w)) \subseteq LocksIn(t) \cup {row}
<1> DEFINE e == TakenInto(w)
           es == EventsAfter(t.cmd, "task", {})
<1>1. /\ Statements(t.cmd.op)[t.stmt] = "run" /\ t.stmt = 2
      /\ Len(Statements(t.cmd.op)) = 2 /\ t.cmd.op \in {"advance", "dead"}
      /\ TaskWritten(t) /\ row = RunOf(t.cmd.run) /\ t.todo = {row}
      /\ t.log = OnlyLog(t.cmd.run, es) /\ t.late = {}
  BY StatementsOf DEF NeedsRun, TaskWritten, IsTx
<1>2. row \in Matching(t.cmd, "run")
  BY <1>1 DEF Matching, RunMatches
<1>3. /\ w.cmd = t.cmd /\ w.stmt = 2 /\ w.log = t.log /\ w.waits = NULL
      /\ w.todo = {} /\ w.rows = t.rows
      /\ w.run = NewRunRow(t.cmd, runs[t.cmd.run]) /\ IsTx(w)
  <2>1. /\ w.cmd = t.cmd /\ w.stmt = t.stmt /\ w.log = t.log
        /\ w.todo = t.todo \ {row} /\ w.waits = NULL /\ IsTx(w)
    BY RewrittenFields
  <2>2. w.rows = t.rows /\ w.run = NewRunRow(t.cmd, runs[t.cmd.run])
    BY <1>1, <1>2, RewrittenRun
  <2> QED BY <1>1, <2>1, <2>2
<1>4. e = Ended(w)
  BY <1>1, <1>3 DEF TakenInto
<1>5. DOMAIN w.rows # {} /\ IsCommand(w.cmd) /\ w.stmt = Len(Statements(w.cmd.op))
  BY <1>1, <1>3 DEF TaskWritten
<1>6. /\ e.cmd = t.cmd /\ e.stmt = 3 /\ e.todo = {} /\ e.waits = NULL
      /\ e.run = w.run /\ e.rows = t.rows /\ IsTx(e)
  <2>1. /\ Ended(w).cmd = w.cmd
        /\ Ended(w).stmt = Len(Statements(w.cmd.op)) + 1
        /\ Ended(w).todo = {} /\ Ended(w).waits = w.waits
        /\ Ended(w).run = w.run /\ Ended(w).rows = w.rows
        /\ IsTx(Ended(w))
    BY <1>3, <1>5, EndedLast
  <2>2. Len(Statements(w.cmd.op)) = 2
    BY <1>1, <1>3
  <2> HIDE DEF e
  <2>3. e.stmt = 3
    BY <1>4, <2>1, <2>2
  <2> QED BY <1>3, <1>4, <2>1, <2>3
<1>7. e.log = OnlyLog(t.cmd.run, es \o EventsAfter(t.cmd, "run", {}))
  <2>1. Statements(w.cmd.op)[w.stmt] = "run" /\ w.cmd.op \in {"advance", "dead"}
    BY <1>1, <1>3
  <2>2. w.log = OnlyLog(w.cmd.run, es)
    BY <1>1, <1>3
  <2> HIDE DEF es
  <2>3. Ended(w).log = OnlyLog(w.cmd.run, es \o EventsAfter(w.cmd, "run", {}))
    BY <1>3, <1>5, <2>1, <2>2, LogAfter
  <2> QED BY <1>3, <1>4, <2>3
<1> HIDE DEF e
<1>8. TaskWritten(e)
  BY <1>1, <1>6 DEF TaskWritten, Taken, OwnRow, NextRow
<1>9. HasBoth(e)
  BY <1>3, <1>6, <1>7, <1>8 DEF HasBoth, Rests
<1>10. TxOK(e)
  BY <1>6, <1>9 DEF TxOK, Form
<1> QED BY <1>1, <1>6, <1>10 DEF LocksIn, e

(* CancelRun locks the task, which has been waiting for a worker, or with  *)
(* one, since the run was locked.                                          *)
LEMMA TakeTaskToCancel ==
    ASSUME StoreInv, NEW t, IsTx(t), IsCommand(t.cmd), NeedsTask(t),
           NEW row \in t.todo, NEW w, w = Rewritten(t, row)
    PROVE  /\ TxOK(TakenInto(w))
           /\ LocksIn(TakenInto(w)) \subseteq LocksIn(t) \cup {row}
<1> DEFINE e == TakenInto(w)
<1>1. /\ Statements(t.cmd.op)[t.stmt] = "task" /\ t.stmt = 2
      /\ Len(Statements(t.cmd.op)) = 2 /\ t.cmd.op = "cancel"
      /\ RunClosed(t) /\ row = CurrentRow(t.cmd.run) /\ t.todo = {row}
      /\ t.log = NoLog /\ DOMAIN t.rows = {} /\ t.cmd.run \in Runs
      /\ t.late = {}
  BY StatementsOf DEF NeedsTask, RunClosed, IsCommand, IsTx
<1>2. row \in Matching(t.cmd, "task") /\ TaskMatches(t.cmd, row[1], row[2])
  <2>1. /\ row \in TaskRows
        /\ tasks[t.cmd.run][runs[t.cmd.run].current_step].status \in Outstanding
    BY <1>1, CurrentStep DEF RunClosed
  <2>2. TaskMatches(t.cmd, row[1], row[2])
    BY <1>1, <2>1 DEF TaskMatches, CurrentRow
  <2> QED BY <2>1, <2>2 DEF Matching
<1>3. /\ w.cmd = t.cmd /\ w.stmt = 2 /\ w.log = t.log /\ w.waits = NULL
      /\ w.todo = {} /\ w.run = t.run /\ IsTx(w)
      /\ DOMAIN w.rows = {row} /\ Taken(w, row)
  <2>1. /\ w.cmd = t.cmd /\ w.stmt = t.stmt /\ w.log = t.log
        /\ w.todo = t.todo \ {row} /\ w.waits = NULL /\ IsTx(w)
    BY RewrittenFields
  <2>2. /\ w.rows = WithRow(t.rows, row, NewTaskRow(t.cmd, tasks[row[1]][row[2]]))
        /\ w.run = t.run
    BY <1>1, <1>2, RewrittenTask
  <2>3. DOMAIN w.rows = DOMAIN t.rows \cup {row} /\ Taken(w, row)
    BY <1>2, <2>1, <2>2, RowTaken
  <2> QED BY <1>1, <2>1, <2>2, <2>3
<1>4. e = Ended(w)
  BY <1>1, <1>3 DEF TakenInto
<1>5. DOMAIN w.rows # {} /\ IsCommand(w.cmd) /\ w.stmt = Len(Statements(w.cmd.op))
  BY <1>1, <1>3
<1>6. /\ e.cmd = t.cmd /\ e.stmt = 3 /\ e.todo = {} /\ e.waits = NULL
      /\ e.run = t.run /\ e.rows = w.rows /\ IsTx(e)
  <2>1. /\ Ended(w).cmd = w.cmd
        /\ Ended(w).stmt = Len(Statements(w.cmd.op)) + 1
        /\ Ended(w).todo = {} /\ Ended(w).waits = w.waits
        /\ Ended(w).run = w.run /\ Ended(w).rows = w.rows
        /\ IsTx(Ended(w))
    BY <1>3, <1>5, EndedLast
  <2>2. Len(Statements(w.cmd.op)) = 2
    BY <1>1, <1>3
  <2> HIDE DEF e
  <2>3. e.stmt = 3
    BY <1>4, <2>1, <2>2
  <2> QED BY <1>3, <1>4, <2>1, <2>3
<1>7. e.log = OnlyLog(t.cmd.run, <<Ev("WorkflowCancelled", NoStep)>>)
  <2>1. Statements(w.cmd.op)[w.stmt] = "task" /\ w.cmd.op = "cancel"
    BY <1>1, <1>3
  <2>2. Ended(w).log = OnlyLog(w.cmd.run, EventsAfter(w.cmd, "task", {}))
    BY <1>1, <1>3, <1>5, <2>1, LogAfter
  <2>3. EventsAfter(w.cmd, "task", {}) = <<Ev("WorkflowCancelled", NoStep)>>
    BY <2>1 DEF EventsAfter, CancelEvent
  <2> QED BY <1>3, <1>4, <2>2, <2>3
<1> HIDE DEF e
<1>8. RunClosed(e) /\ Taken(e, row)
  BY <1>1, <1>3, <1>6 DEF RunClosed, Taken
<1>9. Swept(e)
  BY <1>1, <1>3, <1>6, <1>7, <1>8 DEF Swept, Rests
<1>10. TxOK(e)
  BY <1>6, <1>9 DEF TxOK, Form
<1> QED BY <1>1, <1>3, <1>6, <1>10 DEF LocksIn, e

(* A reap locks one more row, or passes it over.                           *)
LEMMA TakeExpired ==
    ASSUME StoreInv, NEW t, IsTx(t), IsCommand(t.cmd), Reaping(t),
           NEW row \in t.todo, NEW w, w = Rewritten(t, row)
    PROVE  /\ TxOK(TakenInto(w))
           /\ LocksIn(TakenInto(w)) \subseteq LocksIn(t) \cup {row}
<1> DEFINE e == TakenInto(w)
<1>1. /\ Statements(t.cmd.op)[t.stmt] = "task" /\ t.stmt = 1
      /\ Len(Statements(t.cmd.op)) = 1 /\ t.cmd.op = "reap"
      /\ t.run = NULL /\ t.log = NoLog /\ row \in TaskRows
      /\ DOMAIN t.rows \subseteq ExpiredRows
      /\ \A x \in DOMAIN t.rows : Taken(t, x)
  BY StatementsOf DEF Reaping
<1>2. /\ w.cmd = t.cmd /\ w.stmt = 1 /\ w.log = NoLog /\ w.waits = NULL
      /\ w.todo = t.todo \ {row} /\ IsTx(w)
  <2>1. /\ w.cmd = t.cmd /\ w.stmt = t.stmt /\ w.log = t.log
        /\ w.todo = t.todo \ {row} /\ w.waits = NULL /\ IsTx(w)
    BY RewrittenFields
  <2> QED BY <1>1, <2>1
<1>3. Matching(t.cmd, "task") = ExpiredRows
  BY <1>1 DEF Matching, TaskMatches, ExpiredRows
<1>4. /\ w.run = NULL
      /\ DOMAIN w.rows \subseteq ExpiredRows
      /\ \A x \in DOMAIN w.rows : Taken(w, x)
      /\ DOMAIN w.rows \subseteq DOMAIN t.rows \cup {row}
  <2>1. CASE row \notin ExpiredRows \ t.late
    <3>1. w.rows = t.rows /\ w.run = t.run
      <4>1. PICK table : /\ table = Statements(t.cmd.op)[t.stmt]
                         /\ row \notin Matching(t.cmd, table) \ t.late
        BY <1>1, <1>3, <2>1
      <4> QED BY <4>1, RewrittenFields
    <3> QED BY <1>1, <1>2, <2>1, <3>1 DEF Taken
  <2>2. CASE row \in ExpiredRows \ t.late
    <3>1. /\ w.rows = WithRow(t.rows, row, NewTaskRow(t.cmd, tasks[row[1]][row[2]]))
          /\ w.run = t.run
      BY <1>1, <1>3, <2>2, RewrittenTask
    <3>2. TaskMatches(t.cmd, row[1], row[2])
      BY <1>3, <2>2 DEF Matching
    <3>3. /\ DOMAIN w.rows = DOMAIN t.rows \cup {row}
          /\ Taken(w, row)
          /\ \A x \in DOMAIN t.rows : Taken(t, x) => Taken(w, x)
      BY <1>2, <3>1, <3>2, RowTaken
    <3> QED BY <1>1, <1>2, <2>2, <3>1, <3>3
  <2> QED BY <2>1, <2>2
<1>5. LocksIn(w) \subseteq LocksIn(t) \cup {row}
  BY <1>4 DEF LocksIn
<1>6. CASE w.todo # {}
  <2>1. e = w
    BY <1>6 DEF TakenInto
  <2>2. Reaping(w)
    BY <1>1, <1>2, <1>4, <1>6 DEF Reaping
  <2> QED BY <1>2, <1>5, <2>1, <2>2 DEF TxOK, Form
<1>7. CASE w.todo = {} /\ DOMAIN w.rows = {}
  <2>1. Blank(w) /\ Rests(w)
    BY <1>2, <1>4, <1>7 DEF Blank, Rests
  <2>2. e = Ended(w)
    BY <1>1, <1>2, <1>7 DEF TakenInto
  <2>3. TxOK(e) /\ Blank(e)
    BY <1>2, <2>1, <2>2, GivesUp
  <2> QED BY <2>3 DEF Blank, LocksIn
<1>8. CASE w.todo = {} /\ DOMAIN w.rows # {}
  <2>1. e = Ended(w) /\ w.stmt = Len(Statements(w.cmd.op)) /\ IsCommand(w.cmd)
    BY <1>1, <1>2, <1>8 DEF TakenInto
  <2>2. /\ Ended(w).cmd = w.cmd
        /\ Ended(w).stmt = Len(Statements(w.cmd.op)) + 1
        /\ Ended(w).todo = {} /\ Ended(w).waits = w.waits
        /\ Ended(w).run = w.run /\ Ended(w).rows = w.rows
        /\ IsTx(Ended(w))
    BY <1>2, <1>8, <2>1, EndedLast
  <2>3. Ended(w).log = [r \in Runs |-> ReclaimEvents(TakenBack(w, r))]
    BY <1>1, <1>2, <1>8, ReapLog
  <2> HIDE DEF e
  <2>4. e.log = [r \in Runs |-> ReclaimEvents(TakenBack(e, r))]
    BY <2>1, <2>2, <2>3 DEF TakenBack
  <2>5. Reaped(e)
    BY <1>1, <1>2, <1>4, <1>8, <2>1, <2>2, <2>4 DEF Reaped, Rests, Taken
  <2>6. TxOK(e)
    BY <1>2, <2>1, <2>2, <2>5 DEF TxOK, Form
  <2> QED BY <1>2, <1>5, <2>1, <2>2, <2>6 DEF LocksIn, e
<1> QED BY <1>6, <1>7, <1>8

LEMMA TakeForm ==
    ASSUME StoreInv, NEW t, TxOK(t), NEW row \in t.todo, NEW w, w = Rewritten(t, row)
    PROVE  /\ TxOK(TakenInto(w))
           /\ LocksIn(TakenInto(w)) \subseteq LocksIn(t) \cup {row}
<1>1. t # NoTx
  BY DEF NoTx
<1>2. IsTx(t) /\ IsCommand(t.cmd) /\ Form(t)
  BY <1>1 DEF TxOK
<1>3. Searching(t) \/ NeedsRun(t) \/ NeedsTask(t) \/ Reaping(t)
  BY <1>2 DEF Form, GaveUp, Took, HasTask, HasBoth, HasRun, Swept, Reaped, Rests
<1>4. CASE Searching(t)
  <2>1. t.cmd.op \in OnTask \/ t.cmd.op = "cancel"
    BY <1>2, <1>4 DEF Searching, IsCommand
  <2> QED BY <1>2, <1>4, <2>1, TakeOwnTask, TakeRunToCancel
<1>5. CASE NeedsRun(t)
  BY <1>2, <1>5, TakeRun
<1>6. CASE NeedsTask(t)
  BY <1>2, <1>6, TakeTaskToCancel
<1>7. CASE Reaping(t)
  BY <1>2, <1>7, TakeExpired
<1> QED BY <1>3, <1>4, <1>5, <1>6, <1>7

----------------------------------------------------------------------------
(* Steps that leave the committed rows alone.                              *)

LEMMA LocksAre ==
    \A c \in Conns : Locks(c) = LocksIn(tx[c]) /\ Locks(c)' = LocksIn(tx[c])'
  BY DEF Locks, LocksIn

LEMMA BlankLocks ==
    ASSUME NEW t, Blank(t)
    PROVE  LocksIn(t) = {}
  BY DEF Blank, LocksIn

LEMMA SameRows ==
    ASSUME StoreInv, UNCHANGED storeVars
    PROVE  StoreInv' /\ \A t : TxOK(t) => TxOK(t)'
<1>1. StoreInv'
  BY DEF storeVars, StoreInv, StoreTypeOK, RunShape, ShapeOf, TaskFits
<1>2. ASSUME NEW t, TxOK(t) PROVE TxOK(t)'
  <2>1. Aloof(t)
    BY DEF Aloof, storeVars
  <2> QED BY <1>1, <1>2, <2>1, Undisturbed
<1> QED BY <1>1, <1>2

LEMMA OneChanges ==
    ASSUME TxInv, UNCHANGED storeVars, NEW c \in Conns, NEW t,
           tx' = [tx EXCEPT ![c] = t], TxOK(t),
           \A d \in Conns \ {c} : LocksIn(t) \cap LocksIn(tx[d]) = {}
    PROVE  TxInv'
<1>1. StoreInv /\ Exclusive /\ tx = [d \in Conns |-> tx[d]]
  BY DEF TxInv
<1>2. /\ StoreInv'
      /\ \A u : TxOK(u) => TxOK(u)'
  BY <1>1, SameRows
<1>3. /\ tx' = [d \in Conns |-> IF d = c THEN t ELSE tx[d]]
      /\ tx' = [d \in Conns |-> tx'[d]]
      /\ \A d \in Conns : tx'[d] = IF d = c THEN t ELSE tx[d]
  BY <1>1
<1>4. ASSUME NEW d \in Conns PROVE TxOK(tx[d])'
  BY <1>2, <1>3 DEF TxInv
<1>5. ASSUME NEW d \in Conns
      PROVE  LocksIn(tx[d])' = IF d = c THEN LocksIn(t) ELSE LocksIn(tx[d])
  BY <1>3 DEF LocksIn
<1>6. Exclusive'
  <2>1. SUFFICES ASSUME NEW a \in Conns, NEW b \in Conns, a # b
                 PROVE  LocksIn(tx[a])' \cap LocksIn(tx[b])' = {}
    BY LocksAre DEF Exclusive
  <2>2. LocksIn(tx[a]) \cap LocksIn(tx[b]) = {}
    BY <1>1, <2>1, LocksAre DEF Exclusive
  <2> QED BY <1>5, <2>1, <2>2
<1> QED BY <1>2, <1>3, <1>4, <1>6 DEF TxInv

LEMMA CommandsAre ==
    ASSUME NEW cmd \in Commands
    PROVE  IsCommand(cmd)
<1>1. \/ cmd = [op |-> "reap"]
      \/ \E x \in TaskRows : cmd \in CommandsAbout(x)
  BY DEF Commands
<1>2. \A x \in TaskRows : x[1] \in Runs /\ x[2] \in Steps
  BY DEF TaskRows
<1>3. CASE cmd = [op |-> "reap"]
  BY <1>3 DEF IsCommand, OnTask
<1>4. ASSUME NEW r \in Runs, NEW i \in Steps, cmd \in ClientCommands(r, i)
      PROVE  IsCommand(cmd)
  <2>1. CASE cmd = [op |-> "cancel", run |-> r]
    BY <2>1 DEF IsCommand, OnTask
  <2>2. CASE cmd = [op |-> "replay", run |-> r, step |-> i]
    BY <2>2 DEF IsCommand, OnTask
  <2> QED BY <1>4, <2>1, <2>2 DEF ClientCommands
<1>5. ASSUME NEW r \in Runs, NEW i \in Steps, NEW o \in Owners,
             cmd \in WorkerCommands(r, i, o)
      PROVE  IsCommand(cmd)
  <2>1. CASE cmd = [op |-> "advance", run |-> r, step |-> i, owner |-> o,
                    result |-> [by |-> o, attempt |-> 1, form |-> "json"]]
    BY <2>1 DEF IsCommand, OnTask
  <2>2. CASE cmd = [op |-> "dead", run |-> r, step |-> i, owner |-> o]
    BY <2>2 DEF IsCommand, OnTask
  <2>3. CASE cmd \in [op : {"retry"}, run : {r}, step : {i}, owner : {o},
                      delay : 0 .. MaxBackoff]
    BY <2>3 DEF IsCommand, OnTask
  <2> QED BY <1>5, <2>1, <2>2, <2>3 DEF WorkerCommands
<1>6. ASSUME NEW x \in TaskRows, cmd \in CommandsAbout(x) PROVE IsCommand(cmd)
  <2>1. \/ cmd \in ClientCommands(x[1], x[2])
        \/ \E o \in Owners : cmd \in WorkerCommands(x[1], x[2], o)
    BY <1>6 DEF CommandsAbout
  <2> QED BY <1>2, <1>4, <1>5, <2>1
<1> QED BY <1>1, <1>3, <1>6

LEMMA BeginInv ==
    ASSUME TxInv, NEW c \in Conns, NEW cmd \in Commands, Begin(c, cmd)
    PROVE  TxInv'
<1> DEFINE todo == Matching(cmd, Statements(cmd.op)[1])
<1>1. PICK t : t = [NoTx EXCEPT !.cmd = cmd, !.stmt = 1, !.todo = todo]
  OBVIOUS
<1>2. tx' = [tx EXCEPT ![c] = t] /\ UNCHANGED storeVars /\ todo # {}
  BY <1>1 DEF Begin
<1>3. TxOK(t) /\ Blank(t)
  <2>1. PICK m : m = todo
    OBVIOUS
  <2> QED BY <1>1, <1>2, <2>1, CommandsAre, BeginForm
<1>4. LocksIn(t) = {}
  BY <1>3, BlankLocks
<1> QED BY <1>2, <1>3, <1>4, OneChanges

LEMMA RollbackInv ==
    ASSUME TxInv, NEW c \in Conns, tx' = [tx EXCEPT ![c] = NoTx],
           UNCHANGED storeVars
    PROVE  TxInv'
<1>1. TxOK(NoTx) /\ LocksIn(NoTx) = {}
  BY NoTxFields, BlankLocks
<1> QED BY <1>1, OneChanges

(* Waiting changes nothing but what is waited for.                         *)
LEMMA BlockForm ==
    ASSUME NEW t, TxOK(t), NEW row \in t.todo, NEW w, w = [t EXCEPT !.waits = row]
    PROVE  TxOK(w) /\ LocksIn(w) = LocksIn(t)
<1>1. t # NoTx
  BY DEF NoTx
<1>2. IsTx(t) /\ IsCommand(t.cmd) /\ Form(t)
  BY <1>1 DEF TxOK
<1>3. Searching(t) \/ NeedsRun(t) \/ NeedsTask(t) \/ Reaping(t)
  BY <1>2 DEF Form, GaveUp, Took, HasTask, HasBoth, HasRun, Swept, Reaped, Rests
<1>4. /\ w.cmd = t.cmd /\ w.stmt = t.stmt /\ w.todo = t.todo /\ w.waits = row
      /\ w.rows = t.rows /\ w.run = t.run /\ w.log = t.log /\ IsTx(w)
  BY <1>2 DEF IsTx
<1>5. \A x : Taken(t, x) => Taken(w, x)
  BY <1>4 DEF Taken
<1>6. ASSUME Searching(t) PROVE Form(w)
  BY <1>4, <1>6 DEF Searching, Blank, OwnRow, Form
<1>7. ASSUME NeedsRun(t) PROVE Form(w)
  <2>1. TaskWritten(w)
    BY <1>4, <1>5, <1>7 DEF NeedsRun, TaskWritten, OwnRow, NextRow
  <2>2. NeedsRun(w)
    BY <1>4, <1>7, <2>1 DEF NeedsRun
  <2> QED BY <2>2 DEF Form
<1>8. ASSUME NeedsTask(t) PROVE Form(w)
  BY <1>4, <1>8 DEF NeedsTask, RunClosed, Form
<1>9. ASSUME Reaping(t) PROVE Form(w)
  BY <1>4, <1>5, <1>9 DEF Reaping, Form
<1>10. Form(w)
  BY <1>3, <1>6, <1>7, <1>8, <1>9 DEF Form
<1> QED BY <1>2, <1>4, <1>10 DEF TxOK, LocksIn

LEMMA BlockInv ==
    ASSUME TxInv, NEW c \in Conns, Block(c)
    PROVE  TxInv'
<1>1. PICK row \in tx[c].todo : tx' = [tx EXCEPT ![c].waits = row]
  BY DEF Block
<1>2. PICK w : w = [tx[c] EXCEPT !.waits = row]
  OBVIOUS
<1>3. tx' = [tx EXCEPT ![c] = w] /\ UNCHANGED storeVars
  BY <1>1, <1>2 DEF Block
<1>4. TxOK(w) /\ LocksIn(w) = LocksIn(tx[c])
  BY <1>2, BlockForm DEF TxInv
<1>5. \A d \in Conns \ {c} : LocksIn(w) \cap LocksIn(tx[d]) = {}
  BY <1>4, LocksAre DEF TxInv, Exclusive
<1> QED BY <1>3, <1>4, <1>5, OneChanges

LEMMA TakeInv ==
    ASSUME TxInv, NEW c \in Conns, Take(c)
    PROVE  TxInv'
<1>1. PICK row \in tx[c].todo :
         /\ ~LockedByOther(c, row)
         /\ LET t == Rewritten(tx[c], row)
                last == t.todo = {} /\ t.stmt = Len(Statements(t.cmd.op))
            IN  tx' = [tx EXCEPT ![c] = IF last THEN Ended(t) ELSE t]
  BY DEF Take
<1>2. PICK w : w = Rewritten(tx[c], row)
  OBVIOUS
<1>3. tx' = [tx EXCEPT ![c] = TakenInto(w)] /\ UNCHANGED storeVars
  BY <1>1, <1>2 DEF Take, TakenInto
<1>4. /\ TxOK(TakenInto(w))
      /\ LocksIn(TakenInto(w)) \subseteq LocksIn(tx[c]) \cup {row}
  BY <1>2, TakeForm DEF TxInv
<1>5. ASSUME NEW d \in Conns \ {c}
      PROVE  LocksIn(TakenInto(w)) \cap LocksIn(tx[d]) = {}
  <2>1. row \notin LocksIn(tx[d])
    BY <1>1, LocksAre DEF LockedByOther
  <2>2. LocksIn(tx[c]) \cap LocksIn(tx[d]) = {}
    BY LocksAre DEF TxInv, Exclusive
  <2> QED BY <1>4, <2>1, <2>2
<1> QED BY <1>3, <1>4, <1>5, OneChanges

(* The next task is scheduled by the transaction that has locked the       *)
(* current one: nobody else has locked a row for it.                       *)
LEMMA EndStatementInv ==
    ASSUME TxInv, NEW c \in Conns, EndStatement(c)
    PROVE  TxInv'
<1>1. PICK t : t = tx[c]
  OBVIOUS
<1>2. /\ t # NoTx /\ t.todo = {} /\ t.stmt <= Len(Statements(t.cmd.op))
      /\ tx' = [tx EXCEPT ![c] = Ended(t)] /\ UNCHANGED storeVars
  BY <1>1, NoTxFields DEF EndStatement, Open
<1>3. TxOK(t) /\ StoreInv
  BY <1>1 DEF TxInv
<1>4. /\ TxOK(Ended(t))
      /\ \/ LocksIn(Ended(t)) = LocksIn(t)
         \/ /\ HasTask(t) /\ GoesOn(t.cmd)
            /\ LocksIn(Ended(t)) = LocksIn(t) \cup {NextRow(t)}
  BY <1>2, <1>3, EndForm
<1>5. \A d \in Conns \ {c} : LocksIn(t) \cap LocksIn(tx[d]) = {}
  BY <1>1, LocksAre DEF TxInv, Exclusive
<1>6. ASSUME HasTask(t), NEW d \in Conns \ {c} PROVE NextRow(t) \notin LocksIn(tx[d])
  <2>1. IsCommand(t.cmd)
    BY <1>2, <1>3 DEF TxOK
  <2>2. t.cmd.run \in Runs /\ t.cmd.step \in Steps
    BY <1>6, <2>1 DEF HasTask, IsCommand, OnTask
  <2>3. t.cmd.step + 1 \in Nat /\ t.cmd.step + 1 # NoStep
    <3>1. \A i \in Steps : i + 1 \in Nat /\ i + 1 # NoStep
      BY TypesAssumption DEF Steps, NoStep
    <3> QED BY <2>2, <3>1
  <2>4. CurrentRow(t.cmd.run) = OwnRow(t)
    BY <1>3, <1>6, <2>1, <2>2, TakenIsCurrent DEF HasTask, OwnRow
  <2>5. OwnRow(t) \notin LocksIn(tx[d])
    BY <1>5, <1>6 DEF HasTask, LocksIn
  <2>6. NextRow(t) \in DOMAIN tx[d].rows => CurrentRow(t.cmd.run) \in DOMAIN tx[d].rows
    <3>1. TxOK(tx[d])
      BY <1>6 DEF TxInv
    <3> QED BY <1>3, <2>2, <2>3, <3>1, LockedIsCurrent DEF NextRow
  <2>7. NextRow(t) # RunOf(tx[d].cmd.run)
    BY <2>3 DEF NextRow, RunOf
  <2> QED BY <2>4, <2>5, <2>6, <2>7 DEF LocksIn
<1>7. \A d \in Conns \ {c} : LocksIn(Ended(t)) \cap LocksIn(tx[d]) = {}
  BY <1>4, <1>5, <1>6
<1> QED BY <1>2, <1>4, <1>7, OneChanges

----------------------------------------------------------------------------
(* COMMIT is a transaction of the store.                                   *)

Rewriting(rows) ==
    tasks' = [r \in Runs |-> [i \in Steps |->
                IF <<r, i>> \in DOMAIN rows THEN rows[<<r, i>>] ELSE tasks[r][i]]]

Recording(log) == events' = [r \in Runs |-> events[r] \o log[r]]

LEMMA TablesAreFunctions ==
    ASSUME StoreInv
    PROVE  /\ runs = [r \in Runs |-> runs[r]] /\ \A r \in Runs : runs[r] \in RunRow
           /\ tasks = [r \in Runs |-> tasks[r]]
           /\ \A r \in Runs : tasks[r] = [i \in Steps |-> tasks[r][i]]
           /\ \A r \in Runs : \A i \in Steps : tasks[r][i] \in TaskRow
           /\ events = [r \in Runs |-> events[r]]
           /\ \A r \in Runs : events[r] \in Seq(Event)
  BY DEF StoreInv, StoreTypeOK

LEMMA WriteNone ==
    ASSUME StoreInv, NEW rows, DOMAIN rows = {}, Rewriting(rows)
    PROVE  tasks' = tasks
<1>1. tasks' = [r \in Runs |-> [i \in Steps |-> tasks[r][i]]]
  BY DEF Rewriting
<1>2. \A r \in Runs : [i \in Steps |-> tasks[r][i]] = tasks[r]
  BY TablesAreFunctions
<1>3. tasks' = [r \in Runs |-> tasks[r]]
  BY <1>1, <1>2
<1> QED BY <1>3, TablesAreFunctions

LEMMA WriteOne ==
    ASSUME StoreInv, NEW rows, NEW r \in Runs, NEW i \in Steps,
           DOMAIN rows = {<<r, i>>}, Rewriting(rows)
    PROVE  tasks' = [tasks EXCEPT ![r][i] = rows[<<r, i>>]]
<1>1. PICK row : row = rows[<<r, i>>]
  OBVIOUS
<1>2. \A q \in Runs : \A j \in Steps :
         <<q, j>> \in DOMAIN rows <=> q = r /\ j = i
  OBVIOUS
<1>3. ASSUME NEW q \in Runs
      PROVE  [j \in Steps |-> IF <<q, j>> \in DOMAIN rows THEN rows[<<q, j>>]
                                                          ELSE tasks[q][j]] =
                IF q = r THEN [tasks[r] EXCEPT ![i] = row] ELSE tasks[q]
  <2>1. tasks[q] = [j \in Steps |-> tasks[q][j]]
    BY TablesAreFunctions
  <2>2. CASE q = r
    BY <1>1, <1>2, <2>1, <2>2
  <2>3. CASE q # r
    BY <1>2, <2>1, <2>3
  <2> QED BY <2>2, <2>3
<1>4. tasks' = [q \in Runs |-> IF q = r THEN [tasks[r] EXCEPT ![i] = row] ELSE tasks[q]]
  BY <1>3 DEF Rewriting
<1>5. tasks = [q \in Runs |-> tasks[q]]
  BY TablesAreFunctions
<1> QED BY <1>1, <1>4, <1>5

LEMMA WriteTwo ==
    ASSUME StoreInv, NEW rows, NEW r \in Runs, NEW i \in Steps, NEW k \in Steps,
           DOMAIN rows = {<<r, i>>, <<r, k>>}, Rewriting(rows), i # k
    PROVE  tasks' = [tasks EXCEPT ![r][i] = rows[<<r, i>>], ![r][k] = rows[<<r, k>>]]
<1>1. PICK row1, row2 : row1 = rows[<<r, i>>] /\ row2 = rows[<<r, k>>]
  OBVIOUS
<1>2. \A q \in Runs : \A j \in Steps :
         <<q, j>> \in DOMAIN rows <=> q = r /\ j \in {i, k}
  OBVIOUS
<1>3. ASSUME NEW q \in Runs
      PROVE  [j \in Steps |-> IF <<q, j>> \in DOMAIN rows THEN rows[<<q, j>>]
                                                          ELSE tasks[q][j]] =
                IF q = r THEN [tasks[r] EXCEPT ![i] = row1, ![k] = row2]
                         ELSE tasks[q]
  <2>1. tasks[q] = [j \in Steps |-> tasks[q][j]]
    BY TablesAreFunctions
  <2>2. CASE q = r
    BY <1>1, <1>2, <2>1, <2>2
  <2>3. CASE q # r
    BY <1>2, <2>1, <2>3
  <2> QED BY <2>2, <2>3
<1>4. tasks' = [q \in Runs |-> IF q = r THEN [tasks[r] EXCEPT ![i] = row1, ![k] = row2]
                                        ELSE tasks[q]]
  BY <1>3 DEF Rewriting
<1>5. tasks = [q \in Runs |-> tasks[q]]
  BY TablesAreFunctions
<1> QED BY <1>1, <1>4, <1>5

LEMMA RecordNone ==
    ASSUME StoreInv, Recording(NoLog)
    PROVE  events' = events
<1>1. \A r \in Runs : events[r] \o NoLog[r] = events[r]
  BY TablesAreFunctions DEF NoLog
<1>2. events' = [r \in Runs |-> events[r]]
  BY <1>1 DEF Recording
<1> QED BY <1>2, TablesAreFunctions

LEMMA RecordOne ==
    ASSUME StoreInv, NEW r \in Runs, NEW es, Recording(OnlyLog(r, es))
    PROVE  events' = AppendEvents(r, es)
<1>1. \A q \in Runs : q # r => events[q] \o OnlyLog(r, es)[q] = events[q]
  BY TablesAreFunctions DEF OnlyLog
<1>2. events[r] \o OnlyLog(r, es)[r] = events[r] \o es
  BY DEF OnlyLog
<1>3. events' = [q \in Runs |-> IF q = r THEN events[r] \o es ELSE events[q]]
  BY <1>1, <1>2 DEF Recording
<1> QED BY <1>3, TablesAreFunctions DEF AppendEvents

(* What a commit changes, by form.                                         *)
Commits(t) ==
    /\ Rewriting(t.rows)
    /\ runs' = IF t.run = NULL THEN runs ELSE [runs EXCEPT ![t.cmd.run] = t.run]
    /\ Recording(t.log)

LEMMA CommitGaveUp ==
    ASSUME StoreInv, NEW t, Blank(t), Commits(t)
    PROVE  UNCHANGED storeVars
  BY WriteNone, RecordNone DEF Blank, Commits, storeVars

LEMMA CommitTook ==
    ASSUME StoreInv, NEW t, IsCommand(t.cmd), Took(t), Commits(t)
    PROVE  StoreNext
<1>1. PICK r, i, row : r = t.cmd.run /\ i = t.cmd.step /\ row = t.rows[<<r, i>>]
  OBVIOUS
<1>2. r \in Runs /\ i \in Steps
  BY <1>1 DEF IsCommand, Took, OnTask
<1>3. /\ DOMAIN t.rows = {<<r, i>>} /\ Taken(t, <<r, i>>) /\ t.run = NULL
      /\ t.log = OnlyLog(r, EventsAfter(t.cmd, "task", {}))
  BY <1>1 DEF Took, OwnRow
<1>4. /\ tasks' = [tasks EXCEPT ![r][i] = row] /\ runs' = runs
      /\ events' = AppendEvents(r, EventsAfter(t.cmd, "task", {}))
  <2>1. tasks' = [tasks EXCEPT ![r][i] = t.rows[<<r, i>>]]
    BY <1>2, <1>3, WriteOne DEF Commits
  <2>2. events' = AppendEvents(r, EventsAfter(t.cmd, "task", {}))
    BY <1>2, <1>3, RecordOne DEF Commits
  <2>3. runs' = runs
    BY <1>3 DEF Commits
  <2> QED BY <1>1, <2>1, <2>2, <2>3
<1>5. TaskMatches(t.cmd, r, i) /\ row \in Rewrites(t.cmd, tasks[r][i])
  BY <1>1, <1>3 DEF Taken
<1>6. CASE t.cmd.op = "retry"
  <2>1. PICK d \in 0 .. MaxBackoff :
          row = [BackToPending(tasks[r][i]) EXCEPT !.available_at = d]
    BY <1>5, <1>6 DEF Rewrites
  <2>2. t.cmd.owner \in Owners /\ Fenced(r, i, t.cmd.owner)
    BY <1>5, <1>6 DEF TaskMatches, IsCommand
  <2>3. EventsAfter(t.cmd, "task", {}) = <<Ev("ActivityRetryScheduled", i)>>
    BY <1>1, <1>6 DEF EventsAfter
  <2>4. Retry(r, i, t.cmd.owner, d)
    BY <1>4, <2>1, <2>2, <2>3 DEF Retry
  <2> QED BY <1>2, <2>1, <2>2, <2>4 DEF StoreNext
<1>7. CASE t.cmd.op = "replay"
  <2>1. row = Requeued(tasks[r][i])
    BY <1>5, <1>7 DEF Rewrites, NewTaskRow
  <2>2. tasks[r][i].status = "dead" /\ Replays(r) < MaxReplays
    BY <1>5, <1>7 DEF TaskMatches
  <2>3. EventsAfter(t.cmd, "task", {}) = <<Ev("TaskReplayed", i)>>
    BY <1>1, <1>7 DEF EventsAfter
  <2>4. Replay(r, i)
    BY <1>4, <2>1, <2>2, <2>3 DEF Replay, ReplayDeadLetter
  <2> QED BY <1>2, <2>4 DEF StoreNext
<1> QED BY <1>6, <1>7 DEF Took

LEMMA ShortHistories ==
    ASSUME NEW a \in Event, NEW b \in Event
    PROVE  /\ <<a>> \o <<b>> = <<a, b>>
           /\ <<a>> \o <<>> = <<a>>
           /\ <<a, b>> \o <<>> = <<a, b>>
<1>1. ASSUME NEW es \in Seq(Event) PROVE es \o <<>> = es
  OBVIOUS
<1>2. <<a>> \in Seq(Event) /\ <<b>> \in Seq(Event) /\ <<a, b>> \in Seq(Event)
  OBVIOUS
<1>3. <<a>> \o <<b>> = <<a, b>>
  <2>1. /\ <<a>> \o <<b>> \in Seq(Event) /\ Len(<<a>> \o <<b>>) = 2
        /\ (<<a>> \o <<b>>)[1] = a /\ (<<a>> \o <<b>>)[2] = b
    BY <1>2, ConcatProperties
  <2>2. /\ <<a, b>> \in Seq(Event) /\ Len(<<a, b>>) = 2
        /\ <<a, b>>[1] = a /\ <<a, b>>[2] = b
    OBVIOUS
  <2>3. \A k \in 1 .. 2 : k = 1 \/ k = 2
    OBVIOUS
  <2> QED BY <2>1, <2>2, <2>3, SeqEqual
<1> QED BY <1>1, <1>2, <1>3

LEMMA CommitBoth ==
    ASSUME StoreInv, NEW t, IsCommand(t.cmd), HasBoth(t), Commits(t)
    PROVE  StoreNext
<1>1. PICK r, i, o : r = t.cmd.run /\ i = t.cmd.step /\ o = t.cmd.owner
  OBVIOUS
<1>2. /\ r \in Runs /\ i \in Steps /\ o \in Owners
      /\ t.cmd.op \in {"advance", "dead"} /\ TaskWritten(t)
  BY <1>1 DEF IsCommand, HasBoth, TaskWritten, OnTask
<1>3. PICK row : row = t.rows[<<r, i>>]
  OBVIOUS
<1>4. /\ TaskMatches(t.cmd, r, i) /\ row \in Rewrites(t.cmd, tasks[r][i])
      /\ Fenced(r, i, o) /\ runs[r].status # "none"
  <2>1. TaskMatches(t.cmd, r, i) /\ row \in Rewrites(t.cmd, tasks[r][i])
    BY <1>1, <1>2, <1>3 DEF TaskWritten, OwnRow, Taken
  <2>2. Fenced(r, i, o)
    BY <1>1, <1>2, <2>1 DEF TaskMatches
  <2>3. runs[r].status \in {"running", "failed"}
    BY <1>2, <2>1, MatchIsActive, ActiveRow
  <2> QED BY <2>1, <2>2, <2>3
<1>5. PICK run : run = runs[r] /\ run \in RunRow
  BY <1>2, TablesAreFunctions
<1>6. runs' = [runs EXCEPT ![r] = NewRunRow(t.cmd, run)]
  <2>1. t.run # NULL
    BY LockedRun
  <2>2. t.run = NewRunRow(t.cmd, run)
    BY <1>1, <1>5 DEF HasBoth
  <2> QED BY <1>1, <2>1, <2>2 DEF Commits
<1>7. events' = AppendEvents(r, EventsAfter(t.cmd, "task", {})
                                  \o EventsAfter(t.cmd, "run", {}))
  BY <1>1, <1>2, RecordOne DEF Commits, HasBoth
<1>8. CASE t.cmd.op = "dead"
  <2>1. tasks' = [tasks EXCEPT ![r][i] = row]
    <3>1. DOMAIN t.rows = {<<r, i>>}
      BY <1>1, <1>2, <1>8 DEF TaskWritten, GoesOn, OwnRow
    <3> QED BY <1>2, <1>3, <3>1, WriteOne DEF Commits
  <2>2. row = [tasks[r][i] EXCEPT !.status = "dead"]
    BY <1>4, <1>8 DEF Rewrites, NewTaskRow
  <2>3. NewRunRow(t.cmd, run) = [run EXCEPT !.status = "failed"]
    BY <1>8 DEF NewRunRow
  <2>4. EventsAfter(t.cmd, "task", {}) \o EventsAfter(t.cmd, "run", {}) =
          <<Ev("ActivityDeadLettered", i), Ev("WorkflowFailed", NoStep)>>
    <3>1. /\ EventsAfter(t.cmd, "task", {}) = <<Ev("ActivityDeadLettered", i)>>
          /\ EventsAfter(t.cmd, "run", {}) = <<Ev("WorkflowFailed", NoStep)>>
      BY <1>1, <1>8 DEF EventsAfter
    <3>2. Ev("ActivityDeadLettered", i) \in Event /\ Ev("WorkflowFailed", NoStep) \in Event
      BY <1>2 DEF Ev, Event, EventType
    <3> QED BY <3>1, <3>2, ShortHistories
  <2>5. DeadLetter(r, i, o)
    <3>1. tasks' = [tasks EXCEPT ![r][i].status = "dead"]
      BY <2>1, <2>2
    <3>2. runs' = [runs EXCEPT ![r].status = "failed"]
      BY <1>5, <1>6, <2>3
    <3> QED BY <1>4, <1>7, <2>4, <3>1, <3>2 DEF DeadLetter
  <2> QED BY <1>2, <2>5 DEF StoreNext
<1>9. ASSUME t.cmd.op = "advance"
      PROVE  /\ t.cmd.result \in ResultsBy(o) /\ t.cmd.result.form = "json"
             /\ t.cmd.result \in Payload
             /\ row = CompletedWith(tasks[r][i], t.cmd.result)
  <2>1. t.cmd.result = [by |-> o, attempt |-> 1, form |-> "json"]
    BY <1>1, <1>9 DEF IsCommand
  <2>2. 1 \in 1 .. AttemptLimit
    BY StoreAssumption
  <2>3. row = CompletedWith(tasks[r][i], t.cmd.result)
    BY <1>4, <1>9 DEF Rewrites, NewTaskRow
  <2> QED BY <1>2, <2>1, <2>2, <2>3 DEF ResultsBy, Payload
<1>10. PICK p : p = t.cmd.result
  OBVIOUS
<1>11. CASE t.cmd.op = "advance" /\ Finished(r, i)
  <2>1. tasks' = [tasks EXCEPT ![r][i] = row]
    <3>1. DOMAIN t.rows = {<<r, i>>}
      BY <1>1, <1>2, <1>11 DEF TaskWritten, GoesOn, OwnRow
    <3> QED BY <1>2, <1>3, <3>1, WriteOne DEF Commits
  <2>2. NewRunRow(t.cmd, run) = [run EXCEPT !.status = "completed", !.result = p]
    BY <1>1, <1>10, <1>11 DEF NewRunRow
  <2>3. EventsAfter(t.cmd, "task", {}) \o EventsAfter(t.cmd, "run", {}) =
          <<Ev("ActivityCompleted", i), Ev("WorkflowCompleted", NoStep)>>
    <3>1. /\ EventsAfter(t.cmd, "task", {}) = <<Ev("ActivityCompleted", i)>> \o <<>>
          /\ EventsAfter(t.cmd, "run", {}) = <<Ev("WorkflowCompleted", NoStep)>>
      BY <1>1, <1>11 DEF EventsAfter
    <3>2. Ev("ActivityCompleted", i) \in Event /\ Ev("WorkflowCompleted", NoStep) \in Event
      BY <1>2 DEF Ev, Event, EventType
    <3> QED BY <3>1, <3>2, ShortHistories
  <2>4. AdvanceFinish(r, i, o, p)
    <3>1. tasks' = [tasks EXCEPT ![r][i] = CompletedWith(@, p)]
      BY <1>9, <1>10, <1>11, <2>1
    <3>2. runs' = [runs EXCEPT ![r].status = "completed", ![r].result = p]
      <4>1. runs = [q \in Runs |-> runs[q]]
        BY TablesAreFunctions
      <4> QED BY <1>2, <1>5, <1>6, <2>2, <4>1
    <3> QED BY <1>4, <1>7, <1>9, <1>10, <1>11, <2>3, <3>1, <3>2 DEF AdvanceFinish
  <2>5. Advance(r, i, o, p)
    BY <1>4, <1>11, <2>4 DEF Advance
  <2> QED BY <1>2, <1>9, <1>10, <1>11, <2>5 DEF StoreNext
<1>12. CASE t.cmd.op = "advance" /\ ~Finished(r, i)
  <2>1. PICK next \in NextTasks(runs[r].workflow, i + 1, p) :
           t.rows[<<r, i + 1>>] = InsertTask(next)
    BY <1>1, <1>2, <1>10, <1>12 DEF TaskWritten, GoesOn, NextRow
  <2>2. i + 1 \in Steps /\ i # i + 1 /\ tasks[r][i + 1].status = "none"
    <3>1. /\ runs[r].workflow \in Workflows
          /\ i + 1 \in Nat /\ i + 1 < TotalSteps(runs[r].workflow)
      BY <1>2, <1>4, <1>9, <1>12, NextTaskBuilt
    <3>2. i + 1 \in Steps
      BY <1>9, <1>12, <3>1, BuildTaskType
    <3>3. i = runs[r].current_step
      BY <1>2, <1>4, MatchIsActive, ActiveRow
    <3>4. ShapeOf(runs[r], tasks[r])
      BY <1>2 DEF StoreInv, RunShape
    <3>5. i \in Int /\ i + 1 > i
      BY <1>2, TypesAssumption DEF Steps
    <3> QED BY <1>4, <3>2, <3>3, <3>4, <3>5 DEF ShapeOf
  <2>3. tasks' = [tasks EXCEPT ![r][i] = row, ![r][i + 1] = InsertTask(next)]
    <3>1. DOMAIN t.rows = {<<r, i>>, <<r, i + 1>>}
      BY <1>1, <1>2, <1>12 DEF TaskWritten, GoesOn, OwnRow, NextRow
    <3>2. PICK k : k = i + 1
      OBVIOUS
    <3>3. tasks' = [tasks EXCEPT ![r][i] = t.rows[<<r, i>>], ![r][k] = t.rows[<<r, k>>]]
      BY <1>2, <2>2, <3>1, <3>2, WriteTwo DEF Commits
    <3> QED BY <1>3, <2>1, <3>2, <3>3
  <2>4. NewRunRow(t.cmd, run) = [run EXCEPT !.current_step = i + 1]
    BY <1>1, <1>12 DEF NewRunRow
  <2>5. EventsAfter(t.cmd, "task", {}) \o EventsAfter(t.cmd, "run", {}) =
          <<Ev("ActivityCompleted", i), Ev("ActivityScheduled", i + 1)>>
    <3>1. /\ EventsAfter(t.cmd, "task", {}) =
               <<Ev("ActivityCompleted", i)>> \o <<Ev("ActivityScheduled", i + 1)>>
          /\ EventsAfter(t.cmd, "run", {}) = <<>>
      BY <1>1, <1>12 DEF EventsAfter
    <3>2. Ev("ActivityCompleted", i) \in Event /\ Ev("ActivityScheduled", i + 1) \in Event
      BY <1>2, <2>2 DEF Ev, Event, EventType
    <3> QED BY <3>1, <3>2, ShortHistories
  <2>6. AdvanceNext(r, i, o, p, next)
    <3>1. tasks' = [tasks EXCEPT ![r][i] = CompletedWith(@, p),
                                 ![r][i + 1] = InsertTask(next)]
      BY <1>9, <1>10, <1>12, <2>3
    <3>2. runs' = [runs EXCEPT ![r].current_step = i + 1]
      BY <1>5, <1>6, <2>4
    <3> QED BY <1>4, <1>7, <1>9, <1>10, <1>12, <2>2, <2>5, <3>1, <3>2 DEF AdvanceNext
  <2>7. Advance(r, i, o, p)
    BY <1>4, <1>12, <2>6 DEF Advance
  <2> QED BY <1>2, <1>9, <1>10, <1>12, <2>7 DEF StoreNext
<1> QED BY <1>2, <1>8, <1>11, <1>12

LEMMA CommitSwept ==
    ASSUME StoreInv, NEW t, IsCommand(t.cmd), Swept(t), Commits(t)
    PROVE  StoreNext
<1>1. PICK r, i : r = t.cmd.run /\ i = runs[r].current_step
  OBVIOUS
<1>2. /\ r \in Runs /\ i \in Steps /\ runs[r].status = "running" /\ RunClosed(t)
  <2>1. r \in Runs /\ runs[r].status = "running" /\ RunClosed(t)
    BY <1>1 DEF Swept, RunClosed, IsCommand
  <2> QED BY <1>1, <2>1, CurrentStep
<1>3. PICK row : row = t.rows[<<r, i>>]
  OBVIOUS
<1>4. /\ DOMAIN t.rows = {<<r, i>>} /\ TaskMatches(t.cmd, r, i)
      /\ row = [tasks[r][i] EXCEPT !.status = "cancelled"]
      /\ tasks[r][i].status \in Outstanding
  BY <1>1, <1>2, <1>3
     DEF Swept, CurrentRow, Taken, RunClosed, Rewrites, NewTaskRow, TaskMatches
<1>5. tasks' = [tasks EXCEPT ![r][i] = row]
  <2>1. tasks' = [tasks EXCEPT ![r][i] = t.rows[<<r, i>>]]
    <3>1. Rewriting(t.rows)
      BY DEF Commits
    <3> QED BY <1>2, <1>4, <3>1, WriteOne
  <2> QED BY <1>3, <2>1
<1>6. [tasks[r] EXCEPT ![i] = row] =
        [j \in Steps |-> IF tasks[r][j].status \in {"none", "completed", "failed",
                                                    "dead", "cancelled"}
                         THEN tasks[r][j]
                         ELSE [tasks[r][j] EXCEPT !.status = "cancelled"]]
  <2>1. \A j \in Steps : tasks[r][j].status \in Outstanding => j = i
    BY <1>1, <1>2, ActiveRow DEF Outstanding
  <2>2. \A j \in Steps : tasks[r][j].status \in TaskStatus
    BY <1>2, TablesAreFunctions DEF TaskRow
  <2>3. \A j \in Steps : tasks[r][j].status \in {"none", "completed", "failed",
                                                 "dead", "cancelled"} <=> j # i
    BY <1>4, <2>1, <2>2 DEF TaskStatus, Outstanding
  <2>4. tasks[r] = [j \in Steps |-> tasks[r][j]]
    BY <1>2, TablesAreFunctions
  <2>5. [tasks[r] EXCEPT ![i] = row] =
          [j \in Steps |-> IF j = i THEN row ELSE tasks[r][j]]
    BY <1>2, <2>4
  <2> QED BY <1>4, <2>3, <2>5
<1>7. runs' = [runs EXCEPT ![r].status = "cancelled"]
  <2>1. t.run # NULL
    BY <1>2, LockedRun
  <2>2. t.run = [runs[r] EXCEPT !.status = "cancelled"]
    BY <1>1, <1>2 DEF RunClosed, NewRunRow
  <2> QED BY <1>1, <2>1, <2>2 DEF Commits
<1>8. events' = AppendEvents(r, <<Ev("WorkflowCancelled", NoStep)>>)
  BY <1>1, <1>2, RecordOne DEF Commits, Swept
<1>9. CancelRun(r)
  <2>1. tasks' = [tasks EXCEPT ![r] = [tasks[r] EXCEPT ![i] = row]]
    BY <1>5
  <2> QED BY <1>2, <1>6, <1>7, <1>8, <2>1 DEF CancelRun
<1> QED BY <1>2, <1>9 DEF StoreNext

LEMMA CommitReaped ==
    ASSUME StoreInv, NEW t, IsCommand(t.cmd), Reaped(t), Commits(t)
    PROVE  StoreNext
<1>1. PICK taken : taken = DOMAIN t.rows
  OBVIOUS
<1>2. /\ taken \in SUBSET ExpiredRows /\ taken # {} /\ t.run = NULL
      /\ \A x \in taken : t.rows[x] = BackToPending(tasks[x[1]][x[2]])
      /\ t.log = [r \in Runs |-> ReclaimEvents(TakenBack(t, r))]
  BY <1>1 DEF Reaped, Taken, Rewrites, NewTaskRow
<1>3. tasks' = [r \in Runs |-> [i \in Steps |->
                  IF <<r, i>> \in taken THEN BackToPending(tasks[r][i])
                                       ELSE tasks[r][i]]]
  <2>1. \A r \in Runs : \A i \in Steps :
           <<r, i>> \in taken => t.rows[<<r, i>>] = BackToPending(tasks[r][i])
    BY <1>2
  <2> QED BY <1>1, <2>1 DEF Commits, Rewriting
<1>4. events' = [r \in Runs |->
                   events[r] \o ReclaimEvents({i \in Steps : <<r, i>> \in taken})]
  BY <1>1, <1>2 DEF Commits, Recording, TakenBack
<1>5. runs' = runs
  BY <1>2 DEF Commits
<1>6. Reclaim(taken)
  BY <1>3, <1>4, <1>5 DEF Reclaim
<1>7. ReapExpiredLeases
  BY <1>2, <1>6 DEF ReapExpiredLeases
<1> QED BY <1>7 DEF StoreNext

(* A transaction that commits has given up or done all of its work.        *)
LEMMA CommitForm ==
    ASSUME NEW t, TxOK(t), t.cmd # NoCmd, t.stmt > Len(Statements(t.cmd.op))
    PROVE  /\ IsTx(t) /\ IsCommand(t.cmd)
           /\ Blank(t) \/ Took(t) \/ HasBoth(t) \/ Swept(t) \/ Reaped(t)
<1>1. IsTx(t) /\ IsCommand(t.cmd) /\ Form(t)
  BY NoTxFields DEF TxOK
<1>2. Len(Statements(t.cmd.op)) \in {1, 2}
  BY <1>1, StatementsOf DEF IsCommand, OnTask
<1>3. /\ Searching(t) => t.stmt = 1
      /\ HasTask(t) => t.stmt = 1
      /\ HasRun(t) => t.stmt = 1
      /\ Reaping(t) => t.stmt = 1
  BY DEF Searching, HasTask, HasRun, Reaping
<1>4. /\ NeedsRun(t) => t.stmt = 2 /\ Len(Statements(t.cmd.op)) = 2
      /\ NeedsTask(t) => t.stmt = 2 /\ Len(Statements(t.cmd.op)) = 2
  BY StatementsOf DEF NeedsRun, NeedsTask, TaskWritten, RunClosed
<1>5. t.stmt # 1 /\ (Len(Statements(t.cmd.op)) = 2 => t.stmt # 2)
  <2>1. PICK n, k : n = Len(Statements(t.cmd.op)) /\ k = t.stmt
    OBVIOUS
  <2>2. n \in {1, 2} /\ k > n
    BY <1>2, <2>1
  <2>3. k # 1
    BY <2>2
  <2>4. n = 2 => k # 2
    BY <2>2
  <2> QED BY <2>1, <2>3, <2>4
<1>6. GaveUp(t) => Blank(t)
  BY DEF GaveUp
<1> QED BY <1>1, <1>3, <1>4, <1>5, <1>6 DEF Form

LEMMA CommitStep ==
    ASSUME TxInv, NEW c \in Conns, Commit(c)
    PROVE  [StoreNext]_storeVars
<1>1. PICK t : t = tx[c]
  OBVIOUS
<1>2. TxOK(t) /\ StoreInv
  BY <1>1 DEF TxInv
<1>3. /\ t.cmd # NoCmd /\ t.stmt > Len(Statements(t.cmd.op))
      /\ Commits(t)
  BY <1>1 DEF Commit, Open, Commits, Rewriting, Recording
<1>4. /\ IsTx(t) /\ IsCommand(t.cmd)
      /\ Blank(t) \/ Took(t) \/ HasBoth(t) \/ Swept(t) \/ Reaped(t)
  BY <1>2, <1>3, CommitForm
<1> QED BY <1>2, <1>3, <1>4, CommitGaveUp, CommitTook, CommitBoth, CommitSwept,
           CommitReaped

----------------------------------------------------------------------------
(* Steps that change the committed rows leave the others in their forms.   *)

LEMMA OthersStand ==
    ASSUME TxInv, StoreInv', tx' = [d \in Conns |-> tx'[d]],
           \A d \in Conns : \/ tx'[d] = NoTx
                            \/ tx'[d] = tx[d] /\ Aloof(tx[d])
    PROVE  TxInv'
<1>1. ASSUME NEW d \in Conns PROVE TxOK(tx[d])'
  <2>1. CASE tx'[d] = NoTx
    <3>1. TxOK(NoTx)'
      BY NoTxFields DEF TxOK, IsTx, NoTx
    <3> QED BY <2>1, <3>1 DEF NoTx
  <2>2. CASE tx'[d] = tx[d] /\ Aloof(tx[d])
    <3>1. PICK t : t = tx[d] /\ t = tx'[d] /\ TxOK(t) /\ Aloof(t)
      BY <2>2 DEF TxInv
    <3>2. TxOK(t)'
      BY <3>1, Undisturbed DEF TxInv
    <3> QED BY <3>1, <3>2
  <2> QED BY <2>1, <2>2
<1>2. ASSUME NEW d \in Conns PROVE Locks(d)' \subseteq Locks(d)
  <2>1. Locks(d) = LocksIn(tx[d]) /\ Locks(d)' = LocksIn(tx[d])'
    BY LocksAre
  <2>2. tx'[d] = NoTx => Locks(d)' = {}
    BY <2>1, NoTxFields DEF LocksIn, Blank
  <2>3. tx'[d] = tx[d] => LocksIn(tx[d])' = LocksIn(tx[d])
    BY DEF LocksIn
  <2> QED BY <2>1, <2>2, <2>3
<1>3. Exclusive'
  BY <1>2 DEF TxInv, Exclusive
<1> QED BY <1>1, <1>3 DEF TxInv

(* A transaction that has locked a run's row works on a run that exists.   *)
LEMMA RunLocked ==
    ASSUME StoreInv, NEW t, TxOK(t), t.run # NULL
    PROVE  /\ t.cmd.run \in Runs /\ runs[t.cmd.run].status # "none"
           /\ HasBoth(t) \/ Swept(t) => CurrentRow(t.cmd.run) \in DOMAIN t.rows
<1>1. t # NoTx
  BY NoTxFields DEF Blank
<1>2. IsCommand(t.cmd) /\ Form(t)
  BY <1>1 DEF TxOK
<1>3. HasBoth(t) \/ RunClosed(t)
  BY <1>2 DEF Form, Searching, GaveUp, Blank, Took, HasTask, NeedsRun, HasRun,
              NeedsTask, Swept, Reaping, Reaped
<1>4. t.cmd.run \in Runs
  BY <1>2, <1>3, LockedRun
<1>5. CASE HasBoth(t)
  <2>1. /\ Taken(t, OwnRow(t)) /\ OwnRow(t) \in DOMAIN t.rows
        /\ t.cmd.step \in Steps
    BY <1>2, <1>5 DEF HasBoth, TaskWritten, IsCommand, OnTask
  <2>2. /\ CurrentRow(t.cmd.run) = OwnRow(t)
        /\ runs[t.cmd.run].status \in {"running", "failed"}
    BY <1>2, <1>4, <2>1, TakenIsCurrent DEF OwnRow
  <2> QED BY <1>4, <2>1, <2>2
<1>6. CASE RunClosed(t) /\ ~HasBoth(t)
  BY <1>4, <1>6 DEF RunClosed, Swept
<1> QED BY <1>3, <1>5, <1>6

LEMMA CommitInv ==
    ASSUME TxInv, NEW c \in Conns, Commit(c)
    PROVE  TxInv'
<1>1. PICK t : t = tx[c]
  OBVIOUS
<1>2. TxOK(t) /\ StoreInv /\ Exclusive /\ tx = [d \in Conns |-> tx[d]]
  BY <1>1 DEF TxInv
<1>3. /\ t.cmd # NoCmd /\ t.stmt > Len(Statements(t.cmd.op))
      /\ Commits(t) /\ tx' = [tx EXCEPT ![c] = NoTx]
  BY <1>1 DEF Commit, Open, Commits, Rewriting, Recording
<1>4. /\ IsTx(t) /\ IsCommand(t.cmd)
      /\ Blank(t) \/ Took(t) \/ HasBoth(t) \/ Swept(t) \/ Reaped(t)
  BY <1>2, <1>3, CommitForm
<1>5. StoreInv'
  BY <1>2, CommitStep, StoreStepInv
<1>6. Steps \subseteq Nat
  BY TypesAssumption DEF Steps
<1>7. \A q \in Runs : \A j \in Nat : <<q, j>> \in DOMAIN t.rows =>
         CurrentRow(q) \in DOMAIN t.rows
  BY <1>2, LockedIsCurrent
<1>8. \A q \in Runs : t.log[q] # <<>> => CurrentRow(q) \in DOMAIN t.rows
  BY <1>2, LockedIsCurrent
<1>9. t.run # NULL => t.cmd.run \in Runs /\ CurrentRow(t.cmd.run) \in DOMAIN t.rows
  <2>1. t.run # NULL => HasBoth(t) \/ Swept(t)
    BY <1>4 DEF Blank, Took, Reaped
  <2> QED BY <1>2, <2>1, RunLocked
<1>10. ASSUME NEW q \in Runs, CurrentRow(q) \notin DOMAIN t.rows
       PROVE  runs'[q] = runs[q] /\ tasks'[q] = tasks[q] /\ events'[q] = events[q]
  <2>1. runs'[q] = runs[q]
    BY <1>3, <1>9, <1>10, <1>2, TablesAreFunctions DEF Commits
  <2>2. tasks'[q] = tasks[q]
    <3>1. \A j \in Steps : <<q, j>> \notin DOMAIN t.rows
      BY <1>6, <1>7, <1>10
    <3>2. tasks'[q] = [j \in Steps |-> tasks[q][j]]
      BY <1>3, <3>1 DEF Commits, Rewriting
    <3> QED BY <1>2, <3>2, TablesAreFunctions
  <2>3. events'[q] = events[q]
    <3>1. events'[q] = events[q] \o <<>> /\ events[q] \in Seq(Event)
      BY <1>2, <1>3, <1>8, <1>10, TablesAreFunctions DEF Commits, Recording
    <3> QED BY <3>1
  <2> QED BY <2>1, <2>2, <2>3
<1>11. ASSUME NEW d \in Conns, d # c PROVE Aloof(tx[d])
  <2>1. LocksIn(t) \cap LocksIn(tx[d]) = {}
    BY <1>1, <1>2, <1>11, LocksAre DEF Exclusive
  <2>2. DOMAIN t.rows \cap DOMAIN tx[d].rows = {}
    BY <2>1 DEF LocksIn
  <2>3. TxOK(tx[d])
    BY <1>11 DEF TxInv
  <2>4. ASSUME NEW q \in Runs, NEW j \in Nat, <<q, j>> \in DOMAIN tx[d].rows
        PROVE  CurrentRow(q) \notin DOMAIN t.rows
    <3>1. CurrentRow(q) \in DOMAIN tx[d].rows
      BY <1>2, <2>3, <2>4, LockedIsCurrent
    <3> QED BY <2>2, <3>1
  <2>5. ASSUME tx[d].run # NULL PROVE runs'[tx[d].cmd.run] = runs[tx[d].cmd.run]
    <3>1. tx[d].cmd.run \in Runs
      BY <1>2, <2>3, <2>5, RunLocked
    <3>2. t.run # NULL => t.cmd.run # tx[d].cmd.run
      BY <2>1, <2>5 DEF LocksIn
    <3> QED BY <1>2, <1>3, <3>1, <3>2, TablesAreFunctions DEF Commits
  <2> QED BY <1>10, <2>4, <2>5 DEF Aloof
<1>12. /\ tx' = [d \in Conns |-> tx'[d]]
       /\ \A d \in Conns : tx'[d] = IF d = c THEN NoTx ELSE tx[d]
  BY <1>2, <1>3
<1>13. \A d \in Conns : tx'[d] = NoTx \/ (tx'[d] = tx[d] /\ Aloof(tx[d]))
  BY <1>11, <1>12
<1> QED BY <1>5, <1>12, <1>13, OthersStand

(* LeaseTask takes a row nobody has locked, and starting a run touches     *)
(* rows nobody knows of.                                                   *)
LEMMA LeaseInv ==
    ASSUME TxInv, Lease
    PROVE  TxInv' /\ StoreNext
<1>1. PICK r \in Runs, i \in Steps, o \in Owners :
         /\ \A c \in Conns : <<r, i>> \notin Locks(c)
         /\ LeaseTask(o, r, i)
  BY DEF Lease
<1>2. StoreInv /\ tx = [d \in Conns |-> tx[d]] /\ tx' = tx
  BY DEF TxInv, Lease
<1>3. StoreNext
  BY <1>1 DEF StoreNext
<1>4. StoreInv'
  BY <1>2, <1>3, StoreStepInv
<1>5. CurrentRow(r) = <<r, i>>
  <2>1. tasks[r][i].status = "pending"
    BY <1>1 DEF LeaseTask, Due
  <2> QED BY <1>2, <2>1, ActiveRow
<1>6. /\ runs' = runs /\ events' = events
      /\ \A q \in Runs : q # r => tasks'[q] = tasks[q]
  BY <1>1, <1>2, TablesAreFunctions DEF LeaseTask
<1>7. ASSUME NEW d \in Conns PROVE Aloof(tx[d])
  <2>1. CurrentRow(r) \notin DOMAIN tx[d].rows
    BY <1>1, <1>5, <1>7 DEF Locks
  <2>2. TxOK(tx[d])
    BY <1>7 DEF TxInv
  <2>3. \A q \in Runs : \A j \in Nat : <<q, j>> \in DOMAIN tx[d].rows => q # r
    BY <1>2, <2>1, <2>2, LockedIsCurrent
  <2> QED BY <1>6, <2>3 DEF Aloof
<1> QED BY <1>2, <1>3, <1>4, <1>7, OthersStand

LEMMA StartInv ==
    ASSUME TxInv, Start
    PROVE  TxInv' /\ StoreNext
<1>1. PICK r \in Runs, wf \in Workflows, key \in Keys \cup {NULL} :
         StartWorkflow(r, wf, key)
  BY DEF Start
<1>2. StoreInv /\ tx = [d \in Conns |-> tx[d]] /\ tx' = tx
  BY DEF TxInv, Start
<1>3. StoreNext
  BY <1>1 DEF StoreNext
<1>4. StoreInv'
  BY <1>2, <1>3, StoreStepInv
<1>5. PICK first : StartRun(r, wf, TotalSteps(wf), key, first)
  BY <1>1 DEF StartWorkflow
<1>6. /\ runs[r].status = "none"
      /\ \A q \in Runs : q # r => SameRun(q)
  BY <1>2, <1>5, TablesAreFunctions DEF StartRun, SameRun, AppendEvents
<1>7. ASSUME NEW d \in Conns PROVE Aloof(tx[d])
  <2>1. TxOK(tx[d])
    BY <1>7 DEF TxInv
  <2>2. \A q \in Runs : \A j \in Nat : <<q, j>> \in DOMAIN tx[d].rows => q # r
    BY <1>2, <1>6, <2>1, LockedIsCurrent
  <2>3. tx[d].run # NULL => tx[d].cmd.run \in Runs /\ tx[d].cmd.run # r
    BY <1>2, <1>6, <2>1, RunLocked
  <2> QED BY <1>6, <2>2, <2>3 DEF Aloof, SameRun
<1> QED BY <1>2, <1>3, <1>4, <1>7, OthersStand

----------------------------------------------------------------------------
(* The clock moves on for the rows that are committed and for those that   *)
(* are not.                                                                *)

CloserTx(t, late) ==
    [t EXCEPT !.rows = [x \in DOMAIN @ |-> Closer(@[x])], !.late = late]

LateRows(t) ==
    IF t.cmd.op = "reap" THEN t.late \cup (ExpiresNow \cap t.todo) ELSE {}

Row(status, kind, attempt, max, at, expires, by, input, result) ==
    [status |-> status, kind |-> kind, attempt |-> attempt, max_attempts |-> max,
     available_at |-> at, lease_expires_at |-> expires, leased_by |-> by,
     input |-> input, result |-> result]

Sooner(n) == IF n > 0 THEN n - 1 ELSE n
SoonerLease(n) == IF n # NULL /\ n >= 0 THEN n - 1 ELSE n

LEMMA CloserRow ==
    ASSUME NEW st, NEW k, NEW a, NEW m, NEW at, NEW ex, NEW by, NEW in, NEW res,
           NEW u, u = Row(st, k, a, m, at, ex, by, in, res)
    PROVE  Closer(u) = Row(st, k, a, m, Sooner(at), SoonerLease(ex), by, in, res)
<1>1. u.available_at = at /\ u.lease_expires_at = ex
  BY DEF Row
<1>2. PICK v : /\ v = Closer(u)
               /\ v = [u EXCEPT !.available_at = Sooner(at),
                                !.lease_expires_at = SoonerLease(ex)]
  BY <1>1 DEF Closer, Sooner, SoonerLease
<1>3. v = Row(st, k, a, m, Sooner(at), SoonerLease(ex), by, in, res)
  BY <1>2 DEF Row
<1> QED BY <1>2, <1>3

LEMMA RewrittenRow ==
    ASSUME NEW st, NEW k, NEW a, NEW m, NEW at, NEW ex, NEW by, NEW in, NEW res,
           NEW u, u = Row(st, k, a, m, at, ex, by, in, res)
    PROVE  /\ \A s2 : [u EXCEPT !.status = s2] = Row(s2, k, a, m, at, ex, by, in, res)
           /\ \A p : CompletedWith(u, p) = Row("completed", k, a, m, at, ex, by, in, p)
           /\ Requeued(u) = Row("pending", k, 0, m, 0, ex, by, in, res)
           /\ BackToPending(u) = Row("pending", k, a, m, at, NULL, NULL, in, res)
           /\ \A d : [BackToPending(u) EXCEPT !.available_at = d] =
                       Row("pending", k, a, m, d, NULL, NULL, in, res)
<1>1. ASSUME NEW s2
      PROVE  [u EXCEPT !.status = s2] = Row(s2, k, a, m, at, ex, by, in, res)
  BY DEF Row
<1>2. ASSUME NEW p
      PROVE  CompletedWith(u, p) = Row("completed", k, a, m, at, ex, by, in, p)
  <2>1. PICK v : v = CompletedWith(u, p)
    OBVIOUS
  <2>2. v = Row("completed", k, a, m, at, ex, by, in, p)
    BY <2>1 DEF Row, CompletedWith
  <2> QED BY <2>1, <2>2
<1>3. Requeued(u) = Row("pending", k, 0, m, 0, ex, by, in, res)
  <2>1. PICK v : v = Requeued(u)
    OBVIOUS
  <2>2. v = Row("pending", k, 0, m, 0, ex, by, in, res)
    BY <2>1 DEF Row, Requeued
  <2> QED BY <2>1, <2>2
<1>4. BackToPending(u) = Row("pending", k, a, m, at, NULL, NULL, in, res)
  <2>1. PICK v : v = BackToPending(u)
    OBVIOUS
  <2>2. v = Row("pending", k, a, m, at, NULL, NULL, in, res)
    BY <2>1 DEF Row, BackToPending
  <2> QED BY <2>1, <2>2
<1>5. ASSUME NEW d
      PROVE  [BackToPending(u) EXCEPT !.available_at = d] =
                Row("pending", k, a, m, d, NULL, NULL, in, res)
  BY <1>4 DEF Row
<1> QED BY <1>1, <1>2, <1>3, <1>4, <1>5

LEMMA CloserCommutes ==
    ASSUME NEW u \in TaskRow, NEW cmd, IsCommand(cmd),
           NEW row \in Rewrites(cmd, u)
    PROVE  Closer(row) \in Rewrites(cmd, Closer(u))
<1>1. PICK st, k, a, m, at, ex, by, in, res :
         u = Row(st, k, a, m, at, ex, by, in, res)
  <2>1. u = Row(u.status, u.kind, u.attempt, u.max_attempts, u.available_at,
                u.lease_expires_at, u.leased_by, u.input, u.result)
    BY DEF Row, TaskRow
  <2> QED BY <2>1
<1>2. PICK v : v = Closer(u)
  OBVIOUS
<1>3. v = Row(st, k, a, m, Sooner(at), SoonerLease(ex), by, in, res)
  BY <1>1, <1>2, CloserRow
<1>4. ASSUME NEW s2 PROVE Closer([u EXCEPT !.status = s2]) = [v EXCEPT !.status = s2]
  <2>1. [u EXCEPT !.status = s2] = Row(s2, k, a, m, at, ex, by, in, res)
    BY <1>1, RewrittenRow
  <2>2. [v EXCEPT !.status = s2] =
          Row(s2, k, a, m, Sooner(at), SoonerLease(ex), by, in, res)
    BY <1>3, RewrittenRow
  <2> QED BY <2>1, <2>2, CloserRow
<1>5. CASE cmd.op \in {"dead", "cancel"}
  BY <1>2, <1>4, <1>5 DEF Rewrites, NewTaskRow
<1>6. CASE cmd.op = "advance"
  <2>1. PICK p : p = cmd.result
    OBVIOUS
  <2>2. CompletedWith(u, p) = Row("completed", k, a, m, at, ex, by, in, p)
    BY <1>1, RewrittenRow
  <2>3. CompletedWith(v, p) =
          Row("completed", k, a, m, Sooner(at), SoonerLease(ex), by, in, p)
    BY <1>3, RewrittenRow
  <2>4. Closer(CompletedWith(u, p)) = CompletedWith(v, p)
    BY <2>2, <2>3, CloserRow
  <2> QED BY <1>2, <1>6, <2>1, <2>4 DEF Rewrites, NewTaskRow
<1>7. CASE cmd.op = "replay"
  <2>1. Requeued(u) = Row("pending", k, 0, m, 0, ex, by, in, res)
    BY <1>1, RewrittenRow
  <2>2. Requeued(v) = Row("pending", k, 0, m, 0, SoonerLease(ex), by, in, res)
    BY <1>3, RewrittenRow
  <2>3. Sooner(0) = 0
    BY DEF Sooner
  <2>4. Closer(Requeued(u)) = Requeued(v)
    BY <2>1, <2>2, <2>3, CloserRow
  <2> QED BY <1>2, <1>7, <2>4 DEF Rewrites, NewTaskRow
<1>8. CASE cmd.op = "retry"
  <2>1. PICK d \in 0 .. MaxBackoff : row = [BackToPending(u) EXCEPT !.available_at = d]
    BY <1>8 DEF Rewrites
  <2>2. row = Row("pending", k, a, m, d, NULL, NULL, in, res)
    BY <1>1, <2>1, RewrittenRow
  <2>3. Sooner(d) \in 0 .. MaxBackoff
    BY StoreAssumption DEF Sooner
  <2>4. SoonerLease(NULL) = NULL
    BY DEF SoonerLease
  <2>5. Closer(row) = Row("pending", k, a, m, Sooner(d), NULL, NULL, in, res)
    BY <2>2, <2>4, CloserRow
  <2>6. [BackToPending(v) EXCEPT !.available_at = Sooner(d)] =
          Row("pending", k, a, m, Sooner(d), NULL, NULL, in, res)
    BY <1>3, RewrittenRow
  <2> QED BY <1>2, <1>8, <2>3, <2>5, <2>6 DEF Rewrites
<1>9. CASE cmd.op = "reap"
  <2>1. BackToPending(u) = Row("pending", k, a, m, at, NULL, NULL, in, res)
    BY <1>1, RewrittenRow
  <2>2. BackToPending(v) = Row("pending", k, a, m, Sooner(at), NULL, NULL, in, res)
    BY <1>3, RewrittenRow
  <2>3. SoonerLease(NULL) = NULL
    BY DEF SoonerLease
  <2>4. Closer(BackToPending(u)) = BackToPending(v)
    BY <2>1, <2>2, <2>3, CloserRow
  <2> QED BY <1>2, <1>9, <2>4 DEF Rewrites, NewTaskRow
<1> QED BY <1>5, <1>6, <1>7, <1>8, <1>9 DEF IsCommand, OnTask

(* The wait of a timer that is scheduled but not committed.                *)
LEMMA CloserNext ==
    ASSUME NEW wf \in Workflows, NEW i \in Nat, i < TotalSteps(wf),
           NEW p \in Payload, NEW u \in NextTasks(wf, i, p)
    PROVE  \E v \in NextTasks(wf, i, p) : Closer(InsertTask(u)) = InsertTask(v)
<1>1. PICK task : task = BuildTask(wf, i, p) /\ task \in NewTask
  BY BuildTaskType
<1>2. PICK at \in 0 .. task.available_at : u = [task EXCEPT !.available_at = at]
  BY <1>1 DEF NextTasks
<1>3. Sooner(at) \in 0 .. task.available_at
  BY <1>1, <1>2 DEF NewTask, Sooner
<1>4. PICK v : v = [task EXCEPT !.available_at = Sooner(at)]
  OBVIOUS
<1>5. v \in NextTasks(wf, i, p)
  BY <1>1, <1>3, <1>4 DEF NextTasks
<1>6. /\ u.kind = task.kind /\ u.max_attempts = task.max_attempts
      /\ u.available_at = at /\ u.input = task.input
      /\ v.kind = task.kind /\ v.max_attempts = task.max_attempts
      /\ v.available_at = Sooner(at) /\ v.input = task.input
  BY <1>1, <1>2, <1>4 DEF NewTask
<1>7. /\ InsertTask(u) = Row("pending", task.kind, 0, task.max_attempts, at,
                             NULL, NULL, task.input, NullPayload)
      /\ InsertTask(v) = Row("pending", task.kind, 0, task.max_attempts, Sooner(at),
                             NULL, NULL, task.input, NullPayload)
  BY <1>6 DEF InsertTask, Row
<1>8. SoonerLease(NULL) = NULL
  BY DEF SoonerLease
<1>9. Closer(InsertTask(u)) = InsertTask(v)
  BY <1>7, <1>8, CloserRow
<1> QED BY <1>5, <1>9

LEMMA CloserTxFields ==
    ASSUME NEW t, IsTx(t), NEW late, t.cmd.op # "reap" => late = {},
           NEW w, w = CloserTx(t, late)
    PROVE  /\ w.cmd = t.cmd /\ w.stmt = t.stmt /\ w.todo = t.todo
           /\ w.waits = t.waits /\ w.run = t.run /\ w.log = t.log
           /\ DOMAIN w.rows = DOMAIN t.rows
           /\ \A x \in DOMAIN t.rows : w.rows[x] = Closer(t.rows[x])
           /\ IsTx(w) /\ LocksIn(w) = LocksIn(t)
<1>1. PICK rows : rows = [x \in DOMAIN t.rows |-> Closer(t.rows[x])]
  OBVIOUS
<1>2. w = [t EXCEPT !.rows = rows, !.late = late]
  BY <1>1 DEF CloserTx
<1>3. w = [cmd |-> t.cmd, stmt |-> t.stmt, todo |-> t.todo, waits |-> t.waits,
           late |-> late, rows |-> rows, run |-> t.run, log |-> t.log]
  BY <1>2 DEF IsTx
<1>4. rows = [x \in DOMAIN rows |-> rows[x]]
  BY <1>1
<1>5. /\ w.cmd = t.cmd /\ w.stmt = t.stmt /\ w.todo = t.todo
      /\ w.waits = t.waits /\ w.run = t.run /\ w.log = t.log /\ w.rows = rows
  BY <1>3
<1>6. IsTx(w)
  BY <1>3, <1>4 DEF IsTx
<1>7. LocksIn(w) = LocksIn(t)
  BY <1>1, <1>5 DEF LocksIn
<1> QED BY <1>1, <1>5, <1>6, <1>7

(* A lease that has expired stays so.                                      *)
LEMMA StillExpired ==
    ASSUME NEW u \in TaskRow, Expired(u)
    PROVE  Expired(Closer(u))
<1>1. u.status = "leased" /\ u.lease_expires_at # NULL /\ u.lease_expires_at < 0
  BY DEF Expired
<1>2. u.lease_expires_at \in Int
  BY <1>1 DEF TaskRow
<1>3. ~(u.lease_expires_at >= 0)
  BY <1>1, <1>2
<1>4. /\ Closer(u).lease_expires_at = u.lease_expires_at
      /\ Closer(u).status = "leased"
  BY <1>1, <1>3 DEF Closer, TaskRow
<1> QED BY <1>1, <1>4 DEF Expired

(* So Closer leaves alone what a WHERE clause reads.                       *)
LEMMA TakenCloser ==
    ASSUME StoreInv, Tick, NEW t, IsTx(t), IsCommand(t.cmd),
           NEW late, t.cmd.op # "reap" => late = {},
           NEW w, w = CloserTx(t, late), NEW q \in Runs, NEW j \in Steps,
           <<q, j>> \in DOMAIN t.rows, Taken(t, <<q, j>>)
    PROVE  Taken(w, <<q, j>>)'
<1>1. /\ tasks[q][j] \in TaskRow /\ tasks'[q][j] = Closer(tasks[q][j])
      /\ runs' = runs /\ events' = events
  BY TablesAreFunctions DEF Tick
<1>2. /\ w.cmd = t.cmd /\ w.rows[<<q, j>>] = Closer(t.rows[<<q, j>>])
  BY CloserTxFields
<1>3. /\ tasks'[q][j].status = tasks[q][j].status
      /\ tasks'[q][j].leased_by = tasks[q][j].leased_by
      /\ Expired(tasks[q][j]) => Expired(tasks'[q][j])
  BY <1>1, StillExpired DEF Closer, TaskRow
<1>4. PICK cmd : cmd = t.cmd
  OBVIOUS
<1>5. TaskMatches(cmd, q, j)'
  <2>1. TaskMatches(cmd, q, j)
    BY <1>4 DEF Taken
  <2>2. cmd.op \in {"advance", "retry", "dead", "replay", "cancel", "reap"}
    BY <1>4 DEF IsCommand, OnTask
  <2> QED BY <1>1, <1>3, <2>1, <2>2 DEF TaskMatches, Fenced, Replays
<1>6. PICK u, v : u = tasks[q][j] /\ v = tasks'[q][j]
  OBVIOUS
<1>7. w.rows[<<q, j>>] \in Rewrites(cmd, v)
  <2>1. t.rows[<<q, j>>] \in Rewrites(cmd, u) /\ u \in TaskRow /\ v = Closer(u)
    BY <1>1, <1>4, <1>6 DEF Taken
  <2>2. Closer(t.rows[<<q, j>>]) \in Rewrites(cmd, v)
    BY <1>4, <2>1, CloserCommutes
  <2> QED BY <1>2, <2>2
<1>8. Rewrites(cmd, v)' = Rewrites(cmd, v)
  <2>1. cmd.op # "retry" => NewTaskRow(cmd, v)' = NewTaskRow(cmd, v)
    BY DEF NewTaskRow
  <2> QED BY <2>1 DEF Rewrites
<1>9. (w.rows[<<q, j>>] \in Rewrites(cmd, v))'
  BY <1>7, <1>8
<1> QED BY <1>2, <1>4, <1>5, <1>6, <1>9 DEF Taken

LEMMA TickForm ==
    ASSUME StoreInv, Tick, NEW t, TxOK(t),
           NEW late, t.cmd.op # "reap" => late = {},
           NEW w, w = CloserTx(t, late)
    PROVE  TxOK(w)'
<1>0. IsTx(t)
  BY DEF TxOK
<1>1. /\ w.cmd = t.cmd /\ w.stmt = t.stmt /\ w.todo = t.todo
      /\ w.waits = t.waits /\ w.run = t.run /\ w.log = t.log
      /\ DOMAIN w.rows = DOMAIN t.rows
      /\ \A x \in DOMAIN t.rows : w.rows[x] = Closer(t.rows[x])
      /\ IsTx(w)
  BY <1>0, CloserTxFields
<1>2. runs' = runs /\ events' = events
  BY DEF Tick
<1>3. CASE t = NoTx
  <2>1. /\ w.cmd = NoCmd /\ w.stmt = 0 /\ w.todo = {} /\ w.waits = NULL
        /\ w.run = NULL /\ w.log = [r \in Runs |-> <<>>] /\ DOMAIN w.rows = {}
    BY <1>1, <1>3 DEF NoTx
  <2>a. w.late = {}
    BY <1>1, <2>1 DEF NoCmd, IsTx
  <2>2. w.rows = <<>>
    BY <1>1, <2>1, NothingWritten
  <2>3. w = NoTx
    BY <1>1, <2>1, <2>a, <2>2 DEF IsTx, NoTx
  <2> QED BY <1>1, <2>3 DEF TxOK, IsTx, NoTx
<1> SUFFICES ASSUME t # NoTx PROVE Form(w)'
  BY <1>1, <1>3 DEF TxOK, IsTx, IsCommand
<1>4. IsCommand(t.cmd) /\ Form(t)
  BY DEF TxOK
<1>5. ASSUME Searching(t) \/ GaveUp(t) PROVE Form(w)'
  BY <1>1, <1>5 DEF Form, Searching, GaveUp, Blank, Rests, NoLog, OwnRow, RunOf
<1>6. ASSUME t.cmd.op \in OnTask, Taken(t, OwnRow(t)),
             OwnRow(t) \in DOMAIN t.rows
      PROVE  Taken(w, OwnRow(w))'
  <2>1. t.cmd.run \in Runs /\ t.cmd.step \in Steps
    BY <1>4, <1>6 DEF IsCommand, OnTask
  <2>2. Taken(w, <<t.cmd.run, t.cmd.step>>)'
    BY <1>0, <1>4, <1>6, <2>1, TakenCloser DEF OwnRow
  <2> QED BY <1>1, <2>2 DEF OwnRow
<1>7. OwnRow(w)' = OwnRow(t) /\ NextRow(w)' = NextRow(t)
  BY <1>1 DEF OwnRow, NextRow
<1>8. ASSUME Took(t) PROVE Took(w)'
  <2>1. Taken(w, OwnRow(w))'
    BY <1>6, <1>8 DEF Took, OnTask
  <2>2. OnlyLog(w.cmd.run, EventsAfter(w.cmd, "task", {}))' =
          OnlyLog(t.cmd.run, EventsAfter(t.cmd, "task", {}))
    BY <1>1, <1>8 DEF Took, EventsAfter, OnlyLog
  <2> QED BY <1>1, <1>7, <1>8, <2>1, <2>2 DEF Took, Rests
<1>9. ASSUME HasTask(t) PROVE HasTask(w)'
  <2>1. Taken(w, OwnRow(w))'
    BY <1>6, <1>9 DEF HasTask, OnTask
  <2> QED BY <1>1, <1>7, <1>9, <2>1 DEF HasTask, Rests, NoLog
<1>10. ASSUME TaskWritten(t)
       PROVE  /\ TaskWritten(w)'
              /\ \A table \in {"task", "run"} :
                    EventsAfter(w.cmd, table, {})' = EventsAfter(t.cmd, table, {})
              /\ NewRunRow(w.cmd, runs[w.cmd.run])' =
                    NewRunRow(t.cmd, runs[t.cmd.run])
  <2>1. t.cmd.op \in {"advance", "dead"} /\ Taken(w, OwnRow(w))'
    BY <1>6, <1>10 DEF TaskWritten, OnTask
  <2>2. /\ GoesOn(w.cmd)' = GoesOn(t.cmd)
        /\ Finished(t.cmd.run, t.cmd.step)' = Finished(t.cmd.run, t.cmd.step)
    BY <1>1, <1>2 DEF GoesOn, Finished
  <2>3. \A table \in {"task", "run"} :
           EventsAfter(w.cmd, table, {})' = EventsAfter(t.cmd, table, {})
    BY <1>1, <2>1, <2>2 DEF EventsAfter
  <2>4. NewRunRow(w.cmd, runs[w.cmd.run])' = NewRunRow(t.cmd, runs[t.cmd.run])
    BY <1>1, <1>2, <2>1, <2>2 DEF NewRunRow
  <2>5. ASSUME GoesOn(t.cmd)
        PROVE  \E u \in NextTasks(runs[t.cmd.run].workflow, t.cmd.step + 1,
                                  t.cmd.result) : w.rows[NextRow(t)] = InsertTask(u)
    <3>1. PICK r, i, p : r = t.cmd.run /\ i = t.cmd.step /\ p = t.cmd.result
      OBVIOUS
    <3>2. /\ r \in Runs /\ i \in Steps /\ p \in Payload /\ ~Finished(r, i)
      BY <1>4, <2>5, <3>1 DEF GoesOn, IsCommand, OnTask, Payload
    <3>3. TaskMatches(t.cmd, r, i)
      BY <1>10, <3>1 DEF TaskWritten, Taken, OwnRow
    <3>4. /\ runs[r].workflow \in Workflows
          /\ i + 1 \in Nat /\ i + 1 < TotalSteps(runs[r].workflow)
      BY <1>4, <3>2, <3>3, NextTaskBuilt
    <3>5. PICK u \in NextTasks(runs[r].workflow, i + 1, p) :
             t.rows[NextRow(t)] = InsertTask(u)
      BY <1>10, <2>5, <3>1 DEF TaskWritten
    <3>6. PICK v \in NextTasks(runs[r].workflow, i + 1, p) :
             Closer(InsertTask(u)) = InsertTask(v)
      BY <3>2, <3>4, <3>5, CloserNext
    <3>7. NextRow(t) \in DOMAIN t.rows
      BY <1>10, <2>5 DEF TaskWritten
    <3> QED BY <1>1, <3>1, <3>5, <3>6, <3>7
  <2>6. NextTasks(runs[w.cmd.run].workflow, w.cmd.step + 1, w.cmd.result)' =
          NextTasks(runs[t.cmd.run].workflow, t.cmd.step + 1, t.cmd.result)
    BY <1>1, <1>2
  <2>7. /\ DOMAIN w.rows = {OwnRow(t)} \cup (IF GoesOn(t.cmd) THEN {NextRow(t)} ELSE {})
    BY <1>1, <1>10 DEF TaskWritten
  <2>8. TaskWritten(w)'
    BY <1>1, <1>2, <1>7, <2>1, <2>2, <2>5, <2>6, <2>7 DEF TaskWritten, InsertTask
  <2> QED BY <2>3, <2>4, <2>8
<1>11. ASSUME NeedsRun(t) PROVE NeedsRun(w)'
  <2>1. TaskWritten(t)
    BY <1>11 DEF NeedsRun
  <2> QED BY <1>1, <1>10, <1>11, <2>1 DEF NeedsRun, OnlyLog, RunOf
<1>12. ASSUME HasBoth(t) PROVE HasBoth(w)'
  <2>1. TaskWritten(t)
    BY <1>12 DEF HasBoth
  <2> QED BY <1>1, <1>10, <1>12, <2>1 DEF HasBoth, OnlyLog, Rests
<1>13. ASSUME RunClosed(t)
       PROVE  RunClosed(w)' /\ CurrentRow(w.cmd.run)' = CurrentRow(t.cmd.run)
  BY <1>1, <1>2, <1>13 DEF RunClosed, NewRunRow, CurrentRow
<1>14. ASSUME HasRun(t) PROVE HasRun(w)'
  <2>1. RunClosed(t)
    BY <1>14 DEF HasRun
  <2> QED BY <1>1, <1>13, <1>14, <2>1 DEF HasRun, Rests, NoLog
<1>15. ASSUME NeedsTask(t) PROVE NeedsTask(w)'
  <2>1. RunClosed(t)
    BY <1>15 DEF NeedsTask
  <2> QED BY <1>1, <1>13, <1>15, <2>1 DEF NeedsTask, NoLog
<1>16. ASSUME Swept(t) PROVE Swept(w)'
  <2>1. RunClosed(t)
    BY <1>16 DEF Swept
  <2>2. PICK r, i : r = t.cmd.run /\ i = runs[r].current_step
    OBVIOUS
  <2>3. r \in Runs /\ i \in Steps
    BY <1>4, <2>1, <2>2, CurrentStep DEF RunClosed, IsCommand
  <2>4. <<r, i>> \in DOMAIN t.rows /\ Taken(t, <<r, i>>)
    BY <1>16, <2>2 DEF Swept, CurrentRow
  <2>5. Taken(w, <<r, i>>)'
    BY <1>0, <1>4, <2>3, <2>4, TakenCloser
  <2>6. CurrentRow(w.cmd.run)' = <<r, i>> /\ CurrentRow(t.cmd.run) = <<r, i>>
    BY <1>13, <2>1, <2>2 DEF CurrentRow
  <2>7. Taken(w, CurrentRow(w.cmd.run))'
    BY <2>5, <2>6
  <2> QED BY <1>1, <1>13, <1>16, <2>1, <2>6, <2>7 DEF Swept, Rests, OnlyLog
<1>17. ASSUME DOMAIN t.rows \subseteq ExpiredRows,
              \A x \in DOMAIN t.rows : Taken(t, x)
       PROVE  /\ DOMAIN w.rows \subseteq ExpiredRows'
              /\ \A x \in DOMAIN w.rows : Taken(w, x)'
  <2>1. ASSUME NEW x \in DOMAIN t.rows
        PROVE  x \in ExpiredRows' /\ Taken(w, x)'
    <3>1. PICK q \in Runs, j \in Steps : x = <<q, j>>
      BY <1>17, <2>1 DEF ExpiredRows, TaskRows
    <3>2. Taken(w, <<q, j>>)'
      BY <1>0, <1>4, <1>17, <2>1, <3>1, TakenCloser
    <3>3. Expired(tasks[q][j])
      BY <1>17, <2>1, <3>1 DEF ExpiredRows
    <3>4. Expired(tasks'[q][j])
      BY <3>3, StillExpired, TablesAreFunctions DEF Tick
    <3> QED BY <3>1, <3>2, <3>4 DEF ExpiredRows, TaskRows
  <2> QED BY <1>1, <2>1
<1>18. ASSUME Reaping(t) PROVE Reaping(w)'
  BY <1>1, <1>17, <1>18 DEF Reaping, NoLog, TaskRows
<1>19. ASSUME Reaped(t) PROVE Reaped(w)'
  <2>1. \A q \in Runs : ReclaimEvents(TakenBack(w, q))' = ReclaimEvents(TakenBack(t, q))
    BY <1>1 DEF TakenBack, ReclaimEvents
  <2> QED BY <1>1, <1>17, <1>19, <2>1 DEF Reaped, Rests
<1> QED
  BY <1>4, <1>5, <1>8, <1>9, <1>11, <1>12, <1>14, <1>15, <1>16, <1>18, <1>19 DEF Form

LEMMA TickInv ==
    ASSUME TxInv, TxTick
    PROVE  TxInv' /\ StoreNext
<1>1. /\ StoreInv /\ Exclusive /\ Tick /\ StoreNext
      /\ \A d \in Conns : TxOK(tx[d])
      /\ tx' = [d \in Conns |-> CloserTx(tx[d], LateRows(tx[d]))]
  BY DEF TxInv, TxTick, StoreNext, CloserTx, LateRows
<1>2. StoreInv'
  BY <1>1, StoreStepInv
<1>3. ASSUME NEW d \in Conns
      PROVE  TxOK(tx[d])' /\ LocksIn(tx[d])' = LocksIn(tx[d])
  <2>1. PICK t, w, late : /\ t = tx[d] /\ w = tx'[d] /\ w = CloserTx(t, late)
                          /\ t.cmd.op # "reap" => late = {}
    BY <1>1 DEF LateRows
  <2>2. TxOK(w)'
    BY <1>1, <2>1, TickForm
  <2>3. LocksIn(w) = LocksIn(t)
    BY <1>1, <2>1, CloserTxFields DEF TxOK
  <2>4. LocksIn(tx[d])' = LocksIn(w)
    BY <2>1 DEF LocksIn, RunOf
  <2> QED BY <2>1, <2>2, <2>3, <2>4
<1>4. Exclusive'
  BY <1>1, <1>3, LocksAre DEF Exclusive
<1>5. tx' = [d \in Conns |-> tx'[d]]
  BY <1>1
<1> QED BY <1>1, <1>2, <1>3, <1>4, <1>5 DEF TxInv

----------------------------------------------------------------------------
(* The invariant, and what follows from it.                                *)

LEMMA TxInitInv == TxInit => TxInv
<1> SUFFICES ASSUME TxInit PROVE TxInv
  OBVIOUS
<1>1. StoreInv
  BY StoreInitInv DEF TxInit
<1>2. tx = [c \in Conns |-> tx[c]] /\ \A c \in Conns : tx[c] = NoTx
  BY DEF TxInit
<1>3. \A c \in Conns : Locks(c) = {}
  BY <1>2, NoTxFields, LocksAre, BlankLocks
<1> QED BY <1>1, <1>2, <1>3, NoTxFields DEF TxInv, Exclusive

LEMMA TxStep ==
    ASSUME TxInv, [TxNext]_txVars
    PROVE  TxInv' /\ [StoreNext]_storeVars
<1>1. ASSUME NEW c \in Conns, NEW cmd \in Commands, Begin(c, cmd)
      PROVE  TxInv' /\ UNCHANGED storeVars
  BY <1>1, BeginInv DEF Begin
<1>2. ASSUME NEW c \in Conns, Block(c)
      PROVE  TxInv' /\ UNCHANGED storeVars
  BY <1>2, BlockInv DEF Block
<1>3. ASSUME NEW c \in Conns, Take(c)
      PROVE  TxInv' /\ UNCHANGED storeVars
  BY <1>3, TakeInv DEF Take
<1>4. ASSUME NEW c \in Conns, EndStatement(c)
      PROVE  TxInv' /\ UNCHANGED storeVars
  BY <1>4, EndStatementInv DEF EndStatement
<1>5. ASSUME NEW c \in Conns, Commit(c)
      PROVE  TxInv' /\ [StoreNext]_storeVars
  BY <1>5, CommitInv, CommitStep
<1>6. ASSUME NEW c \in Conns, Rollback(c) \/ Deadlock(c)
      PROVE  TxInv' /\ UNCHANGED storeVars
  BY <1>6, RollbackInv DEF Rollback, Deadlock
<1>7. ASSUME UNCHANGED txVars
      PROVE  TxInv' /\ UNCHANGED storeVars
  <2>1. tx' = tx /\ UNCHANGED storeVars
    BY <1>7 DEF txVars, storeVars
  <2>2. StoreInv' /\ tx' = [d \in Conns |-> tx'[d]]
    BY <2>1, SameRows DEF TxInv
  <2>3. \A d \in Conns : tx'[d] = tx[d] /\ Aloof(tx[d])
    BY <2>1 DEF Aloof, storeVars
  <2> QED BY <2>1, <2>2, <2>3, OthersStand
<1> QED
  BY <1>1, <1>2, <1>3, <1>4, <1>5, <1>6, <1>7, LeaseInv, StartInv, TickInv DEF TxNext

(* However the statements of any number of transactions interleave, the    *)
(* committed rows change only as the store's transactions, each alone,     *)
(* would change them: the row locks of READ COMMITTED, and its second look *)
(* at a row it waited for, are enough for Advance, Retry, DeadLetter,      *)
(* ReplayDeadLetter, CancelRun and ReapExpiredLeases.  (The fairness of    *)
(* TxSpec is not needed.)                                                  *)
THEOREM TransactionsAreSerializable == TxSpec => TxImplementsStore
<1>1. TxInit => StoreInit
  BY DEF TxInit
<1>2. TxInv /\ [TxNext]_txVars => TxInv' /\ [StoreNext]_storeVars
  BY TxStep
<1> QED BY <1>1, <1>2, TxInitInv, PTL DEF TxSpec, TxImplementsStore, StoreSpec

(* So the run's shape, the rest of final runs and the promise of           *)
(* WorkflowRun hold of the transactions cut into their statements.         *)
THEOREM TransactionsKeepPromise ==
    TxSpec => /\ [](StoreTypeOK /\ RunShape)
              /\ FinalRunsFrozen
              /\ ImplementsWorkflowRun
  BY TransactionsAreSerializable, StoreSafety, FinalRunsStayFrozen,
     StoreRefinesWorkflowRun, PTL DEF TxImplementsStore

LEMMA HistoryOrder == TxInv => HistoryInCommitOrder
<1> SUFFICES ASSUME TxInv, NEW c \in Conns, NEW d \in Conns, NEW r \in Runs,
                    tx[c].log[r] # <<>>, tx[d].log[r] # <<>>, c # d
             PROVE  FALSE
  BY DEF HistoryInCommitOrder
<1>1. StoreInv /\ TxOK(tx[c]) /\ TxOK(tx[d])
  BY DEF TxInv
<1>2. CurrentRow(r) \in DOMAIN tx[c].rows /\ CurrentRow(r) \in DOMAIN tx[d].rows
  BY <1>1, LockedIsCurrent
<1>3. CurrentRow(r) \in Locks(c) /\ CurrentRow(r) \in Locks(d)
  BY <1>2 DEF Locks
<1> QED BY <1>3 DEF TxInv, Exclusive

(* A transaction that has written an event of a run has locked the run's   *)
(* current task, so the events of a run are committed in the order of      *)
(* their ids.                                                              *)
THEOREM HistoryKeepsCommitOrder == TxSpec => []HistoryInCommitOrder
<1>1. TxInv /\ [TxNext]_txVars => TxInv'
  BY TxStep
<1> QED BY <1>1, TxInitInv, HistoryOrder, PTL DEF TxSpec

(* A worker's transaction that waits and is waited for has locked its task *)
(* and waits for its run, which only a CancelRun can hold without having   *)
(* locked that task.                                                       *)
LEMMA WorkerWaitsForCancel ==
    ASSUME TxInv, NEW c \in Conns, NEW d \in Conns, NEW b \in Conns,
           tx[c].cmd.op \in {"advance", "dead"}, WaitsFor(c, d), WaitsFor(b, c)
    PROVE  tx[d].cmd = [op |-> "cancel", run |-> tx[c].cmd.run]
<1>1. PICK t, u : t = tx[c] /\ u = tx[d]
  OBVIOUS
<1>2. /\ StoreInv /\ TxOK(t) /\ TxOK(u) /\ LocksIn(t) \cap LocksIn(u) = {}
      /\ t.waits # NULL /\ t.waits \in LocksIn(u) /\ LocksIn(t) # {}
  BY <1>1, LocksAre DEF TxInv, Exclusive, WaitsFor
<1>3. t # NoTx /\ t.cmd.op \in {"advance", "dead"}
  BY <1>1, <1>2 DEF NoTx
<1>4. IsCommand(t.cmd) /\ Form(t)
  BY <1>2, <1>3 DEF TxOK
<1>5. NeedsRun(t)
  <2>1. ~Searching(t) /\ ~GaveUp(t)
    BY <1>2, BlankLocks DEF Searching, GaveUp
  <2> QED BY <1>2, <1>3, <1>4, <2>1
          DEF Form, Took, HasTask, HasBoth, HasRun, NeedsTask, Swept, Reaping,
              Reaped, Rests, RunClosed
<1>6. /\ t.waits = RunOf(t.cmd.run) /\ t.cmd.run \in Runs /\ t.cmd.step \in Steps
      /\ Taken(t, OwnRow(t)) /\ OwnRow(t) \in DOMAIN t.rows
  BY <1>2, <1>4, <1>5 DEF NeedsRun, TaskWritten, IsCommand, OnTask
<1>7. CurrentRow(t.cmd.run) = OwnRow(t)
  BY <1>2, <1>4, <1>6, TakenIsCurrent DEF OwnRow
<1>8. RunOf(t.cmd.run) \notin DOMAIN u.rows
  <2>1. DOMAIN u.rows \subseteq Runs \X Nat
    BY <1>2, LockedIsCurrent
  <2>2. NoStep \notin Nat
    BY DEF NoStep
  <2> QED BY <2>1, <2>2 DEF RunOf
<1>9. u.run # NULL /\ u.cmd.run = t.cmd.run
  BY <1>2, <1>6, <1>8 DEF LocksIn, RunOf
<1>10. u # NoTx
  BY <1>9, NoTxFields DEF Blank
<1>11. IsCommand(u.cmd) /\ Form(u)
  BY <1>2, <1>10 DEF TxOK
<1>12. ~HasBoth(u)
  <2>1. HasBoth(u) => CurrentRow(t.cmd.run) \in DOMAIN u.rows
    BY <1>2, <1>9, RunLocked
  <2> QED BY <1>2, <1>6, <1>7, <2>1 DEF LocksIn
<1>13. RunClosed(u)
  BY <1>9, <1>11, <1>12 DEF Form, Searching, GaveUp, Blank, Took, HasTask, NeedsRun,
              HasRun, NeedsTask, Swept, Reaping, Reaped
<1> QED BY <1>1, <1>9, <1>11, <1>13 DEF RunClosed, IsCommand

(* Among any number of connections, a worker's commit is caught in a       *)
(* deadlock only together with a CancelRun of its own run.                 *)
THEOREM OnlyCancelDeadlocksWorkers == TxSpec => []DeadlockNeedsCancel
<1>1. TxInv /\ [TxNext]_txVars => TxInv'
  BY TxStep
<1>2. TxInv => DeadlockNeedsCancel
  <2> SUFFICES ASSUME TxInv, NEW D \in SUBSET Conns, Circle(D),
                      NEW c \in D, tx[c].cmd.op \in {"advance", "dead"}
               PROVE  \E a, d \in D : /\ tx[a].cmd.op \in {"advance", "dead"}
                                      /\ tx[d].cmd = [op |-> "cancel",
                                                      run |-> tx[a].cmd.run]
    BY DEF DeadlockNeedsCancel
  <2>1. PICK d \in D, b \in D : WaitsFor(c, d) /\ WaitsFor(b, c)
    BY DEF Circle
  <2>2. tx[d].cmd = [op |-> "cancel", run |-> tx[c].cmd.run]
    BY <2>1, WorkerWaitsForCancel
  <2> QED BY <2>1, <2>2
<1> QED BY <1>1, <1>2, TxInitInv, PTL DEF TxSpec

=============================================================================
