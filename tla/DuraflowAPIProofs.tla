------------------------- MODULE DuraflowAPIProofs -------------------------
(***************************************************************************)
(* The API keeps to the store's transactions, a cancelled run stays down,  *)
(* an answer read in two statements fits together, and what racing and     *)
(* retried requests are told: starts with one idempotency key and replays  *)
(* of one dead task.                                                       *)
(***************************************************************************)
EXTENDS DuraflowAPI, StoreHistoryProofs

(* What a request can look like: an insert is about to start a registered  *)
(* workflow, and only a start may lack a run.                              *)
RequestOK(x) ==
    /\ x \in Request
    /\ x.stage = "insert" => x.op = "start" /\ x.wf \in Workflows
    /\ x.stage = "tasks" => x.op = "get"
    /\ x.op # "start" /\ x.stage # "idle" => x.run \in Runs
    /\ x.stage # "done" => x.code = 0

RequestsOK == req \in [Requests -> Request] /\ \A q \in Requests : RequestOK(req[q])

(* How far a handler is changes its request alone, and keeps it well       *)
(* formed.                                                                 *)
LEMMA RequestMoves ==
    ASSUME RequestsOK, NEW q \in Requests, NEW x, RequestOK(x),
           req' = [req EXCEPT ![q] = x]
    PROVE  RequestsOK'
  BY DEF RequestsOK, RequestOK

LEMMA Views ==
    ASSUME StoreTypeOK, NEW r \in Runs
    PROVE  /\ ViewOf(runs[r]) \in RunView
           /\ StatusesOf(tasks[r]) \in TasksView
  BY DEF StoreTypeOK, ViewOf, RunView, RunRow, StatusesOf, TasksView, TaskRow

LEMMA RequestsInit == APIInit => RequestsOK
<1> SUFFICES ASSUME APIInit PROVE RequestsOK
  OBVIOUS
<1>1. NoView \in RunView /\ NoStatuses \in TasksView
  BY DEF NoView, RunView, RunStatus, NoStatuses, TasksView, TaskStatus
<1>2. 0 \in Steps
  BY TypesAssumption DEF Steps
<1>3. "idle" \in Stage /\ 0 \in Code
  BY DEF Stage, Code
<1> DEFINE Unsent == [op : Ops, wf : {NULL}, key : {NULL}, run : {NULL},
                      step : {0}, view : {NoView}, tasks : {NoStatuses},
                      stage : {"idle"}, code : {0}]
<1>4. req \in [Requests -> Unsent]
  BY DEF APIInit
<1>5. ASSUME NEW x \in Unsent PROVE RequestOK(x)
  <2>1. x \in Request
    BY <1>1, <1>2, <1>3 DEF Request
  <2>2. x.stage = "idle" /\ x.code = 0
    OBVIOUS
  <2> QED BY <2>1, <2>2 DEF RequestOK
<1> HIDE DEF Unsent
<1> QED BY <1>4, <1>5 DEF RequestsOK, RequestOK

(* A request stays one when a field is given another value of its type.    *)
LEMMA FieldsOK ==
    ASSUME NEW x \in Request
    PROVE  /\ \A s \in Stage : [x EXCEPT !.stage = s] \in Request
           /\ \A c \in Code : [x EXCEPT !.code = c] \in Request
           /\ \A v \in RunView : [x EXCEPT !.view = v] \in Request
           /\ \A ts \in TasksView : [x EXCEPT !.tasks = ts] \in Request
           /\ \A r \in Runs : [x EXCEPT !.run = r] \in Request
           /\ \A i \in Steps : [x EXCEPT !.step = i] \in Request
           /\ \A wf \in Workflows \cup {NULL} : [x EXCEPT !.wf = wf] \in Request
           /\ \A k \in Keys \cup {NULL} : [x EXCEPT !.key = k] \in Request
<1>1. \A s \in Stage : [x EXCEPT !.stage = s] \in Request
  BY DEF Request
<1>2. \A c \in Code : [x EXCEPT !.code = c] \in Request
  BY DEF Request
<1>3. \A v \in RunView : [x EXCEPT !.view = v] \in Request
  BY DEF Request
<1>4. \A ts \in TasksView : [x EXCEPT !.tasks = ts] \in Request
  BY DEF Request
<1>5. \A r \in Runs : [x EXCEPT !.run = r] \in Request
  BY DEF Request
<1>6. \A i \in Steps : [x EXCEPT !.step = i] \in Request
  BY DEF Request
<1>7. \A wf \in Workflows \cup {NULL} : [x EXCEPT !.wf = wf] \in Request
  BY DEF Request
<1>8. \A k \in Keys \cup {NULL} : [x EXCEPT !.key = k] \in Request
  BY DEF Request
<1> QED BY <1>1, <1>2, <1>3, <1>4, <1>5, <1>6, <1>7, <1>8

LEMMA AnsweredOK ==
    ASSUME NEW x \in Request, NEW s \in Stage, NEW c \in Code
    PROVE  [x EXCEPT !.stage = s, !.code = c] \in Request
<1> DEFINE y == [x EXCEPT !.stage = s]
<1>1. y \in Request
  BY FieldsOK
<1> HIDE DEF y
<1>2. [y EXCEPT !.code = c] \in Request
  BY <1>1, FieldsOK
<1> QED BY <1>2 DEF y

LEMMA AnswersOK ==
    ASSUME NEW x, RequestOK(x), x.stage # "idle"
    PROVE  /\ \A c \in Code :
                 RequestOK([x EXCEPT !.stage = "done", !.code = c])
           /\ x.op = "start" => \A r \in Runs : \A c \in Code :
                 RequestOK([x EXCEPT !.stage = "done", !.code = c, !.run = r])
           /\ x.stage # "done" => RequestOK([x EXCEPT !.stage = "gone"])
<1>0. x \in Request /\ "done" \in Stage /\ "gone" \in Stage
  BY DEF RequestOK, Stage
<1>1. ASSUME NEW c \in Code
      PROVE  RequestOK([x EXCEPT !.stage = "done", !.code = c])
  <2> DEFINE y == [x EXCEPT !.stage = "done", !.code = c]
  <2> SUFFICES RequestOK(y)
    OBVIOUS
  <2>1. y \in Request
    BY <1>0, FieldsOK
  <2>2. y.op = x.op /\ y.run = x.run /\ y.stage = "done"
    BY <1>0 DEF Request
  <2> HIDE DEF y
  <2> QED BY <2>1, <2>2 DEF RequestOK
<1>2. ASSUME x.op = "start", NEW r \in Runs, NEW c \in Code
      PROVE  RequestOK([x EXCEPT !.stage = "done", !.code = c, !.run = r])
  <2> DEFINE y == [x EXCEPT !.stage = "done", !.code = c, !.run = r]
  <2> SUFFICES RequestOK(y)
    OBVIOUS
  <2>1. y \in Request
    BY <1>0, FieldsOK
  <2>2. y.run = r /\ y.stage = "done"
    BY <1>0 DEF Request
  <2> HIDE DEF y
  <2> QED BY <2>1, <2>2 DEF RequestOK
<1>3. ASSUME x.stage # "done"
      PROVE  RequestOK([x EXCEPT !.stage = "gone"])
  <2> DEFINE y == [x EXCEPT !.stage = "gone"]
  <2> SUFFICES RequestOK(y)
    OBVIOUS
  <2>1. y \in Request
    BY <1>0, FieldsOK
  <2>2. y.op = x.op /\ y.run = x.run /\ y.stage = "gone" /\ y.code = x.code
    BY <1>0 DEF Request
  <2> HIDE DEF y
  <2> QED BY <1>3, <2>1, <2>2 DEF RequestOK
<1> QED BY <1>1, <1>2, <1>3

(* The other things a handler, or the client before it, records.           *)
LEMMA ProgressOK ==
    ASSUME NEW x, RequestOK(x), x.stage # "done"
    PROVE  /\ x.op = "start" =>
                 \A wf \in Workflows \cup {NULL} : \A key \in Keys \cup {NULL} :
                    RequestOK([x EXCEPT !.wf = wf, !.key = key, !.stage = "sent"])
           /\ \A r \in Runs : \A i \in Steps :
                 RequestOK([x EXCEPT !.run = r, !.step = i, !.stage = "sent"])
           /\ x.op = "start" /\ x.wf # NULL =>
                 RequestOK([x EXCEPT !.stage = "insert"])
           /\ x.op = "get" /\ x.stage # "idle" => \A v \in RunView :
                 RequestOK([x EXCEPT !.stage = "tasks", !.view = v])
           /\ x.op = "get" /\ x.stage # "idle" =>
                 \A ts \in TasksView :
                    RequestOK([x EXCEPT !.stage = "done", !.code = 200,
                                        !.tasks = ts])
<1>0. /\ x \in Request /\ x.code = 0
      /\ "sent" \in Stage /\ "insert" \in Stage /\ "tasks" \in Stage
      /\ "done" \in Stage /\ 200 \in Code
  BY DEF RequestOK, Stage, Code
<1>1. ASSUME NEW wf \in Workflows \cup {NULL}, NEW key \in Keys \cup {NULL},
             x.op = "start"
      PROVE  RequestOK([x EXCEPT !.wf = wf, !.key = key, !.stage = "sent"])
  <2> DEFINE y == [x EXCEPT !.wf = wf, !.key = key, !.stage = "sent"]
  <2> SUFFICES RequestOK(y)
    OBVIOUS
  <2>1. y \in Request
    BY <1>0, FieldsOK
  <2>2. y.op = "start" /\ y.stage = "sent" /\ y.code = 0
    BY <1>0, <1>1 DEF Request
  <2> HIDE DEF y
  <2> QED BY <2>1, <2>2 DEF RequestOK
<1>2. ASSUME NEW r \in Runs, NEW i \in Steps
      PROVE  RequestOK([x EXCEPT !.run = r, !.step = i, !.stage = "sent"])
  <2> DEFINE y == [x EXCEPT !.run = r, !.step = i, !.stage = "sent"]
  <2> SUFFICES RequestOK(y)
    OBVIOUS
  <2>1. y \in Request
    BY <1>0, FieldsOK
  <2>2. y.run = r /\ y.stage = "sent" /\ y.code = 0
    BY <1>0 DEF Request
  <2> HIDE DEF y
  <2> QED BY <2>1, <2>2 DEF RequestOK
<1>3. ASSUME x.op = "start", x.wf # NULL
      PROVE  RequestOK([x EXCEPT !.stage = "insert"])
  <2> DEFINE y == [x EXCEPT !.stage = "insert"]
  <2> SUFFICES RequestOK(y)
    OBVIOUS
  <2>1. y \in Request
    BY <1>0, FieldsOK
  <2>2. y.op = "start" /\ y.stage = "insert" /\ y.code = 0 /\ y.wf # NULL
    BY <1>0, <1>3 DEF Request
  <2>3. y.wf \in Workflows \cup {NULL}
    BY <2>1 DEF Request
  <2> HIDE DEF y
  <2> QED BY <2>1, <2>2, <2>3 DEF RequestOK
<1>4. ASSUME x.op = "get", x.stage # "idle", NEW v \in RunView
      PROVE  RequestOK([x EXCEPT !.stage = "tasks", !.view = v])
  <2> DEFINE y == [x EXCEPT !.stage = "tasks", !.view = v]
  <2> SUFFICES RequestOK(y)
    OBVIOUS
  <2>1. y \in Request
    BY <1>0, FieldsOK
  <2>2. /\ y.op = "get" /\ y.stage = "tasks" /\ y.code = 0
        /\ y.run = x.run
    BY <1>0, <1>4 DEF Request
  <2>3. x.run \in Runs
    BY <1>4 DEF RequestOK
  <2> HIDE DEF y
  <2> QED BY <2>1, <2>2, <2>3 DEF RequestOK
<1>5. ASSUME x.op = "get", x.stage # "idle", NEW ts \in TasksView
      PROVE  RequestOK([x EXCEPT !.stage = "done", !.code = 200, !.tasks = ts])
  <2> DEFINE answered == [x EXCEPT !.stage = "done", !.code = 200]
             y == [answered EXCEPT !.tasks = ts]
  <2> SUFFICES RequestOK(y)
    OBVIOUS
  <2>0. answered \in Request
    BY <1>0, AnsweredOK
  <2>1. y \in Request
    <3> HIDE DEF answered
    <3> QED BY <2>0, FieldsOK
  <2>2. y.op = "get" /\ y.stage = "done" /\ y.run = x.run
    BY <1>0, <1>5 DEF Request
  <2>3. x.run \in Runs
    BY <1>5 DEF RequestOK
  <2> HIDE DEF y
  <2> QED BY <2>1, <2>2, <2>3 DEF RequestOK
<1> QED BY <1>1, <1>2, <1>3, <1>4, <1>5

LEMMA RequestsStep ==
    ASSUME StoreTypeOK, RequestsOK, [APINext]_apiVars
    PROVE  RequestsOK'
<1> USE DEF At, Answer, AnswerRun, GoTo
<1>0. \A q \in Requests : RequestOK(req[q])
  BY DEF RequestsOK
<1>1. ASSUME NEW q \in Requests, Send(q) PROVE RequestsOK'
  <2>1. RequestOK(req[q]) /\ req[q].stage # "done"
    BY <1>0, <1>1 DEF Send
  <2>2. ASSUME NEW wf \in Workflows \cup {NULL}, NEW key \in Keys \cup {NULL},
               req[q].op = "start",
               req' = [req EXCEPT ![q].wf = wf, ![q].key = key,
                                  ![q].stage = "sent"]
        PROVE  RequestsOK'
    <3> DEFINE x == [req[q] EXCEPT !.wf = wf, !.key = key, !.stage = "sent"]
    <3>1. RequestOK(x)
      BY <2>1, <2>2, ProgressOK
    <3>2. req' = [req EXCEPT ![q] = x]
      BY <2>2
    <3> QED BY <3>1, <3>2, RequestMoves
  <2>3. ASSUME NEW r \in Runs, NEW i \in Steps,
               req' = [req EXCEPT ![q].run = r, ![q].step = i,
                                  ![q].stage = "sent"]
        PROVE  RequestsOK'
    <3> DEFINE x == [req[q] EXCEPT !.run = r, !.step = i, !.stage = "sent"]
    <3>1. RequestOK(x)
      BY <2>1, ProgressOK
    <3>2. req' = [req EXCEPT ![q] = x]
      BY <2>3
    <3> QED BY <3>1, <3>2, RequestMoves
  <2> QED BY <1>1, <2>2, <2>3 DEF Send
<1>2. ASSUME NEW q \in Requests, req[q].stage # "idle",
             NEW c \in Code, Answer(q, c)
      PROVE  RequestsOK'
  <2> DEFINE x == [req[q] EXCEPT !.stage = "done", !.code = c]
  <2>1. RequestOK(x)
    BY <1>0, <1>2, AnswersOK
  <2>2. req' = [req EXCEPT ![q] = x]
    BY <1>2
  <2> QED BY <2>1, <2>2, RequestMoves
<1>3. ASSUME NEW q \in Requests, req[q].stage # "idle",
             req[q].op = "start", NEW r \in Runs, NEW c \in Code,
             AnswerRun(q, c, r)
      PROVE  RequestsOK'
  <2> DEFINE x == [req[q] EXCEPT !.stage = "done", !.code = c, !.run = r]
  <2>1. RequestOK(x)
    BY <1>0, <1>3, AnswersOK
  <2>2. req' = [req EXCEPT ![q] = x]
    BY <1>3
  <2> QED BY <2>1, <2>2, RequestMoves
<1>4. ASSUME NEW q \in Requests, At(q, "start", "sent"),
             req[q].wf # NULL, GoTo(q, "insert")
      PROVE  RequestsOK'
  <2> DEFINE x == [req[q] EXCEPT !.stage = "insert"]
  <2>1. RequestOK(x)
    BY <1>0, <1>4, ProgressOK
  <2>2. req' = [req EXCEPT ![q] = x]
    BY <1>4
  <2> QED BY <2>1, <2>2, RequestMoves
<1>5. ASSUME NEW q \in Requests, HandleGetRun(q) PROVE RequestsOK'
  <2>1. /\ RequestOK(req[q]) /\ req[q].op = "get"
        /\ req[q].stage \in {"sent", "tasks"}
    BY <1>0, <1>5 DEF HandleGetRun
  <2>2. /\ ViewOf(runs[req[q].run]) \in RunView
        /\ StatusesOf(tasks[req[q].run]) \in TasksView
    BY <2>1, Views DEF RequestOK
  <2>3. CASE Answer(q, 404)
    <3>1. 404 \in Code /\ req[q].stage # "idle"
      BY <2>1 DEF Code
    <3> QED BY <1>2, <2>3, <3>1
  <2>4. CASE req' = [req EXCEPT ![q].stage = "tasks",
                                ![q].view = ViewOf(runs[req[q].run])]
    <3> DEFINE x == [req[q] EXCEPT !.stage = "tasks",
                                   !.view = ViewOf(runs[req[q].run])]
    <3>1. RequestOK(x)
      BY <2>1, <2>2, ProgressOK
    <3>2. req' = [req EXCEPT ![q] = x]
      BY <2>4
    <3> QED BY <3>1, <3>2, RequestMoves
  <2>5. CASE req' = [req EXCEPT ![q].stage = "done", ![q].code = 200,
                                ![q].tasks = StatusesOf(tasks[req[q].run])]
    <3> DEFINE x == [req[q] EXCEPT !.stage = "done", !.code = 200,
                                   !.tasks = StatusesOf(tasks[req[q].run])]
    <3>1. RequestOK(x)
      BY <2>1, <2>2, ProgressOK
    <3>2. req' = [req EXCEPT ![q] = x]
      BY <2>5
    <3> QED BY <3>1, <3>2, RequestMoves
  <2> QED BY <1>5, <2>3, <2>4, <2>5 DEF HandleGetRun
<1>6. ASSUME NEW q \in Requests, Hangup(q) PROVE RequestsOK'
  <2> DEFINE x == [req[q] EXCEPT !.stage = "gone"]
  <2>1. RequestOK(x)
    BY <1>0, <1>6, AnswersOK DEF Hangup
  <2>2. req' = [req EXCEPT ![q] = x]
    BY <1>6 DEF Hangup
  <2> QED BY <2>1, <2>2, RequestMoves
<1>7. ASSUME req' = req PROVE RequestsOK'
  BY <1>7 DEF RequestsOK, RequestOK
<1> HIDE DEF At, Answer, AnswerRun, GoTo
<1>8. 200 \in Code /\ 201 \in Code /\ 204 \in Code /\ 400 \in Code
      /\ 404 \in Code /\ 500 \in Code
  BY DEF Code
<1>9. ASSUME NEW q \in Requests,
             StartRefused(q) \/ StartLookup(q) \/ StartInsert(q)
      PROVE  RequestsOK'
  BY <1>9, <1>2, <1>3, <1>4, <1>8 DEF StartRefused, StartLookup, StartInsert, At
<1>10. ASSUME NEW q \in Requests,
              HandleCancelRun(q) \/ HandleReplayDeadLetter(q) \/ HandlerError(q)
       PROVE  RequestsOK'
  BY <1>10, <1>2, <1>8 DEF HandleCancelRun, HandleReplayDeadLetter, HandlerError, At
<1> QED
  BY <1>1, <1>5, <1>6, <1>7, <1>9, <1>10 DEF APINext, WorkersGoOn, apiVars

----------------------------------------------------------------------------
(* Handlers fill in the parameters of the store's transactions properly.   *)
LEMMA StoreStepOfAPI ==
    ASSUME RequestsOK, [APINext]_apiVars
    PROVE  [StoreNext]_storeVars
<1>1. ASSUME NEW q \in Requests, NEW r \in Runs, req[q].stage = "insert",
             StartWorkflow(r, req[q].wf, req[q].key)
      PROVE  StoreNext
  <2>1. req[q].wf \in Workflows /\ req[q].key \in Keys \cup {NULL}
    BY <1>1 DEF RequestsOK, RequestOK, Request
  <2> QED BY <1>1, <2>1 DEF StoreNext
<1>2. ASSUME NEW q \in Requests, req[q].stage # "idle", req[q].op # "start"
      PROVE  req[q].run \in Runs /\ req[q].step \in Steps
  BY <1>2 DEF RequestsOK, RequestOK, Request
<1>3. ASSUME NEW q \in Requests, StartInsert(q)
      PROVE  [StoreNext]_storeVars
  BY <1>1, <1>3 DEF StartInsert, At
<1>4. ASSUME NEW q \in Requests, req[q].stage # "idle", req[q].op # "start",
             CancelRun(req[q].run) \/ Replay(req[q].run, req[q].step)
      PROVE  StoreNext
  BY <1>2, <1>4 DEF StoreNext
<1>5. ASSUME NEW q \in Requests, HandleCancelRun(q) \/ HandleReplayDeadLetter(q)
      PROVE  [StoreNext]_storeVars
  BY <1>4, <1>5 DEF HandleCancelRun, HandleReplayDeadLetter, At
<1>6. ASSUME NEW q \in Requests, HandlerError(q)
      PROVE  [StoreNext]_storeVars
  BY <1>1, <1>4, <1>6 DEF HandlerError, At
<1>7. ASSUME NEW q \in Requests,
             \/ Send(q) \/ StartRefused(q) \/ StartLookup(q)
             \/ HandleGetRun(q) \/ Hangup(q)
      PROVE  UNCHANGED storeVars
  BY <1>7 DEF Send, StartRefused, StartLookup, HandleGetRun, Hangup
<1>8. CASE WorkersGoOn
  BY <1>8 DEF WorkersGoOn, StoreNext
<1>9. CASE UNCHANGED apiVars
  BY <1>9 DEF apiVars, storeVars
<1> QED BY <1>3, <1>5, <1>6, <1>7, <1>8, <1>9 DEF APINext

APIInv == StoreInv /\ RequestsOK

LEMMA APIInitInv == APIInit => APIInv
  BY RequestsInit, StoreInitInv DEF APIInit, APIInv

LEMMA APIStepInv ==
    ASSUME APIInv, [APINext]_apiVars
    PROVE  APIInv'
<1>1. [StoreNext]_storeVars
  BY StoreStepOfAPI DEF APIInv
<1> QED BY <1>1, StoreStepInv, RequestsStep DEF APIInv, StoreInv

(* Rows and requests have their types, however requests overlap.           *)
THEOREM APITypes == APISpec => []APITypeOK
<1>1. APIInit => APIInv
  BY APIInitInv
<1>2. APIInv /\ [APINext]_apiVars => APIInv'
  BY APIStepInv
<1>3. APIInv => APITypeOK
  BY DEF APIInv, APITypeOK, StoreInv, RequestsOK
<1> QED BY <1>1, <1>2, <1>3, PTL DEF APISpec

(* The API implements the store's specification, so each of the store's    *)
(* theorems holds under any traffic of requests.                           *)
THEOREM APIRefinesStore == APISpec => APIImplementsStore
<1>1. APIInit => StoreInit /\ APIInv
  BY APIInitInv DEF APIInit
<1>2. APIInv /\ [APINext]_apiVars => APIInv' /\ [StoreNext]_storeVars
  BY APIStepInv, StoreStepOfAPI DEF APIInv
<1> QED BY <1>1, <1>2, PTL DEF APISpec, APIImplementsStore, StoreSpec

----------------------------------------------------------------------------
(* A run that a cancel was answered for is down.                           *)
CancelledDown ==
    \A q \in Requests : (req[q].op = "cancel" /\ req[q].code = 204) =>
        req[q].run \in Runs /\ runs[req[q].run].status \in Down

(* A step of one request's handler, or of its client.                      *)
Handles(p) ==
    \/ Send(p) \/ StartRefused(p) \/ StartLookup(p) \/ StartInsert(p)
    \/ HandleGetRun(p) \/ HandleCancelRun(p)
    \/ HandleReplayDeadLetter(p) \/ HandlerError(p) \/ Hangup(p)

LEMMA OtherRequests ==
    ASSUME NEW q \in Requests, NEW p \in Requests, p # q, Handles(p),
           req \in [Requests -> Request]
    PROVE  req'[q] = req[q]
<1> USE DEF Answer, AnswerRun, GoTo
<1>1. CASE Send(p)
  BY <1>1 DEF Send
<1>2. CASE StartRefused(p) \/ StartLookup(p) \/ StartInsert(p)
  BY <1>2 DEF StartRefused, StartLookup, StartInsert
<1>3. CASE HandleGetRun(p)
  BY <1>3 DEF HandleGetRun
<1>4. CASE HandleCancelRun(p) \/ HandleReplayDeadLetter(p)
  BY <1>4 DEF HandleCancelRun, HandleReplayDeadLetter
<1>5. CASE HandlerError(p) \/ Hangup(p)
  BY <1>5 DEF HandlerError, Hangup
<1> QED BY <1>1, <1>2, <1>3, <1>4, <1>5 DEF Handles

(* A request changes by a step of its own handler only, which is 204 for a *)
(* cancel by handleCancelRun alone.                                        *)
LEMMA CancelAnswered ==
    ASSUME RequestsOK, [APINext]_apiVars, NEW q \in Requests,
           req'[q].op = "cancel", req'[q].code = 204
    PROVE  req'[q] = req[q] \/ HandleCancelRun(q)
<1> USE DEF Answer, AnswerRun, GoTo, At
<1>0. req \in [Requests -> Request] /\ req[q] \in Request
  BY DEF RequestsOK
<1>1. ASSUME NEW p \in Requests, p # q, Handles(p)
      PROVE  req'[q] = req[q]
  BY <1>0, <1>1, OtherRequests
<1>2. ASSUME req[q].stage # "done" PROVE req[q].code = 0
  BY <1>2 DEF RequestsOK, RequestOK
<1>3. ~Send(q) /\ ~Hangup(q)
  <2>1. ASSUME Send(q) \/ Hangup(q)
        PROVE  req[q].stage # "done" /\ req'[q].code = req[q].code
    <3>1. CASE Hangup(q)
      BY <1>0, <3>1 DEF Hangup, Request
    <3>2. ASSUME Send(q) PROVE req[q].stage = "idle"
      BY <3>2 DEF Send
    <3>3. ASSUME NEW wf \in Workflows \cup {NULL}, NEW key \in Keys \cup {NULL},
                 req' = [req EXCEPT ![q].wf = wf, ![q].key = key,
                                    ![q].stage = "sent"]
          PROVE  req'[q].code = req[q].code
      BY <1>0, <3>3 DEF Request
    <3>4. ASSUME NEW r \in Runs, NEW i \in Steps,
                 req' = [req EXCEPT ![q].run = r, ![q].step = i,
                                    ![q].stage = "sent"]
          PROVE  req'[q].code = req[q].code
      BY <1>0, <3>4 DEF Request
    <3>5. CASE Send(q)
      <4>1. req'[q].code = req[q].code
        BY <3>3, <3>4, <3>5 DEF Send
      <4> QED BY <3>2, <3>5, <4>1
    <3> QED BY <2>1, <3>1, <3>5
  <2> QED BY <1>2, <2>1
<1>4. ~StartRefused(q) /\ ~StartLookup(q) /\ ~StartInsert(q)
  BY <1>0 DEF StartRefused, StartLookup, StartInsert, Request
<1>5. ~HandleGetRun(q)
  BY <1>0 DEF HandleGetRun, Request
<1>6. ~HandleReplayDeadLetter(q)
  BY <1>0 DEF HandleReplayDeadLetter, Request
<1>7. ~HandlerError(q)
  BY <1>0 DEF HandlerError, Request
<1> HIDE DEF Answer, AnswerRun, GoTo, At
<1> QED
  BY <1>1, <1>3, <1>4, <1>5, <1>6, <1>7 DEF APINext, Handles, WorkersGoOn, apiVars

LEMMA CancelledDownStep ==
    ASSUME APIInv, APIInv', CancelledDown, [APINext]_apiVars
    PROVE  CancelledDown'
<1> SUFFICES ASSUME NEW q \in Requests,
                    req'[q].op = "cancel", req'[q].code = 204
             PROVE  req'[q].run \in Runs /\ runs'[req'[q].run].status \in Down
  BY DEF CancelledDown
<1>0. /\ StoreInv /\ StoreInv' /\ RequestsOK
      /\ req \in [Requests -> Request] /\ req[q] \in Request
  BY DEF APIInv, RequestsOK
<1>1. CASE req'[q] = req[q]
  BY <1>0, <1>1, DownStays, StoreStepOfAPI DEF CancelledDown
<1>2. CASE HandleCancelRun(q)
  <2>1. req[q].run \in Runs
    BY <1>0, <1>2 DEF HandleCancelRun, At, RequestsOK, RequestOK
  <2>2. req'[q].run = req[q].run
    BY <1>0, <1>2 DEF HandleCancelRun, Answer, Request
  <2>3. CASE CancelRun(req[q].run)
    <3>1. ASSUME NEW r \in Runs, CancelRun(r)
          PROVE  runs'[r].status = "cancelled"
      <4>1. runs \in [Runs -> RunRow]
        BY <1>0 DEF StoreInv, StoreTypeOK
      <4> QED BY <3>1, <4>1 DEF CancelRun, RunRow
    <3> QED BY <2>1, <2>2, <2>3, <3>1 DEF Down
  <2>4. CASE /\ runs[req[q].run].status \notin {"none", "running"}
             /\ UNCHANGED storeVars
    BY <1>0, <2>1, <2>2, <2>4
       DEF storeVars, StoreInv, StoreTypeOK, RunRow, RunStatus, Down
  <2>5. CASE Answer(q, 404)
    BY <1>0, <2>5 DEF Answer, Request
  <2> QED BY <1>2, <2>3, <2>4, <2>5 DEF HandleCancelRun
<1> QED BY <1>0, <1>1, <1>2, CancelAnswered

(* A failed run has something to work on only after its dead task was      *)
(* replayed.                                                               *)
WorkedOnlyIfReplayed ==
    \A r \in Runs : \A i \in Steps :
        (runs[r].status = "failed" /\ tasks[r][i].status \in Outstanding) =>
            ReplayedSince(r)

LEMMA WorkedStepReplayed ==
    ASSUME StoreInv, StoreInv', WorkedOnlyIfReplayed, [StoreNext]_storeVars
    PROVE  WorkedOnlyIfReplayed'
<1> DEFINE S == [type : {"WorkflowFailed", "TaskReplayed"},
                 step : Steps \cup {NoStep}]
<1> SUFFICES ASSUME NEW r \in Runs, NEW i \in Steps,
                    runs'[r].status = "failed",
                    tasks'[r][i].status \in Outstanding
             PROVE  Latest(events'[r], S) = "TaskReplayed"
  BY HistoryOperators DEF WorkedOnlyIfReplayed, ReplayedSince, LatestOf, Latest, Positions
<1>1. ASSUME runs[r].status = "failed", NEW j \in Steps,
             tasks[r][j].status \in Outstanding
      PROVE  Latest(events[r], S) = "TaskReplayed"
  BY <1>1, HistoryOperators DEF WorkedOnlyIfReplayed, ReplayedSince
<1>2. Effect(r) /\ events[r] \in Seq(Event)
  BY RunEffects DEF StoreInv, StoreTypeOK
<1>3. CASE StaysPut(r)
  BY <1>1, <1>3 DEF StaysPut, StandsStill
<1>4. ASSUME NEW j \in Steps, NEW type \in ReturnEvents, ReturnsTask(r, j, type)
      PROVE  Latest(events'[r], S) = "TaskReplayed"
  <2> DEFINE e == Ev(type, j)
  <2>1. e \in Event /\ e.type = type /\ (e \in S <=> type = "TaskReplayed")
    BY EventTypes DEF ReturnEvents, EventType, Ev
  <2>2. events'[r] = Append(events[r], e)
    BY <1>4 DEF ReturnsTask
  <2>3. Latest(events'[r], S) = IF type = "TaskReplayed" THEN "TaskReplayed"
                                ELSE Latest(events[r], S)
    <3> HIDE DEF e, S
    <3> QED BY <1>2, <2>1, <2>2, LatestAppend
  <2>4. CASE type # "TaskReplayed"
    <3>1. tasks[r][j].status \in Outstanding /\ runs[r].status = "failed"
      BY <1>4, <2>4 DEF ReturnsTask, Outstanding
    <3> HIDE DEF S
    <3> QED BY <1>1, <2>3, <3>1
  <2> QED BY <2>3, <2>4
<1>5. ASSUME NEW j \in Steps, NEW p \in Payload, PassesOn(r, j, p)
      PROVE  Latest(events'[r], S) = "TaskReplayed"
  <2> DEFINE e == Ev("ActivityCompleted", j)
             f == Ev("ActivityScheduled", j + 1)
  <2>1. /\ j + 1 \in Steps /\ tasks[r][j].status \in Outstanding
        /\ runs[r].status = "failed"
        /\ events'[r] = Append(Append(events[r], e), f)
    BY <1>5 DEF PassesOn, Outstanding
  <2>2. e \in Event /\ f \in Event /\ e \notin S /\ f \notin S
    BY <2>1, EventTypes DEF EventType, Ev
  <2> HIDE DEF e, f, S
  <2>3. Append(events[r], e) \in Seq(Event)
    BY <1>2, <2>2, AppendProperties
  <2>4. Latest(Append(events[r], e), S) = Latest(events[r], S)
    BY <1>2, <2>2, LatestAppend
  <2>5. Latest(Append(Append(events[r], e), f), S) = Latest(Append(events[r], e), S)
    BY <2>2, <2>3, LatestAppend
  <2> QED BY <1>1, <2>1, <2>4, <2>5
<1>6. ASSUME NEW j \in Steps, FailsRun(r, j) PROVE FALSE
  <2>1. i # j /\ tasks[r][i].status \in Outstanding
    BY <1>6 DEF FailsRun, OtherTasks, Outstanding
  <2>2. WorksOn(r, i) /\ WorksOn(r, j)
    BY <1>6, <2>1, WorkedStep DEF FailsRun, Outstanding
  <2> QED BY <2>1, <2>2 DEF WorksOn
<1> QED
  BY <1>2, <1>3, <1>4, <1>5, <1>6 DEF Effect, StartsRun, FinishesRun, CancelsRun

(* A run for which a cancel was answered with 204 is down for ever, and is *)
(* worked on only as a failed run whose dead task was replayed since.      *)
THEOREM CancelKeepsDown == APISpec => []CancelledStaysDown
<1> DEFINE Inv == APIInv /\ CancelledDown /\ WorkedOnlyIfReplayed
<1>1. APIInit => Inv
  <2>1. APIInit => \A q \in Requests : req[q].code = 0
    BY DEF APIInit
  <2>2. APIInit => WorkedOnlyIfReplayed
    BY DEF APIInit, StoreInit, NoRun, WorkedOnlyIfReplayed
  <2> QED BY <2>1, <2>2, APIInitInv DEF CancelledDown
<1>2. Inv /\ [APINext]_apiVars => Inv'
  <2> SUFFICES ASSUME Inv, [APINext]_apiVars PROVE Inv'
    OBVIOUS
  <2>1. APIInv' /\ CancelledDown'
    BY APIStepInv, CancelledDownStep
  <2>2. [StoreNext]_storeVars /\ StoreInv /\ StoreInv'
    BY <2>1, StoreStepOfAPI DEF APIInv
  <2> QED BY <2>1, <2>2, WorkedStepReplayed
<1>3. Inv => CancelledStaysDown
  <2> SUFFICES ASSUME Inv, NEW q \in Requests,
                      req[q].op = "cancel", req[q].code = 204
               PROVE  /\ runs[req[q].run].status # "running"
                      /\ \A i \in Steps :
                            tasks[req[q].run][i].status \in Outstanding =>
                               /\ runs[req[q].run].status = "failed"
                               /\ ReplayedSince(req[q].run)
    BY DEF CancelledStaysDown
  <2>1. req[q].run \in Runs /\ runs[req[q].run].status \in Down
    BY DEF CancelledDown
  <2>2. ASSUME NEW i \in Steps, tasks[req[q].run][i].status \in Outstanding
        PROVE  runs[req[q].run].status = "failed"
    <3>1. runs[req[q].run].status \in {"running", "failed"}
      BY <2>1, <2>2, WorkedStep DEF WorksOn, Outstanding, APIInv
    <3> QED BY <2>1, <3>1 DEF Down
  <2> QED BY <2>1, <2>2 DEF Down, WorkedOnlyIfReplayed
<1> QED BY <1>1, <1>2, <1>3, PTL DEF APISpec

----------------------------------------------------------------------------
(* An answer read in two statements.  What the run's row showed still fits *)
(* the tasks when they are read, since what it promises of them stays.     *)

LEMMA FitsAtOnce ==
    ASSUME StoreInv, NEW r \in Runs, runs[r].status # "none"
    PROVE  FitTogether(ViewOf(runs[r]), StatusesOf(tasks[r]))
<1>1. /\ ShapeOf(runs[r], tasks[r])
      /\ runs[r] \in RunRow /\ tasks[r] \in [Steps -> TaskRow]
  BY DEF StoreInv, RunShape, StoreTypeOK
<1> DEFINE c == runs[r].current_step
<1>2. /\ c \in Nat /\ c \in Steps
      /\ \A i \in Steps : /\ i \in Nat
                          /\ i < c => tasks[r][i].status = "completed"
                          /\ i > c => tasks[r][i].status = "none"
      /\ TaskFits(runs[r], tasks[r][c])
  <2>1. /\ c \in Nat /\ c < runs[r].total_steps
        /\ runs[r].total_steps = Len(Definition[runs[r].workflow])
        /\ runs[r].workflow \in Workflows
        /\ \A i \in Steps : /\ i < c => tasks[r][i].status = "completed"
                            /\ i > c => tasks[r][i].status = "none"
        /\ TaskFits(runs[r], tasks[r][c])
    BY <1>1 DEF ShapeOf, RunRow, TotalSteps
  <2>2. Len(Definition[runs[r].workflow]) <= MaxSteps /\ MaxSteps \in Nat
        /\ Len(Definition[runs[r].workflow]) \in Nat
    BY <2>1, TypesAssumption
  <2> HIDE DEF c
  <2>3. c \in Steps /\ \A i \in Steps : i \in Nat
    BY <2>1, <2>2 DEF Steps
  <2> QED BY <2>1, <2>3
<1>3. \A i \in Steps : StatusesOf(tasks[r])[i] = tasks[r][i].status
  BY DEF StatusesOf
<1>4. tasks[r][c].status # "none"
  BY <1>2 DEF TaskFits, Outstanding
<1>5. runs[r].status = "completed" =>
         tasks[r][c].status = "completed" /\ runs[r].total_steps - 1 = c
  BY <1>2 DEF TaskFits
<1>6. ASSUME runs[r].status = "cancelled", NEW i \in Steps
      PROVE  tasks[r][i].status \notin Outstanding
  BY <1>2, <1>6 DEF TaskFits, Outstanding
<1> QED
  BY <1>2, <1>3, <1>4, <1>5, <1>6 DEF FitTogether, ViewOf

(* A step that is scheduled stays so, and one that is completed stays so.  *)
LEMMA ProgressStays ==
    ASSUME StoreInv, StoreInv', [StoreNext]_storeVars,
           NEW r \in Runs, NEW i \in Steps
    PROVE  /\ tasks[r][i].status = "completed" => tasks'[r][i].status = "completed"
           /\ tasks[r][i].status # "none" => tasks'[r][i].status # "none"
<1>0. /\ ShapeOf(runs[r], tasks[r]) /\ ShapeOf(runs'[r], tasks'[r])
      /\ runs[r] \in RunRow /\ runs'[r] \in RunRow
      /\ tasks[r] \in [Steps -> TaskRow] /\ tasks'[r] \in [Steps -> TaskRow]
  BY DEF StoreInv, RunShape, StoreTypeOK
<1>1. \/ SameAbove(r)
      \/ StartsAbove(r)
      \/ \E k \in Nat : CompletesAbove(r, k)
      \/ EndsAbove(r)
  <2>1. ASSUME NEW q \in Runs, RunStep(q), q # r PROVE runs'[r] = runs[r]
    BY <2>1, OtherRuns DEF StoreInv
  <2>2. runs' = runs => runs'[r] = runs[r]
    OBVIOUS
  <2> QED BY <2>1, <2>2, SameRow, RunStepAbove, NextByRun
          DEF ReapExpiredLeases, Reclaim, Tick, storeVars
<1>2. DoneIn(tasks[r]) \subseteq DoneIn(tasks'[r])
  <2>1. \A k \in Nat : 0 .. (k - 1) \subseteq 0 .. k
    OBVIOUS
  <2> QED BY <1>1, <2>1 DEF SameAbove, StartsAbove, CompletesAbove, EndsAbove
<1>3. ASSUME tasks[r][i].status # "none" PROVE tasks'[r][i].status # "none"
  <2> DEFINE c == runs[r].current_step
             d == runs'[r].current_step
  <2>1. runs[r].status # "none" /\ runs'[r].status # "none"
        /\ runs'[r].total_steps = runs[r].total_steps
    <3>1. runs[r].status # "none"
      BY <1>0, <1>3 DEF ShapeOf
    <3> QED BY <1>1, <3>1
            DEF SameAbove, StartsAbove, CompletesAbove, EndsAbove
  <2>2. c \in Nat /\ d \in Nat /\ runs[r].total_steps \in Nat
        /\ c < runs[r].total_steps /\ i \in Nat /\ i <= c
    BY <1>0, <1>3, <2>1 DEF ShapeOf, RunRow, Steps
  <2>3. i <= d
    <3>1. CASE runs'[r].status = "completed"
      BY <1>0, <2>1, <2>2, <3>1 DEF ShapeOf, TaskFits
    <3>2. CASE runs'[r].status # "completed"
      <4>1. DoneIn(tasks'[r]) = 0 .. (d - 1)
        BY <1>0, <2>1, <3>2, DoneByShape DEF RunRow, RunStatus
      <4>2. 0 .. (c - 1) \subseteq DoneIn(tasks[r])
        <5>1. \A k \in 0 .. (c - 1) : k \in Steps /\ k < c
          BY <1>0, <2>1, <2>2, TypesAssumption DEF ShapeOf, Steps, TotalSteps
        <5> QED BY <1>0, <2>1, <5>1 DEF ShapeOf, DoneIn
      <4>3. 0 .. (c - 1) \subseteq 0 .. (d - 1)
        BY <1>2, <4>1, <4>2
      <4>4. c = 0 \/ c - 1 \in 0 .. (c - 1)
        BY <2>2
      <4> QED BY <2>2, <4>3, <4>4
    <3> QED BY <3>1, <3>2
  <2>4. /\ i < d => tasks'[r][i].status = "completed"
        /\ tasks'[r][d].status # "none"
    BY <1>0, <2>1 DEF ShapeOf, TaskFits, Outstanding
  <2> QED BY <2>2, <2>3, <2>4
<1> QED BY <1>2, <1>3 DEF DoneIn

LEMMA FitStays ==
    ASSUME StoreInv, StoreInv', [StoreNext]_storeVars, NEW r \in Runs,
           NEW v \in RunView, FitTogether(v, StatusesOf(tasks[r])),
           v.current_step \in Steps, v.total_steps - 1 \in Steps,
           v.status = "cancelled" => runs[r].status = "cancelled"
    PROVE  FitTogether(v, StatusesOf(tasks'[r]))
<1>1. \A i \in Steps : /\ StatusesOf(tasks[r])[i] = tasks[r][i].status
                       /\ StatusesOf(tasks'[r])[i] = tasks'[r][i].status
  BY DEF StatusesOf
<1>2. \A i \in Steps :
         /\ tasks[r][i].status = "completed" => tasks'[r][i].status = "completed"
         /\ tasks[r][i].status # "none" => tasks'[r][i].status # "none"
  BY ProgressStays
<1>3. ASSUME v.status = "cancelled", NEW i \in Steps
      PROVE  tasks'[r][i].status = tasks[r][i].status
  BY <1>3, FrozenByStep DEF FrozenStep, Settled
<1> QED BY <1>1, <1>2, <1>3 DEF FitTogether

(* Between the two reads of a get, the run's row that was read still fits  *)
(* the tasks that are there.                                               *)
ReadFits(x) ==
    /\ x.stage = "tasks" =>
          /\ FitTogether(x.view, StatusesOf(tasks[x.run]))
          /\ x.view.current_step \in Steps /\ x.view.total_steps - 1 \in Steps
          /\ x.view.status = "cancelled" => runs[x.run].status = "cancelled"
    /\ x.code = 200 => FitTogether(x.view, x.tasks)

ReadsFit == \A q \in Requests : req[q].op = "get" => ReadFits(req[q])

(* What a handler can make of a get.                                       *)
LEMMA GetMoves ==
    ASSUME RequestsOK, [APINext]_apiVars, NEW q \in Requests,
           req'[q].op = "get"
    PROVE  \/ req'[q] = req[q]
           \/ req[q].op = "get" /\ HandleGetRun(q)
           \/ req'[q].stage # "tasks" /\ req'[q].code # 200
<1> USE DEF Answer, AnswerRun, GoTo, At
<1>0. req \in [Requests -> Request] /\ req[q] \in Request
  BY DEF RequestsOK
<1>1. ASSUME NEW p \in Requests, p # q, Handles(p)
      PROVE  req'[q] = req[q]
  BY <1>0, <1>1, OtherRequests
<1>2. ASSUME req[q].stage # "done" PROVE req[q].code = 0
  BY <1>2 DEF RequestsOK, RequestOK
<1>3. ASSUME Hangup(q) PROVE req'[q].stage # "tasks" /\ req'[q].code # 200
  <2>1. req[q].stage # "done" /\ req'[q].code = req[q].code
        /\ req'[q].stage = "gone"
    BY <1>0, <1>3 DEF Hangup, Request
  <2> QED BY <1>2, <2>1
<1>4. ASSUME Send(q) PROVE req'[q].stage # "tasks" /\ req'[q].code # 200
  <2>1. req[q].code = 0
    BY <1>2, <1>4 DEF Send
  <2>2. ASSUME NEW wf \in Workflows \cup {NULL}, NEW key \in Keys \cup {NULL},
               req' = [req EXCEPT ![q].wf = wf, ![q].key = key,
                                  ![q].stage = "sent"]
        PROVE  req'[q].code = req[q].code /\ req'[q].stage = "sent"
    BY <1>0, <2>2 DEF Request
  <2>3. ASSUME NEW r \in Runs, NEW i \in Steps,
               req' = [req EXCEPT ![q].run = r, ![q].step = i,
                                  ![q].stage = "sent"]
        PROVE  req'[q].code = req[q].code /\ req'[q].stage = "sent"
    BY <1>0, <2>3 DEF Request
  <2>4. req'[q].code = req[q].code /\ req'[q].stage = "sent"
    BY <1>4, <2>2, <2>3 DEF Send
  <2> QED BY <2>1, <2>4
<1>5. ~StartRefused(q) /\ ~StartLookup(q) /\ ~StartInsert(q)
  BY <1>0 DEF StartRefused, StartLookup, StartInsert, Request
<1>6. ~HandleCancelRun(q) /\ ~HandleReplayDeadLetter(q)
  BY <1>0 DEF HandleCancelRun, HandleReplayDeadLetter, Request
<1>7. ASSUME HandlerError(q) PROVE req'[q].stage # "tasks" /\ req'[q].code # 200
  BY <1>0, <1>7 DEF HandlerError, Request
<1>8. ASSUME HandleGetRun(q) PROVE req[q].op = "get"
  BY <1>8 DEF HandleGetRun
<1> HIDE DEF Answer, AnswerRun, GoTo, At
<1> QED
  BY <1>1, <1>3, <1>4, <1>5, <1>6, <1>7, <1>8
     DEF APINext, Handles, WorkersGoOn, apiVars

LEMMA ReadsFitStep ==
    ASSUME APIInv, APIInv', ReadsFit, [APINext]_apiVars
    PROVE  ReadsFit'
<1> SUFFICES ASSUME NEW q \in Requests, req'[q].op = "get"
             PROVE  ReadFits(req[q])'
  BY DEF ReadsFit
<1>0. /\ StoreInv /\ StoreInv' /\ RequestsOK /\ RequestOK(req[q])
      /\ req \in [Requests -> Request] /\ req[q] \in Request
      /\ [StoreNext]_storeVars
  BY StoreStepOfAPI DEF APIInv, RequestsOK
<1> DEFINE r == req[q].run
<1>1. CASE req'[q] = req[q]
  <2>1. ReadFits(req[q])
    BY <1>1 DEF ReadsFit
  <2>2. ASSUME req[q].stage = "tasks"
        PROVE  /\ FitTogether(req[q].view, StatusesOf(tasks'[r]))
               /\ req[q].view.status = "cancelled" =>
                     runs'[r].status = "cancelled"
    <3>1. r \in Runs /\ req[q].view \in RunView
      BY <1>0, <2>2 DEF RequestOK, Request
    <3>2. FitTogether(req[q].view, StatusesOf(tasks'[r]))
      BY <1>0, <2>1, <2>2, <3>1, FitStays DEF ReadFits
    <3>3. req[q].view.status = "cancelled" => runs'[r].status = "cancelled"
      BY <1>0, <2>1, <2>2, <3>1, FrozenByStep DEF ReadFits, FrozenStep
    <3> QED BY <3>2, <3>3
  <2> QED BY <1>1, <2>1, <2>2 DEF ReadFits
<1>2. CASE req[q].op = "get" /\ HandleGetRun(q)
  <2>1. r \in Runs /\ UNCHANGED storeVars
    BY <1>0, <1>2 DEF HandleGetRun, At, RequestOK
  <2>2. CASE Answer(q, 404)
    <3>1. req'[q].stage = "done" /\ req'[q].code = 404
      BY <1>0, <2>2 DEF Answer, Request
    <3> QED BY <3>1 DEF ReadFits
  <2>3. CASE /\ req[q].stage = "sent" /\ runs[r].status # "none"
             /\ req' = [req EXCEPT ![q].stage = "tasks",
                                   ![q].view = ViewOf(runs[req[q].run])]
    <3>1. /\ req'[q].stage = "tasks" /\ req'[q].view = ViewOf(runs[r])
          /\ req'[q].run = r /\ req'[q].code = 0
      BY <1>0, <2>3 DEF Request, RequestOK
    <3>2. FitTogether(ViewOf(runs[r]), StatusesOf(tasks[r]))
      BY <1>0, <2>1, <2>3, FitsAtOnce
    <3>3. /\ ViewOf(runs[r]).current_step \in Steps
          /\ ViewOf(runs[r]).total_steps - 1 \in Steps
          /\ ViewOf(runs[r]).status = runs[r].status
      <4>1. ShapeOf(runs[r], tasks[r]) /\ runs[r] \in RunRow
        BY <1>0, <2>1 DEF StoreInv, RunShape, StoreTypeOK
      <4>2. /\ runs[r].current_step \in Nat /\ runs[r].total_steps \in Nat
            /\ runs[r].current_step < runs[r].total_steps
            /\ runs[r].workflow \in Workflows
            /\ runs[r].total_steps = TotalSteps(runs[r].workflow)
        BY <2>3, <4>1 DEF ShapeOf, RunRow
      <4>3. runs[r].total_steps <= MaxSteps
        BY <4>2, TypesAssumption DEF TotalSteps
      <4> QED BY <4>2, <4>3, TypesAssumption DEF Steps, ViewOf
    <3> QED BY <2>1, <3>1, <3>2, <3>3 DEF ReadFits, storeVars
  <2>4. CASE /\ req[q].stage = "tasks"
             /\ req' = [req EXCEPT ![q].stage = "done", ![q].code = 200,
                                   ![q].tasks = StatusesOf(tasks[req[q].run])]
    <3>1. /\ req'[q].stage = "done" /\ req'[q].view = req[q].view
          /\ req'[q].tasks = StatusesOf(tasks[r])
      BY <1>0, <2>4 DEF Request
    <3>2. FitTogether(req[q].view, StatusesOf(tasks[r]))
      BY <1>2, <2>4 DEF ReadsFit, ReadFits
    <3> QED BY <3>1, <3>2 DEF ReadFits
  <2> QED BY <1>2, <2>2, <2>3, <2>4 DEF HandleGetRun, At
<1>3. CASE req'[q].stage # "tasks" /\ req'[q].code # 200
  BY <1>3 DEF ReadFits
<1> QED BY <1>0, <1>1, <1>2, <1>3, GetMoves

(* An answer to a get, though read in two statements, fits together for    *)
(* any number of steps, workers and concurrent requests.                   *)
THEOREM AnswersFit == APISpec => []AnswersFitTogether
<1>1. APIInit => APIInv /\ ReadsFit
  <2>1. APIInit => \A q \in Requests : req[q].code = 0 /\ req[q].stage = "idle"
    BY DEF APIInit
  <2> QED BY <2>1, APIInitInv DEF ReadsFit, ReadFits
<1>2. APIInv /\ ReadsFit /\ [APINext]_apiVars => APIInv' /\ ReadsFit'
  BY APIStepInv, ReadsFitStep
<1>3. ReadsFit => AnswersFitTogether
  BY DEF ReadsFit, ReadFits, AnswersFitTogether
<1> QED BY <1>1, <1>2, <1>3, PTL DEF APISpec

----------------------------------------------------------------------------
(* A request changes by its own handler's steps, and is answered by the    *)
(* handler of its operation.                                               *)
LEMMA OwnHandler ==
    ASSUME RequestsOK, [APINext]_apiVars, NEW q \in Requests
    PROVE  req'[q] = req[q] \/ Handles(q)
<1>1. ASSUME NEW p \in Requests, p # q, Handles(p)
      PROVE  req'[q] = req[q]
  BY <1>1, OtherRequests DEF RequestsOK
<1> QED BY <1>1 DEF APINext, Handles, WorkersGoOn, apiVars

LEMMA NotAnswered ==
    ASSUME RequestsOK, NEW q \in Requests, Send(q) \/ Hangup(q)
    PROVE  req'[q].code = 0
<1>0. req \in [Requests -> Request] /\ req[q] \in Request
  BY DEF RequestsOK
<1>1. req[q].code = 0
  BY DEF RequestsOK, RequestOK, Send, Hangup
<1>2. CASE Hangup(q)
  BY <1>0, <1>1, <1>2 DEF Hangup, GoTo, Request
<1>3. ASSUME NEW wf, NEW key,
             req' = [req EXCEPT ![q].wf = wf, ![q].key = key, ![q].stage = "sent"]
      PROVE  req'[q].code = 0
  BY <1>0, <1>1, <1>3 DEF Request
<1>4. ASSUME NEW r, NEW i,
             req' = [req EXCEPT ![q].run = r, ![q].step = i, ![q].stage = "sent"]
      PROVE  req'[q].code = 0
  BY <1>0, <1>1, <1>4 DEF Request
<1> QED BY <1>2, <1>3, <1>4 DEF Send

LEMMA OpKept ==
    ASSUME RequestsOK, NEW q \in Requests, Handles(q)
    PROVE  req'[q].op = req[q].op
<1>0. req \in [Requests -> Request] /\ req[q] \in Request
  BY DEF RequestsOK
<1> USE DEF Answer, AnswerRun, GoTo, Request
<1>a. ASSUME NEW wf, NEW key,
             req' = [req EXCEPT ![q].wf = wf, ![q].key = key, ![q].stage = "sent"]
      PROVE  req'[q].op = req[q].op
  BY <1>0, <1>a
<1>b. ASSUME NEW r, NEW i,
             req' = [req EXCEPT ![q].run = r, ![q].step = i, ![q].stage = "sent"]
      PROVE  req'[q].op = req[q].op
  BY <1>0, <1>b
<1>1. CASE Send(q)
  <2> HIDE DEF Request
  <2> QED BY <1>1, <1>a, <1>b DEF Send
<1>2. CASE StartRefused(q) \/ StartLookup(q) \/ StartInsert(q)
  BY <1>0, <1>2 DEF StartRefused, StartLookup, StartInsert
<1>3. CASE HandleGetRun(q)
  BY <1>0, <1>3 DEF HandleGetRun
<1>4. CASE HandleCancelRun(q) \/ HandleReplayDeadLetter(q)
  BY <1>0, <1>4 DEF HandleCancelRun, HandleReplayDeadLetter
<1>5. CASE HandlerError(q) \/ Hangup(q)
  BY <1>0, <1>5 DEF HandlerError, Hangup
<1> QED BY <1>1, <1>2, <1>3, <1>4, <1>5 DEF Handles

(* A start is answered with a run by the look-up or by the insert.         *)
LEMMA StartAnswered ==
    ASSUME RequestsOK, [APINext]_apiVars, NEW q \in Requests, Started(q)'
    PROVE  req'[q] = req[q] \/ StartLookup(q) \/ StartInsert(q)
<1>0. req \in [Requests -> Request] /\ req[q] \in Request
  BY DEF RequestsOK
<1>1. ASSUME Handles(q)
      PROVE  StartLookup(q) \/ StartInsert(q)
  <2>1. req[q].op = "start" /\ req'[q].code \in {200, 201}
    BY <1>1, OpKept DEF Started
  <2>2. ~Send(q) /\ ~Hangup(q)
    BY <2>1, NotAnswered
  <2>3. ~HandleGetRun(q) /\ ~HandleCancelRun(q) /\ ~HandleReplayDeadLetter(q)
    BY <2>1 DEF HandleGetRun, HandleCancelRun, HandleReplayDeadLetter, At
  <2>4. ~StartRefused(q) /\ ~HandlerError(q)
    BY <1>0, <2>1 DEF StartRefused, HandlerError, Answer, Request
  <2> QED BY <1>1, <2>2, <2>3, <2>4 DEF Handles
<1> QED BY <1>1, OwnHandler

(* A replay is answered with 204 by the handler, in the step in which the  *)
(* task goes back to pending.                                              *)
LEMMA ReplayAnswered ==
    ASSUME RequestsOK, [APINext]_apiVars, NEW q \in Requests,
           req'[q].op = "replay", req'[q].code = 204
    PROVE  \/ req'[q] = req[q]
           \/ /\ HandleReplayDeadLetter(q)
              /\ Replay(req[q].run, req[q].step)
              /\ req'[q].run = req[q].run /\ req'[q].step = req[q].step
<1>0. req \in [Requests -> Request] /\ req[q] \in Request
  BY DEF RequestsOK
<1>1. ASSUME Handles(q)
      PROVE  /\ HandleReplayDeadLetter(q)
             /\ Replay(req[q].run, req[q].step)
             /\ req'[q].run = req[q].run /\ req'[q].step = req[q].step
  <2>1. req[q].op = "replay"
    BY <1>1, OpKept
  <2>2. ~Send(q) /\ ~Hangup(q)
    BY NotAnswered
  <2>3. /\ ~HandleGetRun(q) /\ ~HandleCancelRun(q) /\ ~StartRefused(q)
        /\ ~StartLookup(q) /\ ~StartInsert(q)
    BY <2>1 DEF HandleGetRun, HandleCancelRun, StartRefused, StartLookup,
                StartInsert, At
  <2>4. ~HandlerError(q)
    BY <1>0, <2>1 DEF HandlerError, Answer, Request
  <2>5. HandleReplayDeadLetter(q)
    BY <1>1, <2>2, <2>3, <2>4 DEF Handles
  <2>6. /\ Replay(req[q].run, req[q].step) \/ req'[q].code = 404
        /\ req'[q].run = req[q].run /\ req'[q].step = req[q].step
    BY <1>0, <2>5 DEF HandleReplayDeadLetter, Answer, Request
  <2> QED BY <2>5, <2>6
<1> QED BY <1>1, OwnHandler

----------------------------------------------------------------------------
(* Idempotent starts.                                                      *)
(* A run keeps its key for ever.                                           *)
LEMMA KeysStay ==
    ASSUME StoreInv, [StoreNext]_storeVars, NEW r \in Runs,
           runs[r].status # "none"
    PROVE  /\ runs'[r].status # "none"
           /\ runs'[r].idempotency_key = runs[r].idempotency_key
<1>1. Effect(r)
  BY RunEffects
<1> QED BY <1>1 DEF Effect, StaysPut, ReturnsTask, StartsRun, PassesOn,
                    FinishesRun, FailsRun, CancelsRun, WorksOn

HoldsKey(r, key) ==
    r \in Runs /\ runs[r].status # "none" /\ runs[r].idempotency_key = key

(* A start with a key is answered with the run that holds that key, and    *)
(* two are not told that they created it.                                  *)
StartsKeyed ==
    \A q \in Requests :
        Started(q) /\ req[q].key # NULL => HoldsKey(req[q].run, req[q].key)

OneCreator ==
    \A p, q \in Requests :
        (/\ Started(p) /\ Started(q)
         /\ req[p].code = 201 /\ req[q].code = 201
         /\ req[p].key = req[q].key /\ req[p].key # NULL) => p = q

(* What the two steps that answer a start with a run find and leave.       *)
LEMMA StartLookupFinds ==
    ASSUME RequestsOK, NEW q \in Requests, StartLookup(q), Started(q)',
           req[q].key # NULL
    PROVE  /\ req'[q].key = req[q].key /\ req'[q].code = 200
           /\ runs' = runs
           /\ \E r \in Runs : req'[q].run = r /\ runs[r].idempotency_key = req[q].key
<1>0. req \in [Requests -> Request] /\ req[q] \in Request /\ req[q].code = 0
  BY DEF RequestsOK, RequestOK, StartLookup, At
<1>1. ~GoTo(q, "insert")
  <2>1. ASSUME GoTo(q, "insert") PROVE req'[q].code = 0
    BY <1>0, <2>1 DEF GoTo, Request
  <2> QED BY <2>1 DEF Started
<1>2. PICK r \in Runs : runs[r].idempotency_key = req[q].key /\ AnswerRun(q, 200, r)
  BY <1>1 DEF StartLookup
<1>3. req'[q].key = req[q].key /\ req'[q].code = 200 /\ req'[q].run = r
  BY <1>0, <1>2 DEF AnswerRun, Request
<1> QED BY <1>2, <1>3 DEF StartLookup, storeVars

LEMMA StartInsertMakes ==
    ASSUME StoreInv, RequestsOK, NEW q \in Requests, StartInsert(q), Started(q)'
    PROVE  /\ req'[q].key = req[q].key
           /\ req[q].code = 0
           /\ ~KeyClaimed(req[q].key)
           /\ \E r \in Runs : /\ req'[q].run = r
                              /\ runs'[r].status = "running"
                              /\ runs'[r].idempotency_key = req[q].key
<1>0. req \in [Requests -> Request] /\ req[q] \in Request /\ req[q].code = 0
  BY DEF RequestsOK, RequestOK, StartInsert, At
<1>1. ~Answer(q, 400)
  BY <1>0 DEF Answer, Request, Started
<1>2. PICK r \in Runs : /\ StartWorkflow(r, req[q].wf, req[q].key)
                        /\ AnswerRun(q, 201, r)
  BY <1>1 DEF StartInsert
<1>3. req'[q].key = req[q].key /\ req'[q].run = r
  BY <1>0, <1>2 DEF AnswerRun, Request
<1>4. /\ req[q].wf \in Workflows /\ req[q].key \in Keys \cup {NULL}
  BY <1>0 DEF RequestsOK, RequestOK, StartInsert, At, Request
<1>5. StartsRun(r, req[q].key)
  BY <1>2, <1>4, StartEffect
<1> QED BY <1>0, <1>3, <1>5 DEF StartsRun

LEMMA StartsStep ==
    ASSUME APIInv, KeysHeld, KeyNamesOneRun, StartsKeyed, OneCreator,
           [APINext]_apiVars
    PROVE  StartsKeyed' /\ OneCreator'
<1>0. StoreInv /\ RequestsOK /\ [StoreNext]_storeVars
  BY StoreStepOfAPI DEF APIInv
<1>1. \A r \in Runs : \A key : HoldsKey(r, key) => HoldsKey(r, key)'
  BY <1>0, KeysStay DEF HoldsKey
<1>2. ASSUME NEW q \in Requests, Started(q)', req'[q].key # NULL
      PROVE  HoldsKey(req[q].run, req[q].key)'
  <2>1. CASE req'[q] = req[q]
    <3>1. HoldsKey(req[q].run, req[q].key)
      BY <1>2, <2>1 DEF StartsKeyed, Started
    <3> QED BY <1>1, <2>1, <3>1 DEF HoldsKey
  <2>2. CASE StartLookup(q)
    <3>0. req'[q].key = req[q].key
      BY <1>0, <2>2 DEF StartLookup, AnswerRun, GoTo, RequestsOK, Request
    <3>1. PICK r \in Runs : /\ req'[q].run = r /\ runs' = runs
                            /\ runs[r].idempotency_key = req'[q].key
      BY <1>0, <1>2, <2>2, <3>0, StartLookupFinds
    <3>2. runs[r].status # "none"
      BY <1>2, <3>1 DEF KeysHeld
    <3> QED BY <3>1, <3>2 DEF HoldsKey
  <2>3. CASE StartInsert(q)
    BY <1>0, <1>2, <2>3, StartInsertMakes DEF HoldsKey
  <2> QED BY <1>0, <1>2, <2>1, <2>2, <2>3, StartAnswered
<1>3. StartsKeyed'
  BY <1>2 DEF StartsKeyed
<1>4. ASSUME NEW p \in Requests, NEW q \in Requests, p # q,
             Started(p)', Started(q)', req'[p].code = 201, req'[q].code = 201,
             req'[p].key = req'[q].key, req'[p].key # NULL, StartInsert(q)
      PROVE  FALSE
  <2>1. req'[p] = req[p]
    BY <1>0, <1>4, OtherRequests DEF Handles, RequestsOK
  <2>2. HoldsKey(req[p].run, req[p].key)
    BY <1>4, <2>1 DEF StartsKeyed, Started
  <2>3. req'[q].key = req[q].key /\ ~KeyClaimed(req[q].key)
    BY <1>0, <1>4, StartInsertMakes
  <2> QED BY <1>4, <2>1, <2>2, <2>3 DEF HoldsKey, KeyClaimed
<1>5. ASSUME NEW q \in Requests, Started(q)', req'[q].code = 201,
             req'[q].key # NULL
      PROVE  req'[q] = req[q] \/ StartInsert(q)
  <2>1. ~StartLookup(q) \/ req'[q] = req[q]
    <3>1. ASSUME StartLookup(q) PROVE FALSE
      <4>1. req'[q].key = req[q].key
        BY <1>0, <3>1 DEF StartLookup, AnswerRun, GoTo, RequestsOK, Request
      <4> QED BY <1>0, <1>5, <3>1, <4>1, StartLookupFinds
    <3> QED BY <3>1
  <2> QED BY <1>0, <1>5, <2>1, StartAnswered
<1>6. ASSUME NEW p \in Requests, NEW q \in Requests,
             Started(p)', Started(q)', req'[p].code = 201, req'[q].code = 201,
             req'[p].key = req'[q].key, req'[p].key # NULL
      PROVE  p = q
  <2>1. CASE StartInsert(p) \/ StartInsert(q)
    BY <1>4, <1>6, <2>1
  <2>2. CASE req'[p] = req[p] /\ req'[q] = req[q]
    BY <1>6, <2>2 DEF OneCreator, Started
  <2> QED BY <1>5, <1>6, <2>1, <2>2
<1>7. OneCreator'
  BY <1>6 DEF OneCreator
<1> QED BY <1>3, <1>7

(* However starts with one key overlap, fail and are retried, all that are *)
(* answered with a run are answered with the same run, and at most one is  *)
(* told that it created it.                                                *)
THEOREM StartsAreIdempotent == APISpec => []SameKeySameRun
<1> DEFINE Inv == APIInv /\ KeysHeld /\ KeyNamesOneRun /\ StartsKeyed /\ OneCreator
<1>1. APIInit => Inv
  <2>1. APIInit => KeysHeld /\ KeyNamesOneRun
    BY DEF APIInit, StoreInit, KeysHeld, KeyNamesOneRun, NoRun
  <2>2. APIInit => \A q \in Requests : ~Started(q)
    BY DEF APIInit, Started
  <2> QED BY <2>1, <2>2, APIInitInv DEF StartsKeyed, OneCreator
<1>2. Inv /\ [APINext]_apiVars => Inv'
  <2> SUFFICES ASSUME Inv, [APINext]_apiVars PROVE Inv'
    OBVIOUS
  <2>1. StoreInv /\ [StoreNext]_storeVars
    BY StoreStepOfAPI DEF APIInv
  <2> QED BY <2>1, APIStepInv, KeyStep, StartsStep
<1>3. Inv => SameKeySameRun
  BY DEF SameKeySameRun, StartsKeyed, OneCreator, HoldsKey, KeyNamesOneRun
<1> QED BY <1>1, <1>2, <1>3, PTL DEF APISpec

----------------------------------------------------------------------------
(* Replays.  A history only grows, and a task is dead after a step that    *)
(* found it otherwise only if the step wrote its death.                    *)
LEMMA HistoryGrows ==
    ASSUME NEW s \in Seq(Event), NEW a \in Event, NEW b \in Event, NEW S
    PROVE  /\ Positions(s, S) \subseteq Positions(Append(s, a), S)
           /\ Positions(s, S) \subseteq Positions(Append(Append(s, a), b), S)
<1> DEFINE u == Append(s, a)
<1>1. u \in Seq(Event)
  BY AppendProperties
<1>2. Positions(s, S) \subseteq Positions(u, S)
  BY PositionsAppend
<1> HIDE DEF u
<1>3. Positions(u, S) \subseteq Positions(Append(u, b), S)
  BY <1>1, PositionsAppend
<1> QED BY <1>2, <1>3 DEF u

LEMMA DeathsGrow ==
    ASSUME StoreInv, [StoreNext]_storeVars, NEW r \in Runs, NEW i \in Steps
    PROVE  /\ Deaths(r, i) \subseteq Deaths(r, i)'
           /\ tasks'[r][i].status = "dead" /\ tasks[r][i].status # "dead" =>
                 \E k : k \in Deaths(r, i)' /\ k \notin Deaths(r, i)
<1> DEFINE s == events[r]
           S == {Ev("ActivityDeadLettered", i)}
           Ends == \E k : k \in Positions(events'[r], S) /\ k \notin Positions(s, S)
<1>0. /\ s \in Seq(Event)
      /\ Deaths(r, i) = Positions(s, S)
      /\ Deaths(r, i)' = Positions(events'[r], S)
  BY DEF Deaths, Positions, StoreInv, StoreTypeOK
<1>1. Effect(r)
  BY RunEffects
<1>2. ASSUME NEW a \in EventType, NEW j \in Steps \cup {NoStep},
             NEW b \in EventType, NEW k \in Steps \cup {NoStep},
             \/ events'[r] = Append(s, Ev(a, j))
             \/ events'[r] = Append(Append(s, Ev(a, j)), Ev(b, k))
      PROVE  Positions(s, S) \subseteq Positions(events'[r], S)
  <2>1. Ev(a, j) \in Event /\ Ev(b, k) \in Event
    BY EventTypes
  <2> HIDE DEF s, S
  <2> QED BY <1>0, <1>2, <2>1, HistoryGrows
<1>3. CASE StaysPut(r)
  BY <1>0, <1>3 DEF StaysPut, StandsStill, Outstanding
<1>4. ASSUME NEW k \in Steps, NEW type \in ReturnEvents, ReturnsTask(r, k, type)
      PROVE  /\ Positions(s, S) \subseteq Positions(events'[r], S)
             /\ tasks'[r][i].status = "dead" => tasks[r][i].status = "dead"
  <2>1. type \in EventType /\ NoStep \in Steps \cup {NoStep}
    BY DEF ReturnEvents, EventType
  <2>2. events'[r] = Append(s, Ev(type, k))
    BY <1>4 DEF ReturnsTask
  <2>3. tasks'[r][i].status = "dead" => tasks[r][i].status = "dead"
    BY <1>4 DEF ReturnsTask, OtherTasks
  <2> HIDE DEF s, S
  <2> QED BY <1>2, <2>1, <2>2, <2>3
<1>5. ASSUME NEW key \in Keys \cup {NULL}, StartsRun(r, key)
      PROVE  /\ Positions(s, S) \subseteq Positions(events'[r], S)
             /\ tasks'[r][i].status = "dead" => tasks[r][i].status = "dead"
  <2>1. "WorkflowStarted" \in EventType /\ "ActivityScheduled" \in EventType
    BY DEF EventType
  <2>2. tasks'[r][i].status = "dead" => tasks[r][i].status = "dead"
    BY <1>5 DEF StartsRun, OtherTasks
  <2>3. /\ events'[r] = Append(Append(s, Ev("WorkflowStarted", NoStep)),
                               Ev("ActivityScheduled", 0))
        /\ 0 \in Steps
    BY <1>5 DEF StartsRun
  <2> HIDE DEF s, S
  <2> QED BY <1>2, <2>1, <2>2, <2>3
<1>6. ASSUME NEW k \in Steps, NEW p \in Payload,
             PassesOn(r, k, p) \/ FinishesRun(r, k, p)
      PROVE  /\ Positions(s, S) \subseteq Positions(events'[r], S)
             /\ tasks'[r][i].status = "dead" => tasks[r][i].status = "dead"
  <2>1. /\ "ActivityCompleted" \in EventType /\ "ActivityScheduled" \in EventType
        /\ "WorkflowCompleted" \in EventType
    BY DEF EventType
  <2>2. tasks'[r][i].status = "dead" => tasks[r][i].status = "dead"
    BY <1>6 DEF PassesOn, FinishesRun, OtherTasks
  <2>3. \/ /\ events'[r] = Append(Append(s, Ev("ActivityCompleted", k)),
                                  Ev("ActivityScheduled", k + 1))
           /\ k + 1 \in Steps
        \/ events'[r] = Append(Append(s, Ev("ActivityCompleted", k)),
                               Ev("WorkflowCompleted", NoStep))
    BY <1>6 DEF PassesOn, FinishesRun
  <2> HIDE DEF s, S
  <2> QED BY <1>2, <2>1, <2>2, <2>3
<1>7. ASSUME NEW k \in Steps, FailsRun(r, k)
      PROVE  /\ Positions(s, S) \subseteq Positions(events'[r], S)
             /\ tasks'[r][i].status = "dead" /\ tasks[r][i].status # "dead" => Ends
  <2>1. "ActivityDeadLettered" \in EventType /\ "WorkflowFailed" \in EventType
    BY DEF EventType
  <2> DEFINE e == Ev("ActivityDeadLettered", k)
             f == Ev("WorkflowFailed", NoStep)
  <2>2. e \in Event /\ f \in Event
    BY <2>1, EventTypes
  <2>3. events'[r] = Append(Append(s, e), f)
    BY <1>7 DEF FailsRun
  <2>4. Positions(s, S) \subseteq Positions(events'[r], S)
    <3> HIDE DEF s, S, e, f
    <3> QED BY <1>0, <2>2, <2>3, HistoryGrows
  <2>5. ASSUME tasks'[r][i].status = "dead", tasks[r][i].status # "dead"
        PROVE  Ends
    <3>1. k = i
      BY <1>7, <2>5 DEF FailsRun, OtherTasks
    <3>2. e \in S
      BY <3>1
    <3> DEFINE u == Append(s, e)
    <3> HIDE DEF s, S, e, f
    <3>3. /\ u \in Seq(Event)
          /\ Positions(u, S) = Positions(s, S) \cup {Len(s) + 1}
      BY <1>0, <2>2, <3>2, PositionsAppend, AppendProperties
    <3>4. events'[r] = Append(u, f)
      BY <2>3
    <3> HIDE DEF u
    <3>5. Positions(u, S) \subseteq Positions(Append(u, f), S)
      BY <2>2, <3>3, HistoryGrows
    <3>6. Positions(s, S) \subseteq 1 .. Len(s) /\ Len(s) \in Nat
      BY <1>0, <2>2, PositionsAppend
    <3>7. Len(s) + 1 \notin Positions(s, S)
      BY <3>6
    <3> QED BY <3>3, <3>4, <3>5, <3>7
  <2> QED BY <2>4, <2>5
<1>8. ASSUME CancelsRun(r)
      PROVE  /\ Positions(s, S) \subseteq Positions(events'[r], S)
             /\ tasks'[r][i].status = "dead" => tasks[r][i].status = "dead"
  <2>1. "WorkflowCancelled" \in EventType /\ NoStep \in Steps \cup {NoStep}
    BY DEF EventType
  <2>2. events'[r] = Append(s, Ev("WorkflowCancelled", NoStep))
    BY <1>8 DEF CancelsRun
  <2>3. tasks'[r][i].status = "dead" => tasks[r][i].status = "dead"
    BY <1>8 DEF CancelsRun, Outstanding
  <2> HIDE DEF s, S
  <2> QED BY <1>2, <2>1, <2>2, <2>3
<1> HIDE DEF s, S
<1> QED BY <1>0, <1>1, <1>3, <1>4, <1>5, <1>6, <1>7, <1>8 DEF Effect

(* The replays accepted for a task, and the one a dead task still has      *)
(* coming, are at most its deaths.                                         *)
Coming(t) == IF t.status = "dead" THEN 1 ELSE 0

ReplaysFor(r, i) ==
    /\ IsFiniteSet(AcceptedReplays(r, i))
    /\ Cardinality(AcceptedReplays(r, i)) + Coming(tasks[r][i])
          <= Cardinality(Deaths(r, i))

LEMMA PositionsFinite ==
    ASSUME NEW s \in Seq(Event), NEW S
    PROVE  IsFiniteSet(Positions(s, S)) /\ Cardinality(Positions(s, S)) \in Nat
<1>1. Positions(s, S) \subseteq 1 .. Len(s) /\ Len(s) \in Nat
  BY DEF Positions
<1>2. IsFiniteSet(1 .. Len(s))
  BY <1>1, FS_Interval
<1>3. IsFiniteSet(Positions(s, S))
  BY <1>1, <1>2, FS_Subset
<1> QED BY <1>3, FS_CardinalityType

LEMMA DeathsFinite ==
    ASSUME StoreTypeOK, NEW r \in Runs, NEW i \in Steps
    PROVE  IsFiniteSet(Deaths(r, i)) /\ Cardinality(Deaths(r, i)) \in Nat
<1>1. events[r] \in Seq(Event)
  BY DEF StoreTypeOK
<1>2. Deaths(r, i) = Positions(events[r], {Ev("ActivityDeadLettered", i)})
  BY DEF Deaths, Positions
<1> QED BY <1>1, <1>2, PositionsFinite

(* A step accepts no replay of the task, or one and then replays it.       *)
LEMMA AcceptedStep ==
    ASSUME RequestsOK, [APINext]_apiVars, NEW r \in Runs, NEW i \in Steps
    PROVE  \/ AcceptedReplays(r, i)' \subseteq AcceptedReplays(r, i)
           \/ /\ Replay(r, i)
              /\ \E q : AcceptedReplays(r, i)' \subseteq AcceptedReplays(r, i) \cup {q}
<1>1. CASE \A q \in Requests : q \in AcceptedReplays(r, i)' => req'[q] = req[q]
  BY <1>1 DEF AcceptedReplays
<1>2. CASE \E q \in Requests : q \in AcceptedReplays(r, i)' /\ req'[q] # req[q]
  <2>1. PICK q \in Requests : q \in AcceptedReplays(r, i)' /\ req'[q] # req[q]
    BY <1>2
  <2>2. HandleReplayDeadLetter(q) /\ Replay(r, i)
    BY <2>1, ReplayAnswered DEF AcceptedReplays
  <2>3. \A p \in Requests : p # q => req'[p] = req[p]
    BY <2>2, OtherRequests DEF Handles, RequestsOK
  <2>4. AcceptedReplays(r, i)' \subseteq AcceptedReplays(r, i) \cup {q}
    BY <2>3 DEF AcceptedReplays
  <2> QED BY <2>2, <2>4
<1> QED BY <1>1, <1>2

LEMMA ReplaysStep ==
    ASSUME APIInv, [APINext]_apiVars, NEW r \in Runs, NEW i \in Steps,
           ReplaysFor(r, i)
    PROVE  ReplaysFor(r, i)'
<1> DEFINE A == AcceptedReplays(r, i)
           B == AcceptedReplays(r, i)'
           D == Deaths(r, i)
           E == Deaths(r, i)'
           t == tasks[r][i]
           u == tasks'[r][i]
<1>0. StoreInv /\ RequestsOK /\ [StoreNext]_storeVars /\ StoreTypeOK /\ StoreTypeOK'
  BY StoreStepOfAPI, StoreStepInv DEF APIInv, StoreInv
<1>1. /\ IsFiniteSet(A) /\ Cardinality(A) \in Nat
      /\ Cardinality(A) + Coming(t) <= Cardinality(D)
  BY FS_CardinalityType DEF ReplaysFor
<1>2. /\ IsFiniteSet(D) /\ Cardinality(D) \in Nat
      /\ IsFiniteSet(E) /\ Cardinality(E) \in Nat
  <2>1. events'[r] \in Seq(Event)
    BY <1>0 DEF StoreTypeOK
  <2>2. E = Positions(events'[r], {Ev("ActivityDeadLettered", i)})
    BY DEF Deaths, Positions
  <2>3. IsFiniteSet(E) /\ Cardinality(E) \in Nat
    BY <2>1, <2>2, PositionsFinite
  <2>4. IsFiniteSet(D) /\ Cardinality(D) \in Nat
    BY <1>0, DeathsFinite
  <2> QED BY <2>3, <2>4
<1>3. /\ D \subseteq E
      /\ u.status = "dead" /\ t.status # "dead" => \E k : k \in E /\ k \notin D
  BY <1>0, DeathsGrow
<1>4. Cardinality(D) + Coming(u) <= Cardinality(E) + Coming(t)
  <2> HIDE DEF D, E, t, u
  <2>1. Cardinality(D) <= Cardinality(E)
    BY <1>2, <1>3, FS_Subset
  <2>2. CASE u.status = "dead" /\ t.status # "dead"
    <3>1. Cardinality(D) # Cardinality(E)
      BY <1>2, <1>3, <2>2, FS_Subset
    <3> QED BY <1>2, <2>1, <2>2, <3>1 DEF Coming
  <2>3. CASE u.status # "dead" \/ t.status = "dead"
    BY <1>2, <2>1, <2>3 DEF Coming
  <2> QED BY <2>2, <2>3
<1>5. CASE B \subseteq A
  <2> HIDE DEF A, B, D, E, t, u
  <2>1. IsFiniteSet(B) /\ Cardinality(B) \in Nat /\ Cardinality(B) <= Cardinality(A)
    BY <1>1, <1>5, FS_Subset, FS_CardinalityType
  <2>2. Coming(t) \in 0 .. 1 /\ Coming(u) \in 0 .. 1
    BY DEF Coming
  <2>3. Cardinality(B) + Coming(u) <= Cardinality(E)
    BY <1>1, <1>2, <1>4, <2>1, <2>2
  <2> QED BY <2>1, <2>3 DEF ReplaysFor, A, B, D, E, t, u
<1>6. ASSUME Replay(r, i), NEW q, B \subseteq A \cup {q}
      PROVE  ReplaysFor(r, i)'
  <2>1. t.status = "dead"
    BY <1>6 DEF Replay, ReplayDeadLetter
  <2>2. u.status # "dead"
    <3>1. t \in TaskRow /\ tasks' = [tasks EXCEPT ![r][i] = Requeued(t)]
      BY <1>0, <1>6 DEF Replay, ReplayDeadLetter, StoreTypeOK
    <3>2. Requeued(t).status = "pending"
      BY <3>1, RowStatus
    <3>3. u = Requeued(t)
      <4> HIDE DEF t
      <4> QED BY <1>0, <3>1 DEF StoreTypeOK
    <3> QED BY <3>2, <3>3
  <2>3. Coming(t) = 1 /\ Coming(u) = 0
    BY <2>1, <2>2 DEF Coming
  <2> HIDE DEF A, B, D, E, t, u
  <2>4. /\ IsFiniteSet(A \cup {q})
        /\ Cardinality(A \cup {q}) \in Nat
        /\ Cardinality(A \cup {q}) <= Cardinality(A) + 1
    <3>1. /\ IsFiniteSet(A \cup {q})
          /\ Cardinality(A \cup {q}) =
                IF q \in A THEN Cardinality(A) ELSE Cardinality(A) + 1
      BY <1>1, FS_AddElement
    <3> QED BY <1>1, <3>1
  <2>5. /\ IsFiniteSet(B) /\ Cardinality(B) \in Nat
        /\ Cardinality(B) <= Cardinality(A \cup {q})
    BY <1>6, <2>4, FS_Subset, FS_CardinalityType
  <2>6. Cardinality(D) <= Cardinality(E)
    BY <1>2, <1>3, FS_Subset
  <2>7. Cardinality(B) + Coming(u) <= Cardinality(E)
    BY <1>1, <1>2, <2>3, <2>4, <2>5, <2>6
  <2> QED BY <2>5, <2>7 DEF ReplaysFor, A, B, D, E, t, u
<1> QED BY <1>0, <1>5, <1>6, AcceptedStep

(* Replays of a dead task that race or are retried are accepted at most    *)
(* once for each time the task died, also when an answer is lost after the *)
(* transaction committed.                                                  *)
THEOREM ReplaysAreNotRepeated == APISpec => []OneReplayPerDeath
<1> DEFINE Inv == APIInv /\ \A r \in Runs : \A i \in Steps : ReplaysFor(r, i)
<1>1. APIInit => Inv
  <2> SUFFICES ASSUME APIInit PROVE \A r \in Runs : \A i \in Steps : ReplaysFor(r, i)
    BY APIInitInv
  <2>1. APIInv
    BY APIInitInv
  <2>2. ASSUME NEW r \in Runs, NEW i \in Steps PROVE ReplaysFor(r, i)
    <3>1. AcceptedReplays(r, i) = {}
      BY DEF AcceptedReplays, APIInit
    <3>2. IsFiniteSet({}) /\ Cardinality({}) = 0
      BY FS_EmptySet
    <3>3. Coming(tasks[r][i]) = 0
      BY DEF APIInit, StoreInit, NoTask, Coming
    <3>4. Cardinality(Deaths(r, i)) \in Nat
      BY <2>1, DeathsFinite DEF APIInv, StoreInv
    <3> QED BY <3>1, <3>2, <3>3, <3>4 DEF ReplaysFor
  <2> QED BY <2>2
<1>2. Inv /\ [APINext]_apiVars => Inv'
  BY APIStepInv, ReplaysStep
<1>3. Inv => OneReplayPerDeath
  <2> SUFFICES ASSUME Inv, NEW r \in Runs, NEW i \in Steps
               PROVE  Cardinality(AcceptedReplays(r, i)) <= Cardinality(Deaths(r, i))
    BY DEF OneReplayPerDeath
  <2>1. /\ Cardinality(AcceptedReplays(r, i)) \in Nat
        /\ Cardinality(Deaths(r, i)) \in Nat
    BY DeathsFinite, FS_CardinalityType DEF ReplaysFor, APIInv, StoreInv
  <2>2. Coming(tasks[r][i]) \in 0 .. 1
    BY DEF Coming
  <2> QED BY <2>1, <2>2 DEF ReplaysFor
<1> QED BY <1>1, <1>2, <1>3, PTL DEF APISpec

=============================================================================
