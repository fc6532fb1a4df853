--------------------------- MODULE WorkflowTypes ---------------------------
(***************************************************************************)
(* The vocabulary of Duraflow (internal/workflow/types.go, and the command *)
(* types of internal/store/store.go): statuses, kinds, event types,        *)
(* workflow definitions, payloads, and the rows the store keeps.           *)
(*                                                                         *)
(* A payload (a JSON document) is abstracted to who produced it: the lease *)
(* owner and the attempt number it was computed under, and its form, which *)
(* is all the database distinguishes: a JSON value, an SQL NULL (a handler *)
(* that returned nil bytes), or bytes that are not JSON.                   *)
(*                                                                         *)
(* Times are relative to now(): a column holds the number of clock units   *)
(* until that instant, so that the state space is finite.                  *)
(***************************************************************************)
EXTENDS Integers, Sequences

CONSTANTS
    NULL,            \* the SQL NULL / Go nil
    Workflows,       \* names of the registered workflow definitions
    Definition,      \* Definition[wf]: the sequence of steps of wf
    MaxSteps,        \* bound: no definition is longer than this
    DefaultRetries,  \* Config.DefaultRetries
    Owners,          \* the worker ids that can appear in leased_by
    Keys             \* idempotency keys clients may send

Step == [timer : Nat, max_attempts : Nat]

Steps == 0 .. (MaxSteps - 1)

ASSUME TypesAssumption ==
    /\ MaxSteps \in Nat \ {0}
    /\ DefaultRetries \in Nat \ {0}
    /\ Definition \in [Workflows -> Seq(Step)]
    /\ \A wf \in Workflows : Len(Definition[wf]) <= MaxSteps
    /\ NULL \notin Int
    /\ NULL \notin Owners
    /\ NULL \notin Workflows
    /\ NULL \notin Keys

TotalSteps(wf) == Len(Definition[wf])

----------------------------------------------------------------------------
(* Statuses.  "none" stands for a row that has not been inserted.          *)
RunStatus == {"none", "running", "completed", "failed", "cancelled"}

TaskStatus == {"none", "pending", "leased", "completed", "failed", "dead",
               "cancelled"}

TaskKind == {"activity", "timer"}

(* The event types the store writes; types.go also names ActivityStarted,  *)
(* ActivityFailed, TimerStarted and TimerFired, which nothing writes.      *)
EventType == {"WorkflowStarted", "ActivityScheduled", "ActivityCompleted",
              "ActivityRetryScheduled", "ActivityDeadLettered",
              "TaskReclaimed", "TaskReplayed", "WorkflowCompleted",
              "WorkflowFailed", "WorkflowCancelled"}

(* A task that still has work to do.                                       *)
Outstanding == {"pending", "leased"}

----------------------------------------------------------------------------
(* Payloads.                                                               *)
Payload == [by : Owners \cup {NULL}, attempt : Nat,
            form : {"json", "null", "invalid"}]

(* A run's input is always JSON: StartWorkflow replaces an absent one by   *)
(* an empty object, and the request decoder rejects anything else.         *)
RunInput == [by |-> NULL, attempt |-> 0, form |-> "json"]

NullPayload == [by |-> NULL, attempt |-> 0, form |-> "null"]

----------------------------------------------------------------------------
(* Rows of the three tables.                                               *)
RunRow == [status : RunStatus, workflow : Workflows \cup {NULL},
           current_step : Nat, total_steps : Nat,
           idempotency_key : Keys \cup {NULL}, result : Payload]

NoRun == [status |-> "none", workflow |-> NULL, current_step |-> 0,
          total_steps |-> 0, idempotency_key |-> NULL,
          result |-> NullPayload]

TaskRow == [status : TaskStatus, kind : TaskKind, attempt : Nat,
            max_attempts : Nat, available_at : Nat,
            lease_expires_at : Int \cup {NULL}, leased_by : Owners \cup {NULL},
            input : Payload, result : Payload]

NoTask == [status |-> "none", kind |-> "activity", attempt |-> 0,
           max_attempts |-> 0, available_at |-> 0, lease_expires_at |-> NULL,
           leased_by |-> NULL, input |-> NullPayload, result |-> NullPayload]

(* step is the step index of the task the event names, or -1 for an event  *)
(* about the run as a whole (task_id NULL).                                *)
NoStep == -1

Event == [type : EventType, step : Steps \cup {NoStep}]

Ev(type, step) == [type |-> type, step |-> step]

----------------------------------------------------------------------------
(* buildTask: the NewTask for step i (0-based) of a definition.  A timer   *)
(* step waits out its duration and is given a single attempt; any other    *)
(* step is due at once.                                                    *)
NewTask == [kind : TaskKind, max_attempts : Nat, available_at : Nat,
            input : Payload]

BuildTask(wf, i, input) ==
    LET s == Definition[wf][i + 1]
    IN  IF s.timer > 0
        THEN [kind |-> "timer", max_attempts |-> 1,
              available_at |-> s.timer, input |-> input]
        ELSE [kind |-> "activity",
              max_attempts |-> IF s.max_attempts <= 0 THEN DefaultRetries
                                                      ELSE s.max_attempts,
              available_at |-> 0, input |-> input]

=============================================================================
