------------------------- MODULE DuraflowDashboard -------------------------
(***************************************************************************)
(* The dashboard's page of one run (dashboard/app/runs/[id]/page.tsx) in a *)
(* browser, while workers, reapers and other clients go on with the store. *)
(*                                                                         *)
(* A load asks for the run and for its history at once; the server answers *)
(* the first with two statements.  What a load found is put on the page in *)
(* one step, when both answers are in (the history is left out: waiting    *)
(* for its answer is the time between a load's last read and its end).     *)
(* The interval starts a load whether or not the one before it has ended,  *)
(* so loads overlap, and may end in any order.                             *)
(*                                                                         *)
(* The overview and the dead-letter page have the same loads, with a start *)
(* or a replay in the place of the cancel.                                 *)
(***************************************************************************)
EXTENDS DuraflowStore

CONSTANTS
    Loads,         \* bound: loads under way at one time
    MaxFailures    \* bound: requests of the page that fail

ASSUME DashboardAssumption == MaxFailures \in Nat /\ NULL \notin Runs

VARIABLES
    page,          \* the page's state variables
    load,          \* load[l]: a call of load() and what it has read
    failures       \* requests that failed so far

dashboardVars == <<runs, tasks, events, page, load, failures>>

(* What the page shows of a run and of its tasks.                          *)
ViewOf(r) == [status |-> runs[r].status, current_step |-> runs[r].current_step,
              total_steps |-> runs[r].total_steps]

StatusesOf(r) == [i \in Steps |-> tasks[r][i].status]

(* phase: "closed", "loading" (nothing shown yet), "loaded".  cancelling:  *)
(* "no", "asked" (awaiting the cancel), "loading" (awaiting its load).     *)
NoPage == [phase |-> "closed", id |-> NULL, run |-> NULL, tasks |-> NULL,
           error |-> FALSE, cancelling |-> "no", cancelError |-> FALSE]

(* stage: "idle"; "run", "tasks" (what getRun reads next); "read".         *)
NoLoad == [stage |-> "idle", kind |-> "poll", run |-> NULL, tasks |-> NULL]

DashboardInit ==
    /\ StoreInit
    /\ page = NoPage
    /\ load = [l \in Loads |-> NoLoad]
    /\ failures = 0

----------------------------------------------------------------------------
(* load.                                                                   *)
StartLoad(l, kind) ==
    /\ load[l].stage = "idle"
    /\ load' = [load EXCEPT ![l] = [NoLoad EXCEPT !.stage = "run",
                                                  !.kind = kind]]

(* The page is opened from a list that shows the run.                      *)
Open(r) ==
    /\ page.phase = "closed"
    /\ runs[r].status # "none"
    /\ page' = [page EXCEPT !.phase = "loading", !.id = r]
    /\ \E l \in Loads : StartLoad(l, "initial")
    /\ UNCHANGED <<storeVars, failures>>

(* Mutant: the page is polled only as long as it shows a running run.      *)
PollWhileRunning(l) ==
    /\ page.phase # "closed"
    /\ page.run # NULL => page.run.status = "running"
    /\ StartLoad(l, "poll")
    /\ UNCHANGED <<storeVars, page, failures>>

(* The interval.                                                           *)
PollLoad(l) ==
    /\ page.phase # "closed"
    /\ StartLoad(l, "poll")
    /\ UNCHANGED <<storeVars, page, failures>>

(* handleGetRun's two statements.                                          *)
Read(l) ==
    /\ \/ /\ load[l].stage = "run"
          /\ load' = [load EXCEPT ![l].stage = "tasks",
                                  ![l].run = ViewOf(page.id)]
       \/ /\ load[l].stage = "tasks"
          /\ load' = [load EXCEPT ![l].stage = "read",
                                  ![l].tasks = StatusesOf(page.id)]
    /\ UNCHANGED <<storeVars, page, failures>>

(* What follows the end of a load, however it ended: the initial one ends  *)
(* the page's loading, and the one of handleCancel its cancelling.         *)
AfterLoad(pg, kind) ==
    [pg EXCEPT !.phase = IF kind = "initial" THEN "loaded" ELSE @,
               !.cancelling = IF kind = "cancel" THEN "no" ELSE @]

Apply(l) ==
    /\ load[l].stage = "read"
    /\ page' = AfterLoad([page EXCEPT !.run = load[l].run,
                                      !.tasks = load[l].tasks,
                                      !.error = FALSE], load[l].kind)
    /\ load' = [load EXCEPT ![l] = NoLoad]
    /\ UNCHANGED <<storeVars, failures>>

Fails == failures < MaxFailures /\ failures' = failures + 1

(* One of the two requests fails; the answer to the other is ignored.      *)
FailLoad(l) ==
    /\ load[l].stage # "idle"
    /\ Fails
    /\ page' = AfterLoad([page EXCEPT !.error = TRUE], load[l].kind)
    /\ load' = [load EXCEPT ![l] = NoLoad]
    /\ UNCHANGED storeVars

----------------------------------------------------------------------------
(* handleCancel.  The button is there while the page shows a running run.  *)
ClickCancel ==
    /\ page.phase = "loaded" /\ ~page.error
    /\ page.run # NULL /\ page.run.status = "running"
    /\ page.cancelling = "no"
    /\ page' = [page EXCEPT !.cancelling = "asked", !.cancelError = FALSE]
    /\ UNCHANGED <<storeVars, load, failures>>

(* The server's cancel: it does nothing to a run that is not running.      *)
CancelEffect(r) ==
    \/ CancelRun(r)
    \/ runs[r].status # "running" /\ UNCHANGED storeVars

(* Mutant: the load does not wait for the cancel.                          *)
CancelNotAwaited ==
    /\ page.cancelling = "asked"
    /\ page' = [page EXCEPT !.cancelling = "loading"]
    /\ \E l \in Loads : StartLoad(l, "cancel")
    /\ UNCHANGED <<storeVars, failures>>

CancelAnswered ==
    /\ page.cancelling = "asked"
    /\ CancelEffect(page.id)
    /\ page' = [page EXCEPT !.cancelling = "loading"]
    /\ \E l \in Loads : StartLoad(l, "cancel")
    /\ UNCHANGED failures

(* Mutant: an error leaves the button disabled.                            *)
CancelErrorOnly(pg) ==
    [pg EXCEPT !.cancelError = TRUE, !.cancelling = "loading"]

AfterCancelError(pg) ==
    [pg EXCEPT !.cancelError = TRUE, !.cancelling = "no"]

(* The request fails, or takes effect and its answer is lost.              *)
CancelFails ==
    /\ page.cancelling = "asked"
    /\ Fails
    /\ UNCHANGED storeVars \/ CancelEffect(page.id)
    /\ page' = AfterCancelError(page)
    /\ UNCHANGED load

----------------------------------------------------------------------------
LoadStep(l) == Read(l) \/ Apply(l)

DashboardNext ==
    \/ \E r \in Runs : Open(r)
    \/ \E l \in Loads : LoadStep(l) \/ FailLoad(l)
    \/ \E l \in Loads : PollLoad(l)
    \/ ClickCancel \/ CancelAnswered \/ CancelFails
    \/ StoreNext /\ UNCHANGED <<page, load, failures>>

(* The interval fires, requests are answered, answers are handled.  Users  *)
(* need not click, nor the store move.  A cancel waits for a load to be    *)
(* free only because Loads is bounded: hence strong fairness.              *)
DashboardSpec ==
    /\ DashboardInit /\ [][DashboardNext]_dashboardVars
    /\ \A l \in Loads : WF_dashboardVars(LoadStep(l))
    /\ WF_dashboardVars(\E l \in Loads : PollLoad(l))
    /\ SF_dashboardVars(CancelAnswered)

----------------------------------------------------------------------------
(* Properties.                                                             *)

(* When handleCancel ends and the page shows no error, it shows a run that *)
(* is not running, though the cancel may have come too late and other      *)
(* loads are under way.  (A load that had read the run before and ends     *)
(* after it may still bring the old state back, until the next one.)       *)
CancelShown ==
    [][(/\ page.cancelling = "loading" /\ page'.cancelling = "no"
        /\ ~page'.error)
          => page'.run.status # "running"]_dashboardVars

(* The cancel button does not stay disabled, whatever fails.               *)
CancelEnds == page.cancelling # "no" ~> page.cancelling = "no"

(* A run's transactions come to an end; from some moment on the page shows *)
(* the run and its tasks as they are, also when older answers were put on  *)
(* it after newer ones, or an error was.                                   *)
ShowsTheRun ==
    /\ page.phase = "loaded" /\ ~page.error
    /\ page.run = ViewOf(page.id)
    /\ page.tasks = StatusesOf(page.id)

PageConverges == <>[](page.phase = "closed" \/ ShowsTheRun)

=============================================================================
