-------------------------- MODULE DashboardProofs --------------------------
(***************************************************************************)
(* The page keeps to the store's transactions, and what it shows once a    *)
(* cancel has been answered.                                               *)
(***************************************************************************)
EXTENDS DuraflowDashboard, DuraflowStoreProofs

(* What the page and its loads can hold.                                   *)
View == [status : RunStatus, current_step : Nat, total_steps : Nat]

Page == [phase : {"closed", "loading", "loaded"}, id : Runs \cup {NULL},
         run : View \cup {NULL}, tasks : [Steps -> TaskStatus] \cup {NULL},
         error : BOOLEAN, cancelling : {"no", "asked", "loading"},
         cancelError : BOOLEAN]

Load == [stage : {"idle", "run", "tasks", "read"},
         kind : {"initial", "poll", "cancel"},
         run : View \cup {NULL}, tasks : [Steps -> TaskStatus] \cup {NULL}]

(* A page that is open names a run that exists, and only such a page has   *)
(* loads under way or a cancel.                                            *)
PageOK ==
    /\ page \in Page
    /\ load \in [Loads -> Load]
    /\ page.phase # "closed" =>
          page.id \in Runs /\ runs[page.id].status # "none"
    /\ page.phase = "closed" =>
          page.cancelling = "no" /\ \A l \in Loads : load[l].stage = "idle"

(* The load of handleCancel begins when the run is down, and the view it   *)
(* reads shows that.                                                       *)
CancelLoadOK(l) ==
    (load[l].stage # "idle" /\ load[l].kind = "cancel") =>
        /\ runs[page.id].status \in Down
        /\ load[l].stage # "run" => /\ load[l].run \in View
                                    /\ load[l].run.status \in Down

CancelLoadsOK == \A l \in Loads : CancelLoadOK(l)

PageInv == StoreInv /\ PageOK /\ CancelLoadsOK

LEMMA PageInitInv == DashboardInit => PageInv
<1> SUFFICES ASSUME DashboardInit PROVE PageInv
  OBVIOUS
<1>1. StoreInv
  BY StoreInitInv DEF DashboardInit
<1>2. NoPage \in Page
  BY DEF NoPage, Page
<1>3. NoLoad \in Load
  BY DEF NoLoad, Load
<1> QED
  BY <1>1, <1>2, <1>3
     DEF DashboardInit, PageInv, PageOK, CancelLoadsOK, CancelLoadOK, NoPage,
         NoLoad

----------------------------------------------------------------------------
(* The page issues transactions of the store and no others.                *)
LEMMA CancelEffectStep ==
    ASSUME NEW r \in Runs, CancelEffect(r)
    PROVE  [StoreNext]_storeVars
  BY DEF CancelEffect, StoreNext, storeVars

LEMMA StoreStepOfPage ==
    ASSUME PageOK, [DashboardNext]_dashboardVars
    PROVE  [StoreNext]_storeVars
<1>1. CASE CancelAnswered \/ CancelFails
  <2>1. page.cancelling = "asked"
    BY <1>1 DEF CancelAnswered, CancelFails
  <2>2. page.id \in Runs
    BY <2>1 DEF PageOK
  <2> QED
    BY <1>1, <2>2, CancelEffectStep
       DEF CancelAnswered, CancelFails, storeVars
<1>2. CASE \E r \in Runs : Open(r)
  BY <1>2 DEF Open
<1>3. CASE \E l \in Loads : LoadStep(l) \/ FailLoad(l) \/ PollLoad(l)
  BY <1>3 DEF LoadStep, Read, Apply, FailLoad, PollLoad
<1>4. CASE ClickCancel \/ StoreNext
  BY <1>4 DEF ClickCancel
<1>5. CASE UNCHANGED dashboardVars
  BY <1>5 DEF dashboardVars, storeVars
<1> QED BY <1>1, <1>2, <1>3, <1>4, <1>5 DEF DashboardNext

(* A run that exists goes on existing, and one that is down stays down.    *)
LEMMA RunGoesOn ==
    ASSUME PageInv, [DashboardNext]_dashboardVars
    PROVE  /\ StoreInv'
           /\ \A r \in Runs : runs[r].status # "none" => runs'[r].status # "none"
           /\ \A r \in Runs : runs[r].status \in Down => runs'[r].status \in Down
<1>1. [StoreNext]_storeVars /\ StoreInv
  BY StoreStepOfPage DEF PageInv
<1>2. StoreInv'
  BY <1>1, StoreStepInv
<1>3. ASSUME NEW r \in Runs, runs[r].status \in Down
      PROVE  runs'[r].status \in Down
  BY <1>1, <1>2, <1>3, DownStays
<1>4. ASSUME NEW r \in Runs, runs[r].status # "none"
      PROVE  runs'[r].status # "none"
  <2>1. ASSUME NEW q \in Runs, RunStep(q) PROVE runs'[r].status # "none"
    <3>1. CASE q = r
      BY <1>1, <1>2, <1>4, <2>1, <3>1, RunStepAbove
         DEF SameAbove, StartsAbove, CompletesAbove, EndsAbove
    <3>2. CASE q # r
      BY <1>1, <1>4, <2>1, <3>2, OtherRuns DEF StoreInv
    <3> QED BY <3>1, <3>2
  <2>2. CASE runs' = runs
    BY <1>4, <2>2
  <2> QED BY <1>1, <2>1, <2>2, NextByRun DEF ReapExpiredLeases, Reclaim, Tick, storeVars
<1> QED BY <1>2, <1>3, <1>4

----------------------------------------------------------------------------
(* The loads.  A load that another step leaves alone keeps its promise.    *)
LEMMA LoadLeftAlone ==
    ASSUME PageInv, [DashboardNext]_dashboardVars, NEW l \in Loads,
           load'[l] = load[l], page'.id = page.id
    PROVE  CancelLoadOK(l)'
<1> SUFFICES ASSUME load[l].stage # "idle", load[l].kind = "cancel"
             PROVE  /\ runs'[page.id].status \in Down
                    /\ load[l].stage # "run" => /\ load[l].run \in View
                                                /\ load[l].run.status \in Down
  BY DEF CancelLoadOK
<1>1. CancelLoadOK(l) /\ page.id \in Runs
  BY DEF PageInv, PageOK, CancelLoadsOK
<1> QED BY <1>1, RunGoesOn DEF CancelLoadOK

LEMMA IdleLoad == NoLoad \in Load /\ NoLoad.stage = "idle"
  BY DEF NoLoad, Load

LEMMA StartedLoad ==
    ASSUME PageOK, NEW l \in Loads, NEW kind \in {"initial", "poll", "cancel"},
           StartLoad(l, kind)
    PROVE  /\ load' \in [Loads -> Load]
           /\ load'[l].stage = "run" /\ load'[l].kind = kind
           /\ \A m \in Loads : m # l => load'[m] = load[m]
<1> DEFINE new == [NoLoad EXCEPT !.stage = "run", !.kind = kind]
<1>1. new \in Load /\ new.stage = "run" /\ new.kind = kind
  BY DEF NoLoad, Load
<1>2. load' = [load EXCEPT ![l] = new] /\ load \in [Loads -> Load]
  BY DEF StartLoad, PageOK
<1> HIDE DEF new
<1> QED BY <1>1, <1>2

LEMMA ViewType ==
    ASSUME StoreInv, NEW r \in Runs
    PROVE  /\ ViewOf(r) \in View /\ ViewOf(r).status = runs[r].status
           /\ StatusesOf(r) \in [Steps -> TaskStatus]
<1>1. runs[r] \in RunRow
  BY DEF StoreInv, StoreTypeOK
<1>2. \A i \in Steps : tasks[r][i] \in TaskRow
  BY DEF StoreInv, StoreTypeOK
<1> QED BY <1>1, <1>2 DEF ViewOf, StatusesOf, View, RunRow, TaskRow

LEMMA OpenStep ==
    ASSUME PageInv, [DashboardNext]_dashboardVars, NEW r \in Runs, Open(r)
    PROVE  PageOK' /\ CancelLoadsOK'
<1>0. page \in Page /\ PageOK /\ runs' = runs /\ \A l \in Loads : load[l].stage = "idle"
  BY DEF PageInv, PageOK, Open, storeVars
<1>1. PICK l \in Loads : StartLoad(l, "initial")
  BY DEF Open
<1>2. PICK pg : pg = [page EXCEPT !.phase = "loading", !.id = r]
  OBVIOUS
<1>3. /\ pg \in Page /\ pg.phase = "loading" /\ pg.id = r /\ page' = pg
      /\ runs[r].status # "none"
  BY <1>0, <1>2 DEF Page, Open
<1>4. /\ load' \in [Loads -> Load] /\ load'[l].kind = "initial"
      /\ \A m \in Loads : m # l => load'[m] = load[m]
  BY <1>0, <1>1, StartedLoad
<1>5. PageOK'
  BY <1>0, <1>3, <1>4 DEF PageOK
<1>6. ASSUME NEW m \in Loads PROVE CancelLoadOK(m)'
  BY <1>0, <1>4 DEF CancelLoadOK
<1> QED BY <1>5, <1>6 DEF CancelLoadsOK

LEMMA PollStep ==
    ASSUME PageInv, [DashboardNext]_dashboardVars, NEW l \in Loads, PollLoad(l)
    PROVE  PageOK' /\ CancelLoadsOK'
<1>0. PageOK /\ page' = page /\ runs' = runs /\ page.phase # "closed"
  BY DEF PageInv, PollLoad, storeVars
<1>1. /\ load' \in [Loads -> Load] /\ load'[l].kind = "poll"
      /\ \A m \in Loads : m # l => load'[m] = load[m]
  BY <1>0, StartedLoad DEF PollLoad
<1>2. PageOK'
  BY <1>0, <1>1 DEF PageOK
<1>3. ASSUME NEW m \in Loads PROVE CancelLoadOK(m)'
  <2>1. CASE m = l
    BY <1>1, <2>1 DEF CancelLoadOK
  <2>2. CASE m # l
    BY <1>0, <1>1, <2>2, LoadLeftAlone
  <2> QED BY <2>1, <2>2
<1> QED BY <1>2, <1>3 DEF CancelLoadsOK

LEMMA ReadStep ==
    ASSUME PageInv, [DashboardNext]_dashboardVars, NEW l \in Loads, Read(l)
    PROVE  PageOK' /\ CancelLoadsOK'
<1>0. /\ PageOK /\ CancelLoadOK(l) /\ page' = page /\ runs' = runs
      /\ load \in [Loads -> Load] /\ load[l] \in Load
  BY DEF PageInv, PageOK, CancelLoadsOK, Read, storeVars
<1>1. load[l].stage # "idle" /\ page.phase # "closed" /\ page.id \in Runs
  BY <1>0 DEF PageOK, Read
<1>2. PICK v : v = ViewOf(page.id)
  OBVIOUS
<1>3. PICK s : s = StatusesOf(page.id)
  OBVIOUS
<1>4. v \in View /\ v.status = runs[page.id].status /\ s \in [Steps -> TaskStatus]
  BY <1>1, <1>2, <1>3, ViewType DEF PageInv
<1>5. CASE load[l].stage = "run"
  <2>1. PICK x : x = [load[l] EXCEPT !.stage = "tasks", !.run = v]
    OBVIOUS
  <2>2. /\ x \in Load /\ x.stage = "tasks" /\ x.kind = load[l].kind /\ x.run = v
    BY <1>0, <1>4, <2>1 DEF Load
  <2>3. load' = [load EXCEPT ![l] = x]
    BY <1>0, <1>2, <1>5, <2>1 DEF Read
  <2>4. /\ load' \in [Loads -> Load] /\ load'[l] = x
        /\ \A m \in Loads : m # l => load'[m] = load[m]
    BY <1>0, <2>2, <2>3
  <2>5. PageOK'
    BY <1>0, <1>1, <2>4 DEF PageOK
  <2>6. CancelLoadOK(l)'
    BY <1>0, <1>4, <1>5, <2>2, <2>4 DEF CancelLoadOK
  <2> QED BY <1>0, <2>4, <2>5, <2>6, LoadLeftAlone DEF CancelLoadsOK
<1>6. CASE load[l].stage = "tasks"
  <2>1. PICK x : x = [load[l] EXCEPT !.stage = "read", !.tasks = s]
    OBVIOUS
  <2>2. /\ x \in Load /\ x.stage = "read" /\ x.kind = load[l].kind
        /\ x.run = load[l].run
    BY <1>0, <1>4, <2>1 DEF Load
  <2>3. load' = [load EXCEPT ![l] = x]
    BY <1>0, <1>3, <1>6, <2>1 DEF Read
  <2>4. /\ load' \in [Loads -> Load] /\ load'[l] = x
        /\ \A m \in Loads : m # l => load'[m] = load[m]
    BY <1>0, <2>2, <2>3
  <2>5. PageOK'
    BY <1>0, <1>1, <2>4 DEF PageOK
  <2>6. CancelLoadOK(l)'
    BY <1>0, <1>6, <2>2, <2>4 DEF CancelLoadOK
  <2> QED BY <1>0, <2>4, <2>5, <2>6, LoadLeftAlone DEF CancelLoadsOK
<1> QED BY <1>5, <1>6 DEF Read

(* A load ends: what follows it touches neither the run the page is of nor *)
(* the other loads.                                                        *)
LEMMA EndedLoad ==
    ASSUME PageInv, [DashboardNext]_dashboardVars, NEW l \in Loads,
           load[l].stage # "idle", NEW pg \in Page,
           pg.id = page.id, pg.phase # "closed",
           page' = AfterLoad(pg, load[l].kind),
           load' = [load EXCEPT ![l] = NoLoad]
    PROVE  PageOK' /\ CancelLoadsOK'
<1>0. /\ PageOK /\ load \in [Loads -> Load] /\ load[l] \in Load
      /\ page.phase # "closed" /\ page.id \in Runs /\ runs[page.id].status # "none"
  BY DEF PageInv, PageOK
<1>1. page' \in Page /\ page'.id = page.id /\ page'.phase # "closed"
  BY <1>0 DEF AfterLoad, Page, Load
<1>2. /\ load' \in [Loads -> Load] /\ load'[l].stage = "idle"
      /\ \A m \in Loads : m # l => load'[m] = load[m]
  BY <1>0, IdleLoad
<1>3. PageOK'
  BY <1>0, <1>1, <1>2, RunGoesOn DEF PageOK
<1>4. ASSUME NEW m \in Loads PROVE CancelLoadOK(m)'
  <2>1. CASE m = l
    BY <1>2, <2>1 DEF CancelLoadOK
  <2>2. CASE m # l
    BY <1>1, <1>2, <2>2, LoadLeftAlone
  <2> QED BY <2>1, <2>2
<1> QED BY <1>3, <1>4 DEF CancelLoadsOK

LEMMA EndStep ==
    ASSUME PageInv, [DashboardNext]_dashboardVars, NEW l \in Loads,
           Apply(l) \/ FailLoad(l)
    PROVE  PageOK' /\ CancelLoadsOK'
<1>0. /\ page \in Page /\ load[l] \in Load /\ load[l].stage # "idle"
      /\ page.phase # "closed"
      /\ load' = [load EXCEPT ![l] = NoLoad]
  BY DEF PageInv, PageOK, Apply, FailLoad
<1>1. CASE Apply(l)
  <2>1. PICK pg : pg = [page EXCEPT !.run = load[l].run, !.tasks = load[l].tasks,
                                    !.error = FALSE]
    OBVIOUS
  <2>2. pg \in Page /\ pg.id = page.id /\ pg.phase = page.phase
    BY <1>0, <2>1 DEF Page, Load
  <2>3. page' = AfterLoad(pg, load[l].kind)
    BY <1>1, <2>1 DEF Apply
  <2> QED BY <1>0, <2>2, <2>3, EndedLoad
<1>2. CASE FailLoad(l)
  <2>1. PICK pg : pg = [page EXCEPT !.error = TRUE]
    OBVIOUS
  <2>2. pg \in Page /\ pg.id = page.id /\ pg.phase = page.phase
    BY <1>0, <2>1 DEF Page
  <2>3. page' = AfterLoad(pg, load[l].kind)
    BY <1>2, <2>1 DEF FailLoad
  <2> QED BY <1>0, <2>2, <2>3, EndedLoad
<1> QED BY <1>1, <1>2

----------------------------------------------------------------------------
(* The cancel.                                                             *)
LEMMA CancelledOrDown ==
    ASSUME StoreInv, NEW r \in Runs, runs[r].status # "none", CancelEffect(r)
    PROVE  runs'[r].status \in Down
<1>1. runs \in [Runs -> RunRow] /\ runs[r] \in RunRow
  BY DEF StoreInv, StoreTypeOK
<1>2. CASE CancelRun(r)
  BY <1>1, <1>2 DEF CancelRun, RunRow, Down
<1>3. CASE runs[r].status # "running" /\ UNCHANGED storeVars
  BY <1>1, <1>3 DEF storeVars, RunRow, RunStatus, Down
<1> QED BY <1>2, <1>3 DEF CancelEffect

LEMMA AnsweredStep ==
    ASSUME PageInv, [DashboardNext]_dashboardVars, CancelAnswered
    PROVE  PageOK' /\ CancelLoadsOK'
<1>0. /\ StoreInv /\ PageOK /\ page \in Page /\ page.phase # "closed"
      /\ page.id \in Runs /\ runs[page.id].status # "none"
  BY DEF PageInv, PageOK, CancelAnswered
<1>1. PICK l \in Loads : StartLoad(l, "cancel")
  BY DEF CancelAnswered
<1>2. PICK pg : pg = [page EXCEPT !.cancelling = "loading"]
  OBVIOUS
<1>3. page' = pg /\ pg \in Page /\ pg.id = page.id /\ pg.phase = page.phase
  BY <1>0, <1>2 DEF Page, CancelAnswered
<1>4. /\ load' \in [Loads -> Load] /\ load'[l].stage = "run"
      /\ \A m \in Loads : m # l => load'[m] = load[m]
  BY <1>0, <1>1, StartedLoad
<1>5. runs'[page.id].status \in Down
  BY <1>0, CancelledOrDown DEF CancelAnswered
<1>6. PageOK'
  BY <1>0, <1>3, <1>4, RunGoesOn DEF PageOK
<1>7. ASSUME NEW m \in Loads PROVE CancelLoadOK(m)'
  <2>1. CASE m = l
    BY <1>3, <1>4, <1>5, <2>1 DEF CancelLoadOK
  <2>2. CASE m # l
    BY <1>3, <1>4, <2>2, LoadLeftAlone
  <2> QED BY <2>1, <2>2
<1> QED BY <1>6, <1>7 DEF CancelLoadsOK

LEMMA PageOnly ==
    ASSUME PageInv, [DashboardNext]_dashboardVars, load' = load,
           page' \in Page, page'.id = page.id, page'.phase = page.phase,
           page.phase = "closed" => page'.cancelling = "no"
    PROVE  PageOK' /\ CancelLoadsOK'
<1>1. PageOK'
  BY RunGoesOn DEF PageInv, PageOK
<1> QED BY <1>1, LoadLeftAlone DEF CancelLoadsOK

LEMMA ButtonStep ==
    ASSUME PageInv, [DashboardNext]_dashboardVars, ClickCancel \/ CancelFails
    PROVE  PageOK' /\ CancelLoadsOK'
<1>0. page \in Page /\ page.phase # "closed" /\ load' = load
  BY DEF PageInv, PageOK, ClickCancel, CancelFails
<1>1. CASE ClickCancel
  <2>1. PICK pg : pg = [page EXCEPT !.cancelling = "asked", !.cancelError = FALSE]
    OBVIOUS
  <2>2. page' = pg /\ pg \in Page /\ pg.id = page.id /\ pg.phase = page.phase
    BY <1>0, <1>1, <2>1 DEF ClickCancel, Page
  <2> QED BY <1>0, <2>2, PageOnly
<1>2. CASE CancelFails
  <2>1. PICK pg : pg = AfterCancelError(page)
    OBVIOUS
  <2>2. page' = pg /\ pg \in Page /\ pg.id = page.id /\ pg.phase = page.phase
    BY <1>0, <1>2, <2>1 DEF CancelFails, AfterCancelError, Page
  <2> QED BY <1>0, <2>2, PageOnly
<1> QED BY <1>1, <1>2

LEMMA PageStepInv ==
    ASSUME PageInv, [DashboardNext]_dashboardVars
    PROVE  PageInv'
<1>1. ASSUME UNCHANGED <<page, load>> PROVE PageOK' /\ CancelLoadsOK'
  BY <1>1, PageOnly DEF PageInv, PageOK
<1>2. PageOK' /\ CancelLoadsOK'
  BY <1>1, OpenStep, PollStep, ReadStep, EndStep, AnsweredStep, ButtonStep
     DEF DashboardNext, LoadStep, dashboardVars
<1> QED BY <1>2, RunGoesOn DEF PageInv

----------------------------------------------------------------------------
(* Only the end of its own load ends a cancel that was answered.           *)
LEMMA CancelShownStep ==
    ASSUME PageInv, [DashboardNext]_dashboardVars,
           page.cancelling = "loading", page'.cancelling = "no", ~page'.error
    PROVE  page'.run.status # "running"
<1>0. page \in Page
  BY DEF PageInv, PageOK
<1>1. ASSUME NEW l \in Loads, Apply(l) PROVE page'.run.status # "running"
  <2>1. PICK pg : pg = [page EXCEPT !.run = load[l].run, !.tasks = load[l].tasks,
                                    !.error = FALSE]
    OBVIOUS
  <2>2. /\ page' = AfterLoad(pg, load[l].kind) /\ load[l].stage = "read"
        /\ load[l] \in Load
    BY <1>1, <2>1 DEF Apply, PageInv, PageOK
  <2>3. pg \in Page /\ pg.run = load[l].run /\ pg.cancelling = "loading"
    BY <1>0, <2>1, <2>2 DEF Page, Load
  <2>4. /\ page'.run = pg.run
        /\ page'.cancelling = IF load[l].kind = "cancel" THEN "no" ELSE pg.cancelling
    BY <2>2, <2>3 DEF AfterLoad, Page
  <2>5. load[l].kind = "cancel"
    BY <2>3, <2>4
  <2>6. load[l].run.status \in Down
    BY <2>2, <2>5 DEF PageInv, CancelLoadsOK, CancelLoadOK
  <2> QED BY <2>3, <2>4, <2>6 DEF Down
<1>2. ASSUME NEW l \in Loads, FailLoad(l) PROVE FALSE
  <2>1. PICK pg : pg = [page EXCEPT !.error = TRUE]
    OBVIOUS
  <2>2. page' = AfterLoad(pg, load[l].kind) /\ pg \in Page /\ pg.error = TRUE
    BY <1>0, <1>2, <2>1 DEF FailLoad, Page
  <2>3. page'.error = TRUE
    BY <2>2 DEF AfterLoad, Page
  <2> QED BY <2>3
<1>3. ASSUME NEW r \in Runs, Open(r) PROVE FALSE
  BY <1>3 DEF Open, PageInv, PageOK
<1>4. CASE UNCHANGED page
  BY <1>4
<1> QED
  BY <1>1, <1>2, <1>3, <1>4
     DEF DashboardNext, LoadStep, Read, PollLoad, ClickCancel, CancelAnswered,
         CancelFails, dashboardVars

(* When handleCancel ends and the page shows no error, the run it shows is *)
(* not running: its load begins after the server has answered, and a run   *)
(* that is down does not come up again between the load's reads.           *)
THEOREM CancelIsShown == DashboardSpec => CancelShown
<1>1. DashboardInit => PageInv
  BY PageInitInv
<1>2. PageInv /\ [DashboardNext]_dashboardVars => PageInv'
  BY PageStepInv
<1>3. PageInv /\ [DashboardNext]_dashboardVars =>
        [(/\ page.cancelling = "loading" /\ page'.cancelling = "no"
          /\ ~page'.error)
            => page'.run.status # "running"]_dashboardVars
  BY CancelShownStep
<1> QED BY <1>1, <1>2, <1>3, PTL DEF DashboardSpec, CancelShown

=============================================================================
