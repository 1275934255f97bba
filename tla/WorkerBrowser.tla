---------------------------- MODULE WorkerBrowser ----------------------------
(***************************************************************************)
(* The one Chrome of a SeleniumWorker and the threads that share it: the   *)
(* worker's loop (jobs, and the refresh of a warm tab while it idles), the *)
(* pool thread that prewarms the browser and preloads the warm tabs when a *)
(* runtime starts, the watchdog timer of every job, the loop thread that   *)
(* reconfigures the warm tabs, and the thread that stops the worker.       *)
(*                                                                         *)
(* Who drives the browser holds `_action_lock`; who starts or ends it      *)
(* holds `_driver_lock`, and only that: a watchdog or a stop closes the    *)
(* browser under whoever drives it.  Starting and quitting Chrome take     *)
(* seconds, so each is two steps with the lock held in between.  A session *)
(* stands for a Chrome process and the webdriver session that drives it;   *)
(* `browsers` are the processes alive, `driver` is what the worker knows.  *)
(*                                                                         *)
(* All warm tabs are of one retailer.  Left out: the snapshots, which take *)
(* a free _action_lock for a moment and change nothing.                    *)
(***************************************************************************)
EXTENDS Naturals, FiniteSets

CONSTANTS
    Jobs,       \* jobs; a job also names its watchdog thread
    Products,   \* products that may get a warm tab
    TargetOf,   \* TargetOf[j]: the product of job j; None: of another retailer
    Sessions,   \* names for Chrome processes, used again when they are free
    None,
    Events,     \* what the environment may do in this instance
    MaxEvents   \* how often it may

EventNames ==
    {"crash",         \* Chrome dies
     "kill_fails",    \* quit and terminate leave a process alive
     "start_fails",   \* webdriver.Chrome raises
     "half_start",    \* Chrome is up, a later step of init_driver raises
     "stop",          \* the dispatcher stops the worker
     "challenge"}     \* a page is a challenge

ASSUME BrowserAssumption ==
    /\ TargetOf \in [Jobs -> Products \cup {None}]
    /\ None \notin Products \cup Sessions \cup Jobs
    /\ Jobs \cap {"worker", "helper", "stopper", "free", "none", "crash"} = {}
    /\ Events \subseteq EventNames
    /\ MaxEvents \in Nat

VARIABLES
    keepAlive,   \* selenium_keep_browser_alive
    browsers,    \* Chrome processes of this worker that are alive
    driver,      \* self.driver
    chromePid,   \* state.chrome_pid: the Chrome that counts as the driver's
    driverLock,  \* the holder of _driver_lock
    actionLock,  \* the holder of _action_lock
    at,          \* where the worker and the helper (pool) thread are
    errand,      \* what each of them is doing there
    job,         \* the job in hand: state.busy and active_worker_action
    served,      \* jobs that were marked finished
    using,       \* the driver the job's handler was given
    result,      \* how the handler ended
    dog,         \* the timer of each job; timed_out is set when it fires
    stopEvent,   \* stop_event
    stopper,     \* the thread in shutdown()
    tabs,        \* _warm_tabs
    load,        \* the WarmTab each thread is loading
    todo,        \* the WarmTabs the preload has still to load
    site,        \* _challenge_access's entry of the retailer
    spent,       \* events the environment has used
    hist         \* history, see Init

vars == <<keepAlive, browsers, driver, chromePid, driverLock, actionLock, at, errand, job, served,
          using, result, dog, stopEvent, stopper, tabs, load, todo, site, spent, hist>>

Workers == {"worker", "helper"}
Owners == Workers \cup {"stopper"} \cup Jobs

browserVars == <<browsers, driver, chromePid, driverLock>>
jobVars == <<job, served, using, result, dog>>
tabVars == <<tabs, load, todo, site>>
stopVars == <<stopEvent, stopper>>

Healthy == driver \in browsers
Busy == job # None
TimedOut(j) == dog[j] \in {"fired", "closing", "done"}

NoTab == [on |-> FALSE, handle |-> None, blocked |-> FALSE, resting |-> FALSE]
NoLoad == [product |-> None, driver |-> None, current |-> TRUE]

Init ==
    /\ keepAlive \in BOOLEAN
    /\ browsers = {} /\ driver = None /\ chromePid = None
    /\ driverLock = "free" /\ actionLock = "free"
    /\ at = [worker |-> "check", helper |-> "off"]
    /\ errand = [worker |-> "none", helper |-> "none"]
    /\ job = None /\ served = {} /\ using = None /\ result = "none"
    /\ dog = [j \in Jobs |-> "none"]
    /\ stopEvent = FALSE /\ stopper = "off"
    /\ tabs = [p \in Products |-> NoTab]
    /\ load = [t \in Workers |-> NoLoad]
    /\ todo = {}
    /\ site = "normal"
    /\ spent = 0
    /\ hist = [cause |-> "none",    \* who ended the browser a handler drives
               overran |-> {},      \* jobs that had timed out when they ended
               unkilled |-> FALSE,  \* some kill failed
               adopted |-> FALSE,   \* a snapshot took a Chrome without a driver for the driver's
               late |-> FALSE,      \* the helper started one after the worker
               unguarded |-> FALSE] \* the handler began after its watchdog's close

Event(name) == name \in Events /\ spent < MaxEvents /\ spent' = spent + 1
Go(t, place) == at' = [at EXCEPT ![t] = place]
GoOn(t, place, what) == Go(t, place) /\ errand' = [errand EXCEPT ![t] = what]

-----------------------------------------------------------------------------
(* Ending and starting Chrome.                                             *)

\* close_driver's finally block: the tabs forget their windows.
Forget == [p \in Products |-> [tabs[p] EXCEPT !.handle = None]]

\* Processes that are to be killed end, or all of them stay.
Kill(who, doomed) ==
    \/ /\ browsers' = browsers \ doomed
       /\ hist' = [hist EXCEPT !.cause = IF using \in doomed \cap browsers THEN who ELSE @]
       /\ UNCHANGED spent
    \/ /\ doomed \cap browsers # {}
       /\ Event("kill_fails")
       /\ hist' = [hist EXCEPT !.unkilled = TRUE]
       /\ UNCHANGED browsers

\* Every Chrome the worker starts carries its marker on the command line and is
\* found by it; an orphan is one that does not count as the driver's.
Orphans == browsers \ {chromePid}

\* close_driver without a driver kills the orphans only, in one step here.
CloseNothing(who) ==
    /\ driver = None /\ driverLock = "free"
    /\ Kill(who, Orphans)
    /\ chromePid' = None
    /\ UNCHANGED <<driver, driverLock>>

CloseBegins(who) ==
    /\ driverLock = "free"
    /\ driver # None
    /\ driverLock' = who
    /\ Kill(who, browsers)
    /\ UNCHANGED <<driver, chromePid>>

CloseEnds(who) ==
    /\ driverLock = who
    /\ driverLock' = "free"
    /\ driver' = None
    /\ chromePid' = None
    /\ tabs' = Forget
    /\ UNCHANGED <<browsers, load, todo, site, spent, hist>>

\* Mutant: what is left of earlier browsers stays.
CloseOldKillsNothing == {}

\* What a start closes first: everything if there was a driver, for that has
\* just been closed, and the orphans otherwise.
CloseOldAppDriverProcesses == IF driver = None THEN Orphans ELSE browsers

\* ensure_driver from an unhealthy driver, and rebuild_driver.
BeginDriver(t) ==
    /\ driverLock = "free"
    /\ driverLock' = t
    /\ driver' = None
    /\ chromePid' = IF driver = None THEN chromePid ELSE None
    /\ tabs' = IF driver = None THEN tabs ELSE Forget
    /\ Kill(t, CloseOldAppDriverProcesses)
    /\ Go(t, "starting")

EnsureDriver(t) ==
    /\ at[t] = "browser"
    /\ \/ /\ Healthy
          /\ driverLock = "free"
          /\ Go(t, "has")
          /\ UNCHANGED <<browserVars, tabs, spent, hist>>
       \/ /\ ~Healthy
          /\ BeginDriver(t)
    /\ UNCHANGED <<keepAlive, actionLock, errand, jobVars, stopVars, load, todo, site>>

\* The names no part of the state holds any more.
FreeSessions ==
    Sessions \ (browsers \cup {driver, using, chromePid} \cup {tabs[p].handle : p \in Products}
                \cup {load[t].driver : t \in Workers})

\* init_driver.  A start can fail on its own account, or because a process
\* that was not killed holds the profile.
InitDriver(t) ==
    /\ at[t] = "starting"
    /\ driverLock' = "free"
    /\ \/ /\ FreeSessions # {}
          /\ LET s == CHOOSE s \in FreeSessions : TRUE IN
             /\ browsers' = browsers \cup {s}
             /\ hist' = [hist EXCEPT !.late = @ \/ (t = "helper" /\ at.worker = "ended")]
             /\ \/ /\ driver' = s
                   /\ chromePid' = s
                   /\ Go(t, "has")
                   /\ UNCHANGED spent
                \/ /\ Event("half_start")
                   /\ Go(t, "failed")
                   /\ UNCHANGED <<driver, chromePid>>
       \/ /\ IF browsers = {} THEN Event("start_fails") ELSE UNCHANGED spent
          /\ Go(t, "failed")
          /\ UNCHANGED <<driver, chromePid, browsers, hist>>
    /\ UNCHANGED <<keepAlive, actionLock, errand, jobVars, stopVars, tabVars>>

\* refresh_lifecycle_snapshot, of the heartbeat: the first Chrome it finds
\* counts as the driver's if none does, and is then no orphan.
RefreshProcessTracking ==
    /\ chromePid = None
    /\ chromePid' \in browsers
    /\ hist' = [hist EXCEPT !.adopted = TRUE]
    /\ UNCHANGED <<keepAlive, browsers, driver, driverLock, actionLock, at, errand, jobVars,
                   stopVars, tabVars, spent>>

Crash ==
    /\ Healthy
    /\ Event("crash")
    /\ browsers' = browsers \ {driver}
    /\ hist' = [hist EXCEPT !.cause = IF using = driver THEN "crash" ELSE @]
    /\ UNCHANGED <<keepAlive, driver, chromePid, driverLock, actionLock, at, errand, jobVars,
                   stopVars, tabVars>>

-----------------------------------------------------------------------------
(* The worker's loop and its jobs.                                         *)

CheckStop ==
    /\ at.worker = "check"
    /\ Go("worker", IF stopEvent THEN "leave" ELSE "idle")
    /\ UNCHANGED <<keepAlive, browserVars, actionLock, errand, jobVars, stopVars, tabVars,
                   spent, hist>>

\* The timer starts with the job: it runs while the job waits for the lock.
TakeJob(j) ==
    /\ at.worker = "idle"
    /\ j \notin served
    /\ job' = j
    /\ dog' = [dog EXCEPT ![j] = "armed"]
    /\ GoOn("worker", "lock", "job")
    /\ UNCHANGED <<keepAlive, browserVars, actionLock, served, using, result, stopVars,
                   tabVars, spent, hist>>

LockForJob ==
    /\ at.worker = "lock"
    /\ actionLock = "free"
    /\ actionLock' = "worker"
    /\ Go("worker", IF Healthy THEN "has" ELSE "browser")
    /\ UNCHANGED <<keepAlive, browserVars, errand, jobVars, stopVars, tabVars, spent, hist>>

\* The retailer's tab of the job, if it has a window.
HasTab(p) == p # None /\ p \in Products /\ tabs[p].on /\ tabs[p].handle # None
SourceBlocked == site \in {"cooling", "cooled", "probing"}

\* The job's handler gets what self.driver is now, be it None.
Drive ==
    /\ using' = driver
    /\ Go("worker", "drive")
    /\ hist' = [hist EXCEPT !.cause = "none", !.unguarded = dog[job] = "done" /\ Healthy]
    /\ UNCHANGED <<actionLock, result>>

\* An exception or the end of the handler: the action lock is released.
HandlerEnds(how) ==
    /\ result' = how
    /\ actionLock' = "free"
    /\ Go("worker", "settle")
    /\ using' = None
    /\ hist' = [hist EXCEPT !.cause = "none", !.unguarded = FALSE]

\* _quarantine_challenged_tab: the retailer cools down when all its registered
\* tabs are challenged.
Quarantine(tabsAfter) ==
    LET registered == {p \in Products : tabsAfter[p].on} IN
    /\ tabs' = tabsAfter
    /\ site' = IF registered # {} /\ \A p \in registered : tabsAfter[p].blocked
               THEN "cooling" ELSE site
Challenged(p) == [tabs EXCEPT ![p].blocked = TRUE, ![p].resting = TRUE]

\* The tab's page may show the button, or no stock, or a challenge; it may be
\* refreshed in between.
UseTab(p) ==
    \/ Drive /\ UNCHANGED <<tabs, site, spent>>
    \/ HandlerEnds("controlled") /\ UNCHANGED <<tabs, site, spent>>
    \/ /\ Event("challenge")
       /\ Quarantine(Challenged(p))
       /\ HandlerEnds("controlled")

StartAction ==
    /\ at.worker = "has" /\ errand.worker = "job"
    /\ LET p == TargetOf[job] IN
       \/ ~HasTab(p) /\ Drive /\ UNCHANGED <<tabs, site, spent>>
       \/ /\ p = None                                      \* a repeated purchase
          /\ HandlerEnds("none")
          /\ UNCHANGED <<tabs, site, spent>>
       \/ /\ HasTab(p) /\ (tabs[p].blocked \/ SourceBlocked)
          /\ HandlerEnds("controlled")
          /\ UNCHANGED <<tabs, site, spent>>
       \/ /\ HasTab(p) /\ ~tabs[p].blocked /\ ~SourceBlocked
          /\ \/ /\ ~Healthy
                /\ Go("worker", "browser")
                /\ UNCHANGED <<using, result, actionLock, tabs, site, spent, hist>>
             \/ /\ Healthy
                /\ tabs[p].handle # driver                   \* stale_handle
                /\ tabs' = [tabs EXCEPT ![p].handle = None]
                /\ Drive
                /\ UNCHANGED <<site, spent>>
             \/ /\ Healthy
                /\ tabs[p].handle = driver
                /\ UseTab(p)
    /\ UNCHANGED <<keepAlive, browserVars, errand, job, served, dog, stopVars, load, todo>>

NoDriver ==
    /\ at.worker = "failed" /\ errand.worker = "job"
    /\ HandlerEnds("failed")
    /\ UNCHANGED <<keepAlive, browserVars, errand, job, served, dog, stopVars, tabVars, spent>>

HandlerReturns ==
    /\ at.worker = "drive"
    /\ using \in browsers
    /\ HandlerEnds("none")
    /\ UNCHANGED <<keepAlive, browserVars, errand, job, served, dog, stopVars, tabVars, spent>>

HandlerRaises ==
    /\ at.worker = "drive"
    /\ \E how \in {"controlled", "failed"} : HandlerEnds(how)
    /\ UNCHANGED <<keepAlive, browserVars, errand, job, served, dog, stopVars, tabVars, spent>>

\* Mutant: the timer is left running.
SettleNoCancel ==
    /\ at.worker = "settle"
    /\ hist' = [hist EXCEPT !.overran = IF TimedOut(job) THEN @ \cup {job} ELSE @]
    /\ Go("worker", "verdict")
    /\ UNCHANGED <<keepAlive, browserVars, actionLock, errand, jobVars, stopVars, tabVars, spent>>

\* timer.cancel() comes too late for a timer that has fired.
Settle ==
    /\ at.worker = "settle"
    /\ dog' = [dog EXCEPT ![job] = IF @ = "armed" THEN "none" ELSE @]
    /\ hist' = [hist EXCEPT !.overran = IF TimedOut(job) THEN @ \cup {job} ELSE @]
    /\ Go("worker", "verdict")
    /\ UNCHANGED <<keepAlive, browserVars, actionLock, errand, job, served, using, result,
                   stopVars, tabVars, spent>>

ShouldRebuild ==
    TimedOut(job) \/ driver = None \/ (result = "failed" /\ ~keepAlive)

Verdict ==
    /\ at.worker = "verdict"
    /\ Go("worker", IF ShouldRebuild /\ ~stopEvent THEN "rebuild" ELSE "done")
    /\ result' = "none"
    /\ UNCHANGED <<keepAlive, browserVars, actionLock, errand, job, served, using, dog,
                   stopVars, tabVars, spent, hist>>

RebuildDriver ==
    /\ at.worker = "rebuild"
    /\ BeginDriver("worker")
    /\ errand' = [errand EXCEPT !.worker = "rebuild"]
    /\ UNCHANGED <<keepAlive, actionLock, jobVars, stopVars, load, todo, site>>

Rebuilt ==
    /\ at.worker \in {"has", "failed"} /\ errand.worker = "rebuild"
    /\ Go("worker", "done")
    /\ UNCHANGED <<keepAlive, browserVars, actionLock, errand, jobVars, stopVars, tabVars,
                   spent, hist>>

MarkFinished ==
    /\ at.worker = "done"
    /\ served' = served \cup {job}
    /\ job' = None
    /\ dog' = [dog EXCEPT ![job] = IF @ = "done" THEN "none" ELSE @]
    /\ GoOn("worker", "check", "none")
    /\ UNCHANGED <<keepAlive, browserVars, actionLock, using, result, stopVars, tabVars,
                   spent, hist>>

\* The finally block of run().
Leave ==
    /\ at.worker = "leave"
    /\ \/ CloseNothing("worker") /\ Go("worker", "ended")
       \/ CloseBegins("worker") /\ Go("worker", "closing")
    /\ UNCHANGED <<keepAlive, actionLock, errand, jobVars, stopVars, tabVars>>

Left ==
    /\ at.worker = "closing"
    /\ CloseEnds("worker")
    /\ Go("worker", "ended")
    /\ UNCHANGED <<keepAlive, actionLock, errand, jobVars, stopVars>>

-----------------------------------------------------------------------------
(* The watchdog of a job, and the stop.                                    *)

DogFires(j) ==
    /\ dog[j] = "armed"
    /\ dog' = [dog EXCEPT ![j] = "fired"]
    /\ UNCHANGED <<keepAlive, browserVars, actionLock, at, errand, job, served, using, result,
                   stopVars, tabVars, spent, hist>>

\* Nobody looks at the timer of a job that is over.
Over(j) == IF j = job THEN "done" ELSE "none"

\* Mutant: the timer marks the job and leaves its browser alone.
DogOnlyMarks(j) ==
    /\ dog[j] = "fired"
    /\ dog' = [dog EXCEPT ![j] = Over(j)]
    /\ UNCHANGED <<keepAlive, browserVars, actionLock, at, errand, job, served, using, result,
                   stopVars, tabVars, spent, hist>>

DogCloses(j) ==
    /\ dog[j] = "fired"
    /\ \/ CloseNothing(j) /\ dog' = [dog EXCEPT ![j] = Over(j)]
       \/ CloseBegins(j) /\ dog' = [dog EXCEPT ![j] = "closing"]
    /\ UNCHANGED <<keepAlive, actionLock, at, errand, job, served, using, result, stopVars,
                   tabVars>>

DogEnds(j) ==
    /\ dog[j] = "closing"
    /\ CloseEnds(j)
    /\ dog' = [dog EXCEPT ![j] = Over(j)]
    /\ UNCHANGED <<keepAlive, actionLock, at, errand, job, served, using, result, stopVars>>

Shutdown ==
    /\ stopper = "off"
    /\ Event("stop")
    /\ stopEvent' = TRUE
    /\ stopper' = "stop"
    /\ UNCHANGED <<keepAlive, browserVars, actionLock, at, errand, jobVars, tabVars, hist>>

ShutdownCloses ==
    /\ stopper = "stop"
    /\ \/ CloseNothing("stopper") /\ stopper' = "done"
       \/ CloseBegins("stopper") /\ stopper' = "closing"
    /\ UNCHANGED <<keepAlive, actionLock, at, errand, jobVars, stopEvent, tabVars>>

ShutdownEnds ==
    /\ stopper = "closing"
    /\ CloseEnds("stopper")
    /\ stopper' = "done"
    /\ UNCHANGED <<keepAlive, actionLock, at, errand, jobVars, stopEvent>>

-----------------------------------------------------------------------------
(* Warm tabs.                                                              *)

\* configure_warm_tabs, refused while a job is in hand.  Every tab becomes a
\* new object with the old one's fields: a load under way keeps the old one.
Detached(l) == [l EXCEPT !.current = (l.product = None)]

ConfigureWarmTabs(S) ==
    /\ keepAlive
    /\ ~Busy
    /\ tabs' = [p \in Products |->
                   IF p \notin S THEN NoTab
                   ELSE IF tabs[p].on THEN tabs[p] ELSE [NoTab EXCEPT !.on = TRUE]]
    /\ load' = [t \in Workers |-> Detached(load[t])]
    /\ todo' = {Detached(l) : l \in todo}
    /\ UNCHANGED <<keepAlive, browserVars, actionLock, at, errand, jobVars, stopVars, site,
                   spent, hist>>

\* _warm_tabs_idle_tick, when get() times out: one tab that is due, if nobody
\* has the browser.
IdleTick ==
    /\ at.worker = "idle"
    /\ \/ /\ Go("worker", "check")
          /\ UNCHANGED <<actionLock, errand, load>>
       \/ /\ keepAlive /\ ~stopEvent
          /\ actionLock = "free"
          /\ actionLock' = "worker"
          /\ \E p \in Products :
                 /\ tabs[p].on /\ ~tabs[p].resting
                 /\ load' = [load EXCEPT !.worker = [NoLoad EXCEPT !.product = p]]
          /\ GoOn("worker", "load", "refresh")
    /\ UNCHANGED <<keepAlive, browserVars, jobVars, stopVars, tabs, todo, site, spent, hist>>

Loading(t) == errand[t] \in {"refresh", "preload"}

\* The tab a thread is loading: the registered one, or the object that
\* configure_warm_tabs replaced.
SetLoaded(t, f) ==
    tabs' = IF load[t].current THEN [tabs EXCEPT ![load[t].product] = f] ELSE tabs

\* What follows a load: the refresh gives the browser back, the preload looks
\* for its next tab.
LoadOver(t) ==
    /\ load' = [load EXCEPT ![t] = NoLoad]
    /\ IF t = "worker"
       THEN actionLock' = "free" /\ GoOn(t, "check", "none")
       ELSE UNCHANGED <<actionLock, errand>> /\ Go(t, "tabs")

\* _load_warm_tab, up to ensure_driver: skipped while a job is in hand, in the
\* tab's pause and in the retailer's; the first load after that is a probe.
LoadBegins(t) ==
    /\ at[t] = "load"
    /\ LET p == load[t].product IN
       \/ /\ (Busy \/ tabs[p].resting)
          /\ LoadOver(t)
          /\ UNCHANGED <<tabs, site>>
       \/ /\ ~Busy /\ ~tabs[p].resting /\ site = "cooling"
          /\ SetLoaded(t, [tabs[p] EXCEPT !.resting = TRUE])
          /\ LoadOver(t)
          /\ UNCHANGED site
       \/ /\ ~Busy /\ ~tabs[p].resting /\ site # "cooling"
          /\ site' = IF site = "cooled" THEN "probing" ELSE site
          /\ Go(t, "browser")
          /\ UNCHANGED <<tabs, load, actionLock, errand>>
    /\ UNCHANGED <<keepAlive, browserVars, jobVars, stopVars, todo, spent, hist>>

\* The tab's window, or a new one; _open_blank_tab asks for the driver again.
LoadOpens(t) ==
    /\ at[t] = "has" /\ Loading(t)
    /\ LET p == load[t].product
           mine == IF load[t].driver = None THEN driver ELSE load[t].driver IN
       IF ~Healthy
       THEN /\ Go(t, "browser")
            /\ load' = [load EXCEPT ![t].driver = mine]
            /\ UNCHANGED tabs
       ELSE /\ Go(t, "page")
            /\ load' = [load EXCEPT ![t].driver = mine]
            /\ SetLoaded(t, [tabs[p] EXCEPT !.handle = driver])
    /\ UNCHANGED <<keepAlive, browserVars, actionLock, errand, jobVars, stopVars, todo, site,
                   spent, hist>>

\* SourceAccessController.observe of a normal page, by _record_normal_tab_load.
Recovered == CASE site = "normal" -> "normal" [] site = "recovered" -> "normal"
               [] OTHER -> "recovered"

LoadEnds(t) ==
    /\ at[t] = "page"
    /\ LET p == load[t].product IN
       \/ /\ load[t].driver = driver /\ Healthy
          /\ SetLoaded(t, [tabs[p] EXCEPT !.blocked = FALSE, !.resting = FALSE])
          /\ site' = Recovered
          /\ UNCHANGED spent
       \/ /\ load[t].driver = driver /\ Healthy
          /\ Event("challenge")
          /\ Quarantine(IF load[t].current THEN Challenged(p) ELSE tabs)
       \/ /\ SetLoaded(t, [tabs[p] EXCEPT !.resting = TRUE])
          /\ UNCHANGED <<site, spent>>
    /\ LoadOver(t)
    /\ UNCHANGED <<keepAlive, browserVars, jobVars, stopVars, todo, hist>>

\* The first ensure_driver of a load is outside its try: it ends the worker's
\* thread or the preload.  The second is inside.
LoadFails(t) ==
    /\ at[t] = "failed" /\ Loading(t)
    /\ IF load[t].driver = None
       THEN /\ load' = [load EXCEPT ![t] = NoLoad]
            /\ actionLock' = "free"
            /\ GoOn(t, IF t = "worker" THEN "leave" ELSE "off", "none")
            /\ UNCHANGED tabs
       ELSE /\ SetLoaded(t, [tabs[load[t].product] EXCEPT !.resting = TRUE])
            /\ LoadOver(t)
    /\ UNCHANGED <<keepAlive, browserVars, jobVars, stopVars, todo, site, spent, hist>>

\* A pause is over: of a tab, of the retailer.
TabRested(p) ==
    /\ tabs[p].resting
    /\ tabs' = [tabs EXCEPT ![p].resting = FALSE]
    /\ UNCHANGED <<keepAlive, browserVars, actionLock, at, errand, jobVars, stopVars, load,
                   todo, site, spent, hist>>

SiteCooled ==
    /\ site = "cooling"
    /\ site' = "cooled"
    /\ UNCHANGED <<keepAlive, browserVars, actionLock, at, errand, jobVars, stopVars, tabs,
                   load, todo, spent, hist>>

-----------------------------------------------------------------------------
(* The pool thread at the start of a runtime: prewarm_browser, and, if the *)
(* runtime is still there, preload_warm_tabs_now.                          *)

PrewarmBegins ==
    /\ at.helper = "off" /\ errand.helper = "none"
    /\ at.worker # "ended"
    /\ GoOn("helper", "lock", "prewarm")
    /\ UNCHANGED <<keepAlive, browserVars, actionLock, jobVars, stopVars, tabVars, spent, hist>>

\* The tabs the preload will go through, as they are when it has the lock.
Snapshot ==
    IF errand.helper = "prewarm" THEN {}
    ELSE {[NoLoad EXCEPT !.product = p] : p \in {q \in Products : tabs[q].on}}

\* Mutant: it drives without the lock.
HelperLocksNothing ==
    /\ at.helper = "lock"
    /\ Go("helper", IF errand.helper = "prewarm" THEN "browser" ELSE "tabs")
    /\ todo' = Snapshot
    /\ UNCHANGED <<keepAlive, browserVars, actionLock, errand, jobVars, stopVars, tabs, load,
                   site, spent, hist>>

HelperLocks ==
    /\ at.helper = "lock"
    /\ actionLock = "free"
    /\ actionLock' = "helper"
    /\ Go("helper", IF errand.helper = "prewarm" THEN "browser" ELSE "tabs")
    /\ todo' = Snapshot
    /\ UNCHANGED <<keepAlive, browserVars, errand, jobVars, stopVars, tabs, load, site, spent,
                   hist>>

Prewarmed ==
    /\ at.helper \in {"has", "failed"} /\ errand.helper = "prewarm"
    /\ actionLock' = "free"
    /\ Go("helper", IF at.helper = "has" /\ keepAlive THEN "warm" ELSE "off")
    /\ UNCHANGED <<keepAlive, browserVars, errand, jobVars, stopVars, tabVars, spent, hist>>

PreloadBegins ==
    /\ at.helper = "warm"
    /\ \/ ~Busy /\ GoOn("helper", "lock", "preload")
       \/ GoOn("helper", "off", "prewarm")      \* a job in hand, or cancelled
    /\ UNCHANGED <<keepAlive, browserVars, actionLock, jobVars, stopVars, tabVars, spent, hist>>

PreloadNext ==
    /\ at.helper = "tabs"
    /\ IF todo = {}
       THEN /\ actionLock' = "free"
            /\ Go("helper", "off")
            /\ UNCHANGED <<todo, load>>
       ELSE /\ \E l \in todo :
                  /\ todo' = todo \ {l}
                  /\ load' = [load EXCEPT !.helper = l]
            /\ Go("helper", "load")
            /\ UNCHANGED actionLock
    /\ UNCHANGED <<keepAlive, browserVars, errand, jobVars, stopVars, tabs, site, spent, hist>>

-----------------------------------------------------------------------------
JobStep ==
    \/ LockForJob \/ StartAction \/ NoDriver \/ Settle \/ Verdict
    \/ RebuildDriver \/ Rebuilt \/ MarkFinished

DogStep(j) == DogFires(j) \/ DogCloses(j) \/ DogEnds(j)

BrowserStep(t) == EnsureDriver(t) \/ InitDriver(t)

LoadStep(t) == LoadBegins(t) \/ LoadOpens(t) \/ LoadEnds(t) \/ LoadFails(t)

HelperStep == HelperLocks \/ Prewarmed \/ PreloadBegins \/ PreloadNext

StopStep == Leave \/ Left \/ ShutdownCloses \/ ShutdownEnds

Next ==
    \/ CheckStop \/ IdleTick
    \/ \E j \in Jobs : TakeJob(j) \/ DogStep(j)
    \/ JobStep \/ HandlerReturns \/ HandlerRaises
    \/ \E t \in Workers : BrowserStep(t) \/ LoadStep(t)
    \/ PrewarmBegins \/ HelperStep
    \/ Shutdown \/ StopStep
    \/ Crash \/ RefreshProcessTracking
    \/ \E S \in SUBSET Products : ConfigureWarmTabs(S)
    \/ \E p \in Products : TabRested(p)
    \/ SiteCooled

Spec == Init /\ [][Next]_vars

\* Every thread runs, Chrome starts, quits and loads a page in bounded time,
\* and the timer of a job that does not end fires.  A handler need not end on
\* its own; it does when its browser is gone.
Fairness ==
    /\ WF_vars(JobStep)
    /\ WF_vars(HandlerRaises /\ using \notin browsers)
    /\ \A j \in Jobs : WF_vars(DogStep(j))
    /\ \A t \in Workers : WF_vars(BrowserStep(t) \/ LoadStep(t))
    /\ WF_vars(HelperStep)
    /\ WF_vars(StopStep)

FairSpec == Spec /\ Fairness

-----------------------------------------------------------------------------
(* Properties.                                                             *)

WorkerPlaces == {"check", "idle", "lock", "browser", "starting", "has", "failed", "drive",
                 "settle", "verdict", "rebuild", "done", "load", "page", "leave", "closing",
                 "ended"}
HelperPlaces == {"off", "lock", "browser", "starting", "has", "failed", "warm", "tabs",
                 "load", "page"}
Driving(t) ==
    /\ at[t] \in {"browser", "starting", "has", "failed", "drive", "tabs", "load", "page"}
    /\ errand[t] # "rebuild"

\* Every variable has its type, and a lock is held exactly where the code is
\* inside its block.
TypeOK ==
    /\ keepAlive \in BOOLEAN
    /\ browsers \subseteq Sessions
    /\ {driver, chromePid} \subseteq Sessions \cup {None}
    /\ driverLock \in Owners \cup {"free"}
    /\ actionLock \in Workers \cup {"free"}
    /\ at.worker \in WorkerPlaces /\ at.helper \in HelperPlaces
    /\ errand.worker \in {"none", "job", "rebuild", "refresh"}
    /\ errand.helper \in {"none", "prewarm", "preload"}
    /\ job \in Jobs \cup {None}
    /\ served \subseteq Jobs
    /\ using \in Sessions \cup {None}
    /\ result \in {"none", "controlled", "failed"}
    /\ dog \in [Jobs -> {"none", "armed", "fired", "closing", "done"}]
    /\ stopEvent \in BOOLEAN
    /\ stopper \in {"off", "stop", "closing", "done"}
    /\ tabs \in [Products -> [on : BOOLEAN, handle : Sessions \cup {None},
                              blocked : BOOLEAN, resting : BOOLEAN]]
    /\ site \in {"normal", "cooling", "cooled", "probing", "recovered"}
    /\ \A t \in Workers :
          /\ Driving(t) <=> actionLock = t
          /\ at[t] = "starting" \/ (t = "worker" /\ at[t] = "closing") <=> driverLock = t
    /\ \A j \in Jobs : dog[j] = "closing" <=> driverLock = j

\* The browser a job's handler was given is ended under it only by a crash, by
\* the stop, by the job's own watchdog, or by the belated watchdog of an
\* earlier job that had itself timed out: never by the prewarm, the preload or
\* a refresh, and never by the timer of a job that ended in time.
JobKeepsBrowser ==
    at.worker = "drive" =>
        hist.cause \in {"none", "crash", "stopper", job} \cup hist.overran

\* There is one Chrome at a time, and none is left when the worker has ended
\* and the start-up's pool thread is through: unless a kill failed, a snapshot
\* took a half-started Chrome for the driver's, or that thread started one after
\* the worker's end.
NoOrphanBrowser ==
    \/ hist.unkilled \/ hist.adopted
    \/ /\ Cardinality(browsers) <= 1
       /\ at.worker = "ended" /\ at.helper = "off" /\ browsers # {} => hist.late

\* A job ends, whatever its handler does, unless the kill of its browser fails
\* or its watchdog had fired before the handler began: then nothing guards it.
JobEnds == \A j \in Jobs : job = j ~> job # j \/ hist.unguarded \/ hist.unkilled
=============================================================================
