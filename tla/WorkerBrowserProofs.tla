------------------------- MODULE WorkerBrowserProofs -------------------------
(***************************************************************************)
(* Theorems about WorkerBrowser, for any number of jobs, tabs, sessions    *)
(* and events: the locks are held where the code is inside their blocks, a *)
(* job's browser is ended under it only by those who may, and there is one *)
(* Chrome at a time.                                                       *)
(*                                                                         *)
(* The inductive invariant has one part per concern: types, where each     *)
(* thread can be with which errand, who holds the two locks, which timers  *)
(* can still fire, and how many browsers there are.                        *)
(***************************************************************************)
EXTENDS WorkerBrowser, FiniteSetTheorems, TLAPS

\* The types of the records.
Loads == [product : Products \cup {None}, driver : Sessions \cup {None}, current : BOOLEAN]
Tabs == [on : BOOLEAN, handle : Sessions \cup {None}, blocked : BOOLEAN, resting : BOOLEAN]
Histories == [cause : Owners \cup {"none", "crash"}, overran : SUBSET Jobs,
              unkilled : BOOLEAN, adopted : BOOLEAN, late : BOOLEAN, unguarded : BOOLEAN]

\* The parts of the inductive invariant: types first.
TabTypes ==
    /\ tabs \in [Products -> Tabs]
    /\ load \in [Workers -> Loads]
    /\ todo \subseteq Loads
    /\ site \in {"normal", "cooling", "cooled", "probing", "recovered"}

BrowserTypes ==
    /\ browsers \subseteq Sessions
    /\ driver \in Sessions \cup {None} /\ chromePid \in Sessions \cup {None}
    /\ using \in Sessions \cup {None}
    /\ hist \in Histories

RestTypes ==
    /\ keepAlive \in BOOLEAN
    /\ served \subseteq Jobs
    /\ result \in {"none", "controlled", "failed"}
    /\ stopEvent \in BOOLEAN
    /\ stopper \in {"off", "stop", "closing", "done"}

\* Where a thread can be on each of its errands.
WorkerAt ==
    \/ at.worker \in {"check", "idle", "leave", "closing", "ended"} /\ errand.worker = "none"
    \/ /\ at.worker \in {"lock", "browser", "starting", "has", "failed", "drive", "settle",
                         "verdict", "rebuild", "done"}
       /\ errand.worker = "job"
    \/ at.worker \in {"starting", "has", "failed", "done"} /\ errand.worker = "rebuild"
    \/ /\ at.worker \in {"load", "browser", "starting", "has", "failed", "page"}
       /\ errand.worker = "refresh"

HelperAt ==
    \/ at.helper = "off" /\ errand.helper \in {"none", "prewarm", "preload"}
    \/ /\ at.helper \in {"lock", "browser", "starting", "has", "failed", "warm"}
       /\ errand.helper = "prewarm"
    \/ /\ at.helper \in {"lock", "browser", "starting", "has", "failed", "tabs", "load", "page"}
       /\ errand.helper = "preload"

Control ==
    /\ at \in [Workers -> WorkerPlaces \cup HelperPlaces]
    /\ errand \in [Workers -> {"none", "job", "rebuild", "refresh", "prewarm", "preload"}]
    /\ job \in Jobs \cup {None}
    /\ WorkerAt /\ HelperAt
    /\ job # None <=> errand.worker \in {"job", "rebuild"}

\* A lock is held by whoever is inside its block.
Locks ==
    /\ driverLock \in Owners \cup {"free"}
    /\ actionLock \in Workers \cup {"free"}
    /\ dog \in [Jobs -> {"none", "armed", "fired", "closing", "done"}]
    /\ \A t \in Workers :
          /\ Driving(t) <=> actionLock = t
          /\ at[t] = "starting" \/ (t = "worker" /\ at[t] = "closing") <=> driverLock = t
    /\ \A j \in Jobs : dog[j] = "closing" <=> driverLock = j

\* A timer that can still close a browser is the current job's, or that of a
\* job that had timed out when it ended; once a job has settled, its own
\* timer cannot fire any more.
Settled == at.worker \in {"verdict", "rebuild", "done"} \/ errand.worker = "rebuild"

Timers ==
    /\ \A j \in Jobs :
          /\ dog[j] = "armed" => j = job
          /\ dog[j] # "none" => j = job \/ j \in served
          /\ dog[j] = "fired" => j = job \/ j \in hist.overran
    /\ Settled => dog[job] # "armed" /\ (TimedOut(job) => job \in hist.overran)

\* While every kill succeeds and no half-started Chrome is adopted, the one
\* that is alive is the driver's or a half-started one, and there is none
\* while the browser is started or closed.
OneChrome ==
    \/ hist.unkilled \/ hist.adopted
    \/ /\ chromePid = driver
       /\ \A a, b \in browsers : a = b
       /\ driverLock # "free" => browsers = {}
       /\ at.worker = "ended" => browsers = {} \/ hist.late

\* The inductive invariant.
IInv ==
    /\ TabTypes /\ BrowserTypes /\ RestTypes
    /\ Control /\ Locks /\ Timers
    /\ JobKeepsBrowser /\ OneChrome

-----------------------------------------------------------------------------
\* What a kill can do, whoever kills.
LEMMA KillFacts ==
  ASSUME BrowserTypes, NEW who \in Owners, NEW doomed, Kill(who, doomed)
  PROVE  /\ browsers' \subseteq browsers
         /\ hist' \in Histories
         /\ hist'.cause \in {hist.cause, who}
         /\ hist'.overran = hist.overran
         /\ hist'.late = hist.late /\ hist'.adopted = hist.adopted
         /\ hist'.unkilled \/ (~hist.unkilled /\ browsers' = browsers \ doomed)
  BY DEF Kill, BrowserTypes, Histories

\* What a tab's fields are set to, they may hold.
LEMMA TabFacts ==
  ASSUME NEW tab \in Tabs
  PROVE  /\ [tab EXCEPT !.resting = TRUE] \in Tabs
         /\ [tab EXCEPT !.blocked = FALSE, !.resting = FALSE] \in Tabs
  BY DEF Tabs

\* The same of a load.
LEMMA LoadFacts ==
  /\ \A p \in Products : [NoLoad EXCEPT !.product = p] \in Loads
  /\ \A l \in Loads : Detached(l) \in Loads
  BY DEF Loads, NoLoad, Detached

\* A load writes to the tab of its product, or to a tab nobody knows any more.
LEMMA SetLoadedTypes ==
  ASSUME TabTypes, NEW t \in Workers, NEW f, SetLoaded(t, f),
         load[t].product \in Products => f \in Tabs
  PROVE  tabs' \in [Products -> Tabs]
  BY DEF SetLoaded, TabTypes

\* A challenge marks the tab of a product, and of nothing else.
LEMMA ChallengedTypes ==
  ASSUME TabTypes, NEW p
  PROVE  Challenged(p) \in [Products -> Tabs]
  <1>1. CASE p \in Products
    BY <1>1 DEF TabTypes, Challenged, Tabs
  <1>2. CASE p \notin Products
    BY <1>2 DEF TabTypes, Challenged
  <1> QED
    BY <1>1, <1>2

\* What is over leaves an empty load.
LEMMA LoadOverTypes ==
  ASSUME TabTypes, NEW t \in Workers, LoadOver(t)
  PROVE  load' \in [Workers -> Loads]
  BY DEF TabTypes, LoadOver, NoLoad, Loads

\* A step takes its thread to a place of its errand.
LEMMA ControlStep ==
  ASSUME Control, [Next]_vars
  PROVE  Control'
  <1> USE BrowserAssumption DEF Control, WorkerAt, HelperAt, Workers, WorkerPlaces,
          HelperPlaces, Go, GoOn
  <1>1. CASE \/ \E j \in Jobs : DogFires(j)
             \/ \E j \in Jobs : DogCloses(j)
             \/ \E j \in Jobs : DogEnds(j)
             \/ Shutdown
             \/ ShutdownCloses
             \/ ShutdownEnds
    BY <1>1
    DEF DogFires, DogCloses, DogEnds, Shutdown, ShutdownCloses, ShutdownEnds, jobVars
  <1>2. CASE \/ Crash
             \/ RefreshProcessTracking
             \/ \E S \in SUBSET Products : ConfigureWarmTabs(S)
             \/ \E p \in Products : TabRested(p)
             \/ SiteCooled
             \/ UNCHANGED vars
    BY <1>2
    DEF Crash, RefreshProcessTracking, ConfigureWarmTabs, TabRested, SiteCooled, vars, jobVars
  <1>3. CASE \/ CheckStop
             \/ IdleTick
             \/ \E j \in Jobs : TakeJob(j)
    BY <1>3
    DEF CheckStop, IdleTick, TakeJob, jobVars
  <1>4. CASE \/ LockForJob
             \/ StartAction
    BY <1>4
    DEF LockForJob, StartAction, jobVars, HandlerEnds, Drive, UseTab
  <1>5. CASE \/ NoDriver
             \/ HandlerReturns
             \/ HandlerRaises
    BY <1>5
    DEF NoDriver, HandlerReturns, HandlerRaises, jobVars, HandlerEnds
  <1>6. CASE \/ Settle
             \/ Verdict
    BY <1>6
    DEF Settle, Verdict
  <1>7. CASE \/ RebuildDriver
             \/ Rebuilt
             \/ MarkFinished
    BY <1>7
    DEF RebuildDriver, Rebuilt, MarkFinished, jobVars, BeginDriver
  <1>8. CASE \/ \E t \in Workers : EnsureDriver(t)
             \/ \E t \in Workers : InitDriver(t)
    BY <1>8
    DEF EnsureDriver, InitDriver, jobVars, BeginDriver
  <1>9. CASE \/ \E t \in Workers : LoadBegins(t)
             \/ \E t \in Workers : LoadEnds(t)
    BY <1>9
    DEF LoadBegins, LoadEnds, LoadOver, jobVars
  <1>10. CASE \E t \in Workers : LoadOpens(t)
    BY <1>10
    DEF LoadOpens, Loading, jobVars
  <1>11. CASE \E t \in Workers : LoadFails(t)
    BY <1>11
    DEF LoadFails, Loading, LoadOver, jobVars
  <1>12. CASE \/ PrewarmBegins
             \/ HelperLocks
             \/ Prewarmed
             \/ PreloadBegins
             \/ PreloadNext
    BY <1>12
    DEF PrewarmBegins, HelperLocks, Prewarmed, PreloadBegins, PreloadNext, jobVars
  <1>13. CASE \/ Leave
             \/ Left
    BY <1>13
    DEF Leave, Left, jobVars
  <1> HIDE DEF Control, WorkerAt, HelperAt, Workers, WorkerPlaces, HelperPlaces, Go, GoOn
  <1> QED
    BY <1>1, <1>2, <1>3, <1>4, <1>5, <1>6, <1>7, <1>8, <1>9, <1>10, <1>11, <1>12, <1>13
    DEF Next, JobStep, DogStep, BrowserStep, LoadStep, HelperStep, StopStep

\* The browsers and their history keep their types.
LEMMA BrowserTypesStep ==
  ASSUME BrowserTypes, Control, [Next]_vars
  PROVE  BrowserTypes'
  <1> USE BrowserAssumption DEF BrowserTypes, Workers, Owners
  <1>1. CASE \/ CheckStop
             \/ IdleTick
             \/ \E j \in Jobs : TakeJob(j)
             \/ LockForJob
             \/ Verdict
             \/ Rebuilt
             \/ MarkFinished
             \/ \E t \in Workers : LoadBegins(t)
             \/ \E t \in Workers : LoadOpens(t)
             \/ \E t \in Workers : LoadEnds(t)
             \/ \E t \in Workers : LoadFails(t)
             \/ PrewarmBegins
             \/ HelperLocks
             \/ Prewarmed
             \/ PreloadBegins
             \/ PreloadNext
             \/ \E j \in Jobs : DogFires(j)
             \/ Shutdown
             \/ \E S \in SUBSET Products : ConfigureWarmTabs(S)
             \/ \E p \in Products : TabRested(p)
             \/ SiteCooled
             \/ UNCHANGED vars
    BY <1>1
    DEF CheckStop, IdleTick, TakeJob, LockForJob, Verdict, Rebuilt, MarkFinished, LoadBegins,
        LoadOpens, LoadEnds, LoadFails, PrewarmBegins, HelperLocks, Prewarmed, PreloadBegins,
        PreloadNext, DogFires, Shutdown, ConfigureWarmTabs, TabRested, SiteCooled, vars,
        browserVars, jobVars
  <1>2. CASE StartAction
    BY <1>2
    DEF StartAction, browserVars, HandlerEnds, Drive, UseTab, Histories
  <1>3. CASE \/ NoDriver
             \/ HandlerReturns
             \/ HandlerRaises
    BY <1>3
    DEF NoDriver, HandlerReturns, HandlerRaises, browserVars, HandlerEnds, Histories
  <1>4. CASE Settle
    BY <1>4
    DEF Settle, browserVars, Histories, Control, WorkerAt
  <1>5. CASE \/ RebuildDriver
             \/ \E t \in Workers : EnsureDriver(t)
    BY <1>5, KillFacts
    DEF RebuildDriver, EnsureDriver, browserVars, jobVars, BeginDriver
  <1>6. CASE \E t \in Workers : InitDriver(t)
    BY <1>6
    DEF InitDriver, jobVars, FreeSessions, Histories
  <1>7. CASE \/ \E j \in Jobs : DogCloses(j)
             \/ Leave
             \/ ShutdownCloses
    BY <1>7, KillFacts
    DEF DogCloses, Leave, ShutdownCloses, jobVars, CloseNothing, CloseBegins
  <1>8. CASE \/ \E j \in Jobs : DogEnds(j)
             \/ Left
             \/ ShutdownEnds
    BY <1>8
    DEF DogEnds, Left, ShutdownEnds, jobVars, CloseEnds
  <1>9. CASE \/ Crash
             \/ RefreshProcessTracking
    BY <1>9
    DEF Crash, RefreshProcessTracking, jobVars, Histories
  <1> HIDE DEF BrowserTypes, Workers, Owners
  <1> QED
    BY <1>1, <1>2, <1>3, <1>4, <1>5, <1>6, <1>7, <1>8, <1>9
    DEF Next, JobStep, DogStep, BrowserStep, LoadStep, HelperStep, StopStep

\* So do what is left of the job and the stop.
LEMMA RestTypesStep ==
  ASSUME RestTypes, Control, [Next]_vars
  PROVE  RestTypes'
  <1> USE BrowserAssumption DEF RestTypes
  <1>1. CASE \/ CheckStop
             \/ IdleTick
             \/ \E j \in Jobs : TakeJob(j)
             \/ LockForJob
             \/ Settle
             \/ Rebuilt
             \/ RebuildDriver
             \/ \E t \in Workers : EnsureDriver(t)
             \/ \E t \in Workers : InitDriver(t)
             \/ \E t \in Workers : LoadBegins(t)
             \/ \E t \in Workers : LoadOpens(t)
             \/ \E t \in Workers : LoadEnds(t)
             \/ \E t \in Workers : LoadFails(t)
             \/ PrewarmBegins
             \/ HelperLocks
             \/ Prewarmed
             \/ PreloadBegins
             \/ PreloadNext
             \/ \E j \in Jobs : DogFires(j)
             \/ \E j \in Jobs : DogCloses(j)
             \/ \E j \in Jobs : DogEnds(j)
             \/ Leave
             \/ Left
             \/ Crash
             \/ RefreshProcessTracking
             \/ \E S \in SUBSET Products : ConfigureWarmTabs(S)
             \/ \E p \in Products : TabRested(p)
             \/ SiteCooled
             \/ UNCHANGED vars
    BY <1>1
    DEF CheckStop, IdleTick, TakeJob, LockForJob, Settle, Rebuilt, RebuildDriver,
        EnsureDriver, InitDriver, LoadBegins, LoadOpens, LoadEnds, LoadFails, PrewarmBegins,
        HelperLocks, Prewarmed, PreloadBegins, PreloadNext, DogFires, DogCloses, DogEnds,
        Leave, Left, Crash, RefreshProcessTracking, ConfigureWarmTabs, TabRested, SiteCooled,
        vars, jobVars, stopVars
  <1>2. CASE \/ StartAction
             \/ NoDriver
             \/ HandlerReturns
             \/ HandlerRaises
    BY <1>2
    DEF StartAction, NoDriver, HandlerReturns, HandlerRaises, stopVars, HandlerEnds, Drive,
        UseTab
  <1>3. CASE Verdict
    BY <1>3
    DEF Verdict, stopVars
  <1>4. CASE MarkFinished
    BY <1>4
    DEF MarkFinished, stopVars, Control, WorkerAt
  <1>5. CASE \/ Shutdown
             \/ ShutdownCloses
             \/ ShutdownEnds
    BY <1>5
    DEF Shutdown, ShutdownCloses, ShutdownEnds, jobVars
  <1> HIDE DEF RestTypes
  <1> QED
    BY <1>1, <1>2, <1>3, <1>4, <1>5
    DEF Next, JobStep, DogStep, BrowserStep, LoadStep, HelperStep, StopStep

\* A lock is taken where it is free and given back by its holder.
LEMMA LocksStep ==
  ASSUME Control, Locks, Timers, [Next]_vars
  PROVE  Locks'
  <1> USE BrowserAssumption DEF Control, WorkerAt, HelperAt, Locks, Driving, Workers, Owners,
          Go, GoOn
  <1>1. CASE \/ Crash
             \/ RefreshProcessTracking
             \/ Shutdown
             \/ \E S \in SUBSET Products : ConfigureWarmTabs(S)
             \/ \E p \in Products : TabRested(p)
             \/ SiteCooled
             \/ UNCHANGED vars
    BY <1>1
    DEF Crash, RefreshProcessTracking, Shutdown, ConfigureWarmTabs, TabRested, SiteCooled,
        vars, browserVars, jobVars
  <1>2. CASE CheckStop
    BY <1>2
    DEF CheckStop, browserVars, jobVars
  <1>3. CASE IdleTick
    BY <1>3
    DEF IdleTick, browserVars, jobVars
  <1>4. CASE \E j \in Jobs : TakeJob(j)
    BY <1>4
    DEF TakeJob, browserVars, Timers
  <1>5. CASE LockForJob
    BY <1>5
    DEF LockForJob, browserVars, jobVars
  <1>6. CASE StartAction
    BY <1>6
    DEF StartAction, browserVars, HandlerEnds, Drive, UseTab
  <1>7. CASE \/ NoDriver
             \/ HandlerReturns
             \/ HandlerRaises
    BY <1>7
    DEF NoDriver, HandlerReturns, HandlerRaises, browserVars, HandlerEnds
  <1>8. CASE \/ Settle
             \/ Verdict
    BY <1>8
    DEF Settle, Verdict, browserVars, Timers
  <1>9. CASE \/ Rebuilt
             \/ MarkFinished
    BY <1>9
    DEF Rebuilt, MarkFinished, browserVars, jobVars, Timers
  <1>10. CASE \/ RebuildDriver
             \/ \E t \in Workers : EnsureDriver(t)
    BY <1>10
    DEF RebuildDriver, EnsureDriver, browserVars, jobVars, BeginDriver
  <1>11. CASE \E t \in Workers : InitDriver(t)
    BY <1>11
    DEF InitDriver, jobVars
  <1>12. CASE \E t \in Workers : LoadBegins(t)
    BY <1>12
    DEF LoadBegins, LoadOver, browserVars, jobVars
  <1>13. CASE \E t \in Workers : LoadEnds(t)
    BY <1>13
    DEF LoadEnds, LoadOver, browserVars, jobVars
  <1>14. CASE \E t \in Workers : LoadOpens(t)
    BY <1>14
    DEF LoadOpens, Loading, browserVars, jobVars
  <1>15. CASE \E t \in Workers : LoadFails(t)
    BY <1>15
    DEF LoadFails, Loading, LoadOver, browserVars, jobVars
  <1>16. CASE \/ PrewarmBegins
             \/ HelperLocks
    BY <1>16
    DEF PrewarmBegins, HelperLocks, browserVars, jobVars
  <1>17. CASE Prewarmed
    BY <1>17
    DEF Prewarmed, browserVars, jobVars
  <1>18. CASE PreloadBegins
    BY <1>18
    DEF PreloadBegins, browserVars, jobVars
  <1>19. CASE PreloadNext
    BY <1>19
    DEF PreloadNext, browserVars, jobVars
  <1>20. CASE \E j \in Jobs : DogFires(j)
    BY <1>20
    DEF DogFires, browserVars, jobVars
  <1>21. CASE \E j \in Jobs : DogCloses(j)
    BY <1>21
    DEF DogCloses, CloseNothing, CloseBegins, Over
  <1>22. CASE \E j \in Jobs : DogEnds(j)
    BY <1>22
    DEF DogEnds, CloseEnds, Over
  <1>23. CASE \/ Leave
             \/ Left
    BY <1>23
    DEF Leave, Left, jobVars, CloseNothing, CloseBegins, CloseEnds
  <1>24. CASE \/ ShutdownCloses
             \/ ShutdownEnds
    BY <1>24
    DEF ShutdownCloses, ShutdownEnds, jobVars, CloseNothing, CloseBegins, CloseEnds
  <1> HIDE DEF Control, WorkerAt, HelperAt, Locks, Driving, Workers, Owners, Go, GoOn
  <1> QED
    BY <1>1, <1>2, <1>3, <1>4, <1>5, <1>6, <1>7, <1>8, <1>9, <1>10, <1>11, <1>12, <1>13,
       <1>14, <1>15, <1>16, <1>17, <1>18, <1>19, <1>20, <1>21, <1>22, <1>23, <1>24
    DEF Next, JobStep, DogStep, BrowserStep, LoadStep, HelperStep, StopStep

\* The cancel of a timer that has not fired, and the end of the job, leave no other.
LEMMA TimersStep ==
  ASSUME BrowserTypes, RestTypes, Control, Locks, Timers, [Next]_vars
  PROVE  Timers'
  <1> USE BrowserAssumption DEF Control, WorkerAt, Locks, Timers, Settled, TimedOut,
          RestTypes, Workers, Owners, Go, GoOn
  <1>1. CASE \/ CheckStop
             \/ IdleTick
             \/ LockForJob
             \/ Verdict
    BY <1>1
    DEF CheckStop, IdleTick, LockForJob, Verdict, jobVars
  <1>2. CASE \/ \E t \in Workers : LoadBegins(t)
             \/ \E t \in Workers : LoadEnds(t)
    BY <1>2
    DEF LoadBegins, LoadEnds, LoadOver, jobVars
  <1>3. CASE \/ \E t \in Workers : LoadOpens(t)
             \/ \E t \in Workers : LoadFails(t)
    BY <1>3
    DEF LoadOpens, LoadFails, LoadOver, Loading, jobVars
  <1>4. CASE \/ PrewarmBegins
             \/ HelperLocks
             \/ Prewarmed
             \/ PreloadBegins
             \/ PreloadNext
    BY <1>4
    DEF PrewarmBegins, HelperLocks, Prewarmed, PreloadBegins, PreloadNext, jobVars
  <1>5. CASE \/ Shutdown
             \/ Crash
             \/ RefreshProcessTracking
             \/ \E S \in SUBSET Products : ConfigureWarmTabs(S)
             \/ \E p \in Products : TabRested(p)
             \/ SiteCooled
             \/ UNCHANGED vars
    BY <1>5
    DEF Shutdown, Crash, RefreshProcessTracking, ConfigureWarmTabs, TabRested, SiteCooled,
        vars, jobVars, BrowserTypes, Histories
  <1>6. CASE \E j \in Jobs : TakeJob(j)
    BY <1>6
    DEF TakeJob, jobVars
  <1>7. CASE StartAction
    BY <1>7
    DEF StartAction, HandlerEnds, Drive, UseTab, BrowserTypes, Histories
  <1>8. CASE \/ NoDriver
             \/ HandlerReturns
             \/ HandlerRaises
    BY <1>8
    DEF NoDriver, HandlerReturns, HandlerRaises, HandlerEnds, BrowserTypes, Histories
  <1>9. CASE Settle
    BY <1>9
    DEF Settle, BrowserTypes, Histories
  <1>10. CASE \/ Rebuilt
             \/ MarkFinished
    BY <1>10
    DEF Rebuilt, MarkFinished, jobVars
  <1>11. CASE RebuildDriver
    BY <1>11, KillFacts
    DEF RebuildDriver, jobVars, BeginDriver
  <1>12. CASE \E t \in Workers : EnsureDriver(t)
    BY <1>12, KillFacts
    DEF EnsureDriver, jobVars, BeginDriver
  <1>13. CASE \E t \in Workers : InitDriver(t)
    BY <1>13
    DEF InitDriver, jobVars, BrowserTypes, Histories
  <1>14. CASE \E j \in Jobs : DogFires(j)
    BY <1>14
    DEF DogFires
  <1>15. CASE \E j \in Jobs : DogCloses(j)
    BY <1>15
    DEF DogCloses, CloseNothing, CloseBegins, Over, Kill, BrowserTypes, Histories
  <1>16. CASE \E j \in Jobs : DogEnds(j)
    BY <1>16
    DEF DogEnds, CloseEnds, Over
  <1>17. CASE \/ Leave
             \/ ShutdownCloses
    BY <1>17, KillFacts
    DEF Leave, ShutdownCloses, jobVars, CloseNothing, CloseBegins
  <1>18. CASE \/ Left
             \/ ShutdownEnds
    BY <1>18
    DEF Left, ShutdownEnds, jobVars, CloseEnds
  <1> HIDE DEF Control, WorkerAt, Locks, Timers, Settled, TimedOut, RestTypes, Workers,
           Owners, Go, GoOn
  <1> QED
    BY <1>1, <1>2, <1>3, <1>4, <1>5, <1>6, <1>7, <1>8, <1>9, <1>10, <1>11, <1>12, <1>13,
       <1>14, <1>15, <1>16, <1>17, <1>18
    DEF Next, JobStep, DogStep, BrowserStep, LoadStep, HelperStep, StopStep

\* Only those who may end the browser under a handler do.
LEMMA CauseStep ==
  ASSUME BrowserTypes, RestTypes, Control, Locks, Timers, JobKeepsBrowser, [Next]_vars
  PROVE  JobKeepsBrowser'
  <1> USE BrowserAssumption DEF BrowserTypes, Control, WorkerAt, HelperAt, Driving, Locks,
          Timers, JobKeepsBrowser, Workers, Owners, Go, GoOn
  <1>1. CASE \/ CheckStop
             \/ IdleTick
             \/ \E j \in Jobs : TakeJob(j)
             \/ LockForJob
             \/ Verdict
    BY <1>1
    DEF CheckStop, IdleTick, TakeJob, LockForJob, Verdict, jobVars
  <1>2. CASE Settle
    BY <1>2
    DEF Settle, Histories
  <1>3. CASE \/ Rebuilt
             \/ MarkFinished
    BY <1>3
    DEF Rebuilt, MarkFinished, jobVars
  <1>4. CASE \/ PrewarmBegins
             \/ HelperLocks
             \/ Prewarmed
             \/ PreloadBegins
             \/ PreloadNext
    BY <1>4
    DEF PrewarmBegins, HelperLocks, Prewarmed, PreloadBegins, PreloadNext, jobVars
  <1>5. CASE \/ \E j \in Jobs : DogFires(j)
             \/ Shutdown
             \/ RefreshProcessTracking
             \/ \E S \in SUBSET Products : ConfigureWarmTabs(S)
             \/ \E p \in Products : TabRested(p)
             \/ SiteCooled
             \/ UNCHANGED vars
    BY <1>5
    DEF DogFires, Shutdown, RefreshProcessTracking, ConfigureWarmTabs, TabRested, SiteCooled,
        vars, jobVars, Histories
  <1>6. CASE \/ \E t \in Workers : LoadBegins(t)
             \/ \E t \in Workers : LoadOpens(t)
             \/ \E t \in Workers : LoadEnds(t)
             \/ \E t \in Workers : LoadFails(t)
    BY <1>6
    DEF LoadBegins, LoadOpens, LoadEnds, LoadFails, LoadOver, Loading, jobVars
  <1>7. CASE StartAction
    BY <1>7
    DEF StartAction, HandlerEnds, Drive, UseTab, Histories
  <1>8. CASE \/ NoDriver
             \/ HandlerReturns
             \/ HandlerRaises
    BY <1>8
    DEF NoDriver, HandlerReturns, HandlerRaises, HandlerEnds
  <1>9. CASE RebuildDriver
    BY <1>9
    DEF RebuildDriver, jobVars, BeginDriver
  <1>10. CASE \E t \in Workers : EnsureDriver(t)
    BY <1>10, KillFacts
    DEF EnsureDriver, jobVars, BeginDriver
  <1>11. CASE \E t \in Workers : InitDriver(t)
    BY <1>11
    DEF InitDriver, jobVars, Histories
  <1>12. CASE \E j \in Jobs : DogCloses(j)
    BY <1>12
    DEF DogCloses, CloseNothing, CloseBegins, Kill, Histories
  <1>13. CASE \/ \E j \in Jobs : DogEnds(j)
             \/ Left
             \/ ShutdownEnds
    BY <1>13
    DEF DogEnds, Left, ShutdownEnds, jobVars, CloseEnds
  <1>14. CASE \/ Leave
             \/ ShutdownCloses
    BY <1>14, KillFacts
    DEF Leave, ShutdownCloses, jobVars, CloseNothing, CloseBegins
  <1>15. CASE Crash
    BY <1>15
    DEF Crash, jobVars, Histories
  <1> HIDE DEF BrowserTypes, Control, WorkerAt, HelperAt, Driving, Locks, Timers,
           JobKeepsBrowser, Workers, Owners, Go, GoOn
  <1> QED
    BY <1>1, <1>2, <1>3, <1>4, <1>5, <1>6, <1>7, <1>8, <1>9, <1>10, <1>11, <1>12, <1>13,
       <1>14, <1>15
    DEF Next, JobStep, DogStep, BrowserStep, LoadStep, HelperStep, StopStep

\* The tabs and the loads keep their types.
LEMMA TabTypesStep ==
  ASSUME BrowserTypes, Control, TabTypes, [Next]_vars
  PROVE  TabTypes'
  <1> USE BrowserAssumption DEF TabTypes, Workers
  <1>1. CASE \/ CheckStop
             \/ \E j \in Jobs : TakeJob(j)
             \/ LockForJob
             \/ NoDriver
             \/ HandlerReturns
             \/ HandlerRaises
             \/ Settle
             \/ Verdict
             \/ Rebuilt
             \/ MarkFinished
             \/ PrewarmBegins
             \/ Prewarmed
             \/ PreloadBegins
    BY <1>1
    DEF CheckStop, TakeJob, LockForJob, NoDriver, HandlerReturns, HandlerRaises, Settle,
        Verdict, Rebuilt, MarkFinished, PrewarmBegins, Prewarmed, PreloadBegins, tabVars
  <1>2. CASE \/ \E j \in Jobs : DogFires(j)
             \/ Shutdown
             \/ Crash
             \/ RefreshProcessTracking
             \/ UNCHANGED vars
             \/ \E t \in Workers : InitDriver(t)
    BY <1>2
    DEF DogFires, Shutdown, Crash, RefreshProcessTracking, vars, InitDriver, tabVars
  <1>3. CASE \/ \E j \in Jobs : DogCloses(j)
             \/ Leave
             \/ ShutdownCloses
    BY <1>3
    DEF DogCloses, Leave, ShutdownCloses, tabVars
  <1>4. CASE \/ \E j \in Jobs : DogEnds(j)
             \/ Left
             \/ ShutdownEnds
    BY <1>4
    DEF DogEnds, Left, ShutdownEnds, CloseEnds, Forget, Tabs
  <1>5. CASE \/ RebuildDriver
             \/ \E t \in Workers : EnsureDriver(t)
    BY <1>5
    DEF RebuildDriver, EnsureDriver, tabVars, BeginDriver, Forget, Tabs
  <1>6. CASE IdleTick
    BY <1>6, LoadFacts
    DEF IdleTick
  <1>7. CASE StartAction
    <2>1. Challenged(TargetOf[job]) \in [Products -> Tabs]
      BY ChallengedTypes
    <2>2. tabs' \in [Products -> Tabs]
      BY <1>7, <2>1 DEF StartAction, HandlerEnds, Drive, UseTab, Quarantine, Tabs
    <2> QED
      BY <1>7, <2>2 DEF StartAction, Drive, UseTab, Quarantine
  <1>8. CASE \E t \in Workers : LoadBegins(t)
    <2> SUFFICES ASSUME NEW t \in Workers, LoadBegins(t)
                 PROVE  TabTypes'
      BY <1>8
    <2>1. load[t].product \in Products =>
              [tabs[load[t].product] EXCEPT !.resting = TRUE] \in Tabs
      BY TabFacts
    <2>2. tabs' \in [Products -> Tabs]
      BY <2>1, SetLoadedTypes DEF LoadBegins
    <2>3. load' \in [Workers -> Loads]
      BY LoadOverTypes DEF LoadBegins
    <2> QED
      BY <2>2, <2>3 DEF LoadBegins
  <1>9. CASE \E t \in Workers : LoadOpens(t)
    BY <1>9
    DEF LoadOpens, BrowserTypes, SetLoaded, Loads, Tabs
  <1>10. CASE \E t \in Workers : LoadEnds(t)
    <2> SUFFICES ASSUME NEW t \in Workers, LoadEnds(t)
                 PROVE  TabTypes'
      BY <1>10
    <2> DEFINE p == load[t].product
    <2>1. p \in Products =>
              /\ [tabs[p] EXCEPT !.resting = TRUE] \in Tabs
              /\ [tabs[p] EXCEPT !.blocked = FALSE, !.resting = FALSE] \in Tabs
      BY TabFacts
    <2>2. Challenged(p) \in [Products -> Tabs]
      BY ChallengedTypes
    <2>3. tabs' \in [Products -> Tabs]
      BY <2>1, <2>2, SetLoadedTypes DEF LoadEnds, Quarantine
    <2>4. load' \in [Workers -> Loads]
      BY LoadOverTypes DEF LoadEnds
    <2> QED
      BY <2>3, <2>4 DEF LoadEnds, Quarantine, Recovered
  <1>11. CASE \E t \in Workers : LoadFails(t)
    <2> SUFFICES ASSUME NEW t \in Workers, LoadFails(t)
                 PROVE  TabTypes'
      BY <1>11
    <2>1. load[t].product \in Products =>
              [tabs[load[t].product] EXCEPT !.resting = TRUE] \in Tabs
      BY TabFacts
    <2>2. tabs' \in [Products -> Tabs]
      BY <2>1, SetLoadedTypes DEF LoadFails
    <2>3. load' \in [Workers -> Loads]
      <3>1. NoLoad \in Loads
        BY DEF NoLoad, Loads
      <3> QED
        BY <3>1, LoadOverTypes DEF LoadFails
    <2> QED
      BY <2>2, <2>3 DEF LoadFails
  <1>12. CASE HelperLocks
    <2>1. Snapshot \subseteq Loads
      BY LoadFacts DEF Snapshot
    <2> QED
      BY <1>12, <2>1 DEF HelperLocks
  <1>13. CASE PreloadNext
    BY <1>13
    DEF PreloadNext
  <1>14. CASE \E S \in SUBSET Products : ConfigureWarmTabs(S)
    <2> SUFFICES ASSUME NEW S \in SUBSET Products, ConfigureWarmTabs(S)
                 PROVE  TabTypes'
      BY <1>14
    <2>1. tabs' \in [Products -> Tabs]
      BY DEF ConfigureWarmTabs, NoTab, Tabs
    <2>2. \A t \in Workers : Detached(load[t]) \in Loads
      BY LoadFacts
    <2>3. load' \in [Workers -> Loads] /\ todo' \subseteq Loads
      BY <2>2, LoadFacts DEF ConfigureWarmTabs
    <2> QED
      BY <2>1, <2>3 DEF ConfigureWarmTabs
  <1>15. CASE \E p \in Products : TabRested(p)
    <2> SUFFICES ASSUME NEW p \in Products, TabRested(p)
                 PROVE  TabTypes'
      BY <1>15
    <2> QED
      BY DEF TabRested, Tabs
  <1>16. CASE SiteCooled
    BY <1>16
    DEF SiteCooled
  <1> HIDE DEF TabTypes, Workers
  <1> QED
    BY <1>1, <1>2, <1>3, <1>4, <1>5, <1>6, <1>7, <1>8, <1>9, <1>10, <1>11, <1>12, <1>13,
       <1>14, <1>15, <1>16
    DEF Next, JobStep, DogStep, BrowserStep, LoadStep, HelperStep, StopStep

\* While one is started or closed there is no other; what is left of a half start is an
\* orphan, and ended first.
LEMMA OneChromeStep ==
  ASSUME BrowserTypes, Control, Locks, OneChrome, [Next]_vars
  PROVE  OneChrome'
  <1> USE BrowserAssumption DEF Control, WorkerAt, Locks, OneChrome, BrowserTypes, Workers,
          Owners, Go, GoOn
  <1>1. CASE \/ CheckStop
             \/ IdleTick
             \/ \E j \in Jobs : TakeJob(j)
             \/ LockForJob
             \/ Verdict
             \/ Rebuilt
             \/ MarkFinished
    BY <1>1
    DEF CheckStop, IdleTick, TakeJob, LockForJob, Verdict, Rebuilt, MarkFinished, browserVars
  <1>2. CASE StartAction
    BY <1>2
    DEF StartAction, HandlerEnds, Drive, UseTab, Histories, browserVars
  <1>3. CASE \/ NoDriver
             \/ HandlerReturns
             \/ HandlerRaises
             \/ Settle
    BY <1>3
    DEF NoDriver, HandlerReturns, HandlerRaises, Settle, HandlerEnds, Histories, browserVars
  <1>4. CASE \/ \E t \in Workers : LoadBegins(t)
             \/ \E t \in Workers : LoadEnds(t)
    BY <1>4
    DEF LoadBegins, LoadEnds, LoadOver, browserVars
  <1>5. CASE \/ \E t \in Workers : LoadOpens(t)
             \/ \E t \in Workers : LoadFails(t)
    BY <1>5
    DEF LoadOpens, LoadFails, LoadOver, Loading, browserVars
  <1>6. CASE \/ PrewarmBegins
             \/ HelperLocks
             \/ Prewarmed
             \/ PreloadBegins
             \/ PreloadNext
    BY <1>6
    DEF PrewarmBegins, HelperLocks, Prewarmed, PreloadBegins, PreloadNext, browserVars
  <1>7. CASE \/ \E j \in Jobs : DogFires(j)
             \/ Shutdown
             \/ RefreshProcessTracking
             \/ \E S \in SUBSET Products : ConfigureWarmTabs(S)
             \/ \E p \in Products : TabRested(p)
             \/ SiteCooled
             \/ UNCHANGED vars
    BY <1>7
    DEF DogFires, Shutdown, RefreshProcessTracking, ConfigureWarmTabs, TabRested, SiteCooled,
        vars, browserVars, Histories
  <1>8. CASE RebuildDriver
    BY <1>8, KillFacts
    DEF RebuildDriver, BeginDriver, CloseOldAppDriverProcesses, Orphans
  <1>9. CASE \E t \in Workers : InitDriver(t)
    <2> SUFFICES ASSUME NEW t \in Workers, InitDriver(t), ~hist.unkilled, ~hist.adopted
                 PROVE  OneChrome'
      BY <1>9 DEF InitDriver, Histories
    <2>1. browsers = {} /\ chromePid = driver /\ driverLock' = "free"
      BY DEF InitDriver
    <2>2. /\ hist'.late = (hist.late \/ (t = "helper" /\ at.worker = "ended")) \/ browsers' = {}
          /\ at' = [at EXCEPT ![t] = at'[t]] /\ at'[t] # "ended"
      BY <2>1 DEF InitDriver, Histories
    <2> DEFINE s == CHOOSE x \in FreeSessions : TRUE
    <2>3. browsers' \in {{}, {s}} /\ chromePid' = driver'
      BY <2>1 DEF InitDriver
    <2> QED
      BY <2>1, <2>2, <2>3
  <1>10. CASE \E t \in Workers : EnsureDriver(t)
    BY <1>10, KillFacts
    DEF EnsureDriver, BeginDriver, browserVars, CloseOldAppDriverProcesses, Orphans
  <1>11. CASE \E j \in Jobs : DogCloses(j)
    BY <1>11
    DEF DogCloses, CloseNothing, CloseBegins, Orphans, Kill, Histories
  <1>12. CASE \/ Leave
             \/ ShutdownCloses
    BY <1>12
    DEF Leave, ShutdownCloses, CloseNothing, CloseBegins, Orphans, Kill, Histories
  <1>13. CASE \/ \E j \in Jobs : DogEnds(j)
             \/ Left
             \/ ShutdownEnds
    BY <1>13
    DEF DogEnds, Left, ShutdownEnds, CloseEnds
  <1>14. CASE Crash
    BY <1>14
    DEF Crash, Histories
  <1> HIDE DEF Control, WorkerAt, Locks, OneChrome, BrowserTypes, Workers, Owners, Go, GoOn
  <1> QED
    BY <1>1, <1>2, <1>3, <1>4, <1>5, <1>6, <1>7, <1>8, <1>9, <1>10, <1>11, <1>12, <1>13, <1>14
    DEF Next, JobStep, DogStep, BrowserStep, LoadStep, HelperStep, StopStep

-----------------------------------------------------------------------------
\* A worker starts without browser, lock, job or timer.
LEMMA InitInv == Init => IInv
  <1> SUFFICES ASSUME Init
               PROVE  IInv
    OBVIOUS
  <1> USE BrowserAssumption DEF Init, NoTab, NoLoad
  <1>1. TabTypes
    BY DEF TabTypes, Loads, Tabs
  <1>2. BrowserTypes /\ RestTypes
    BY DEF BrowserTypes, Histories, RestTypes
  <1>3. Control
    BY DEF Control, WorkerAt, HelperAt, WorkerPlaces, HelperPlaces, Workers
  <1>4. Locks
    BY DEF Locks, Driving, Workers, Owners
  <1>5. Timers /\ JobKeepsBrowser /\ OneChrome
    BY DEF Timers, Settled, TimedOut, JobKeepsBrowser, OneChrome
  <1> QED
    BY <1>1, <1>2, <1>3, <1>4, <1>5 DEF IInv

\* Every step, of whichever thread, keeps the inductive invariant.
LEMMA StepInv == IInv /\ [Next]_vars => IInv'
  BY TabTypesStep, BrowserTypesStep, RestTypesStep, ControlStep, LocksStep, TimersStep,
     CauseStep, OneChromeStep DEF IInv

\* The inductive invariant holds throughout.
THEOREM BrowserInvariant == Spec => []IInv
  BY InitInv, StepInv, PTL DEF Spec

-----------------------------------------------------------------------------
(* What follows from it.                                                   *)

\* The types, and the discipline of the two locks.
LEMMA InvTypes == IInv => TypeOK
  <1> SUFFICES ASSUME IInv
               PROVE  TypeOK
    OBVIOUS
  <1>1. /\ at.worker \in WorkerPlaces /\ at.helper \in HelperPlaces
        /\ errand.worker \in {"none", "job", "rebuild", "refresh"}
        /\ errand.helper \in {"none", "prewarm", "preload"}
        /\ job \in Jobs \cup {None}
    BY DEF IInv, Control, WorkerAt, HelperAt, WorkerPlaces, HelperPlaces
  <1>2. tabs \in [Products -> [on : BOOLEAN, handle : Sessions \cup {None},
                              blocked : BOOLEAN, resting : BOOLEAN]]
    BY DEF IInv, TabTypes, Tabs
  <1> QED
    BY <1>1, <1>2 DEF IInv, TypeOK, TabTypes, BrowserTypes, RestTypes, Locks

\* One Chrome is at most one.
LEMMA InvOneChrome == IInv => NoOrphanBrowser
  <1> SUFFICES ASSUME IInv, ~hist.unkilled, ~hist.adopted
               PROVE  NoOrphanBrowser
    BY DEF NoOrphanBrowser
  <1>1. \A a, b \in browsers : a = b
    BY DEF IInv, OneChrome
  <1>2. Cardinality(browsers) <= 1
    <2>1. CASE browsers = {}
      BY <2>1, FS_EmptySet
    <2>2. CASE browsers # {}
      <3>1. PICK s \in browsers : browsers = {s}
        BY <1>1, <2>2
      <3> QED
        BY <3>1, FS_Singleton
    <2> QED
      BY <2>1, <2>2
  <1> QED
    BY <1>2 DEF IInv, OneChrome, NoOrphanBrowser

\* The state of the browser, its locks, timers and tabs stays well-typed, and
\* each lock is held exactly by the thread inside its block.
THEOREM TypeCorrect == Spec => []TypeOK
  BY BrowserInvariant, InvTypes, PTL

\* No prewarm, preload, refresh or timer of a job that ended in time ends the
\* browser under the handler that drives it.
THEOREM BrowserKept == Spec => []JobKeepsBrowser
  <1>1. IInv => JobKeepsBrowser
    BY DEF IInv
  <1> QED
    BY <1>1, BrowserInvariant, PTL

\* One Chrome at a time, and none left behind by a worker that has ended.
THEOREM NoOrphans == Spec => []NoOrphanBrowser
  BY BrowserInvariant, InvOneChrome, PTL

\* Where every kill succeeds and every start that fails leaves nothing behind,
\* no other exception remains: the one Chrome alive is the driver's, however
\* jobs, timers, the prewarm, refreshes, crashes and a stop overlap.
Owned == ~hist.unkilled /\ ~hist.adopted /\ browsers \subseteq {driver}

LEMMA OwnedStep ==
  ASSUME Events \cap {"kill_fails", "half_start"} = {}, BrowserTypes, Control, Locks, OneChrome,
         Owned, [Next]_vars
  PROVE  Owned'
  <1>1. /\ chromePid = driver
        /\ driverLock # "free" => browsers = {}
        /\ browsers \subseteq Sessions /\ None \notin Sessions
        /\ \A t \in Workers : at[t] = "starting" => driverLock = t
        /\ hist \in Histories
    BY BrowserAssumption DEF Owned, OneChrome, Locks, BrowserTypes
  <1>2. \A who, doomed : Kill(who, doomed) =>
            browsers' = browsers \ doomed /\ ~hist'.unkilled /\ ~hist'.adopted
    BY <1>1 DEF Kill, Event, Owned, Histories
  <1>3. \A who \in Owners : CloseNothing(who) \/ CloseBegins(who) \/ CloseEnds(who) => Owned'
    <2> SUFFICES ASSUME NEW who \in Owners
                 PROVE  CloseNothing(who) \/ CloseBegins(who) \/ CloseEnds(who) => Owned'
      OBVIOUS
    <2>1. who # "free"
      BY BrowserAssumption DEF Owners, Workers
    <2>2. CASE CloseNothing(who)
      BY <1>1, <1>2, <2>2 DEF CloseNothing, Orphans, Owned
    <2>3. CASE CloseBegins(who)
      BY <1>2, <2>3 DEF CloseBegins, Owned
    <2>4. CASE CloseEnds(who)
      BY <1>1, <2>1, <2>4 DEF CloseEnds, Owned
    <2> QED
      BY <2>2, <2>3, <2>4
  <1>4. \A t \in Workers : BeginDriver(t) => Owned'
    <2>1. ASSUME NEW t \in Workers, BeginDriver(t)
          PROVE  browsers' = {}
      BY <1>1, <1>2, <2>1 DEF BeginDriver, CloseOldAppDriverProcesses, Orphans, Owned
    <2> QED
      BY <1>2, <2>1 DEF BeginDriver, Owned
  <1>5. (UNCHANGED <<driver, browsers>>) /\ hist'.unkilled = hist.unkilled
          /\ hist'.adopted = hist.adopted => Owned'
    BY DEF Owned
  <1>6. CASE \E t \in Workers : InitDriver(t)
    <2> PICK t \in Workers : InitDriver(t)
      BY <1>6
    <2>1. browsers = {}
      <3>1. driverLock = t /\ t # "free"
        BY <1>1 DEF InitDriver, Workers
      <3> QED
        BY <1>1, <3>1
    <2>2. browsers' = {} \/ browsers' = {driver'}
      BY <2>1 DEF InitDriver, Event
    <2>3. hist'.unkilled = hist.unkilled /\ hist'.adopted = hist.adopted
      BY <1>1 DEF InitDriver, Histories
    <2> QED
      BY <2>2, <2>3 DEF Owned
  <1>7. CASE RefreshProcessTracking
    BY <1>1, <1>7 DEF RefreshProcessTracking, Owned
  <1>8. CASE Crash
    BY <1>1, <1>8 DEF Crash, Histories, Owned
  <1>9. CASE RebuildDriver \/ \E t \in Workers : EnsureDriver(t)
    <2>1. \/ \E t \in Workers : BeginDriver(t)
          \/ UNCHANGED <<browserVars, hist>>
      BY <1>9 DEF RebuildDriver, EnsureDriver, Workers
    <2> QED
      BY <1>4, <1>5, <2>1 DEF browserVars
  <1>10. CASE \/ Leave \/ Left \/ ShutdownCloses \/ ShutdownEnds
              \/ \E j \in Jobs : DogCloses(j) \/ DogEnds(j)
    BY <1>3, <1>5, <1>10
    DEF Leave, Left, ShutdownCloses, ShutdownEnds, DogCloses, DogEnds, browserVars, Owners, Workers
  <1>11. CASE \/ StartAction \/ NoDriver \/ HandlerReturns \/ HandlerRaises \/ Settle
    BY <1>1, <1>5, <1>11
    DEF StartAction, HandlerEnds, Drive, UseTab, NoDriver, HandlerReturns, HandlerRaises, Settle,
        Histories, browserVars
  <1>12. CASE \/ CheckStop \/ IdleTick \/ LockForJob \/ Verdict \/ Rebuilt \/ MarkFinished
              \/ \E j \in Jobs : TakeJob(j)
    BY <1>5, <1>12
    DEF CheckStop, IdleTick, TakeJob, LockForJob, Verdict, Rebuilt, MarkFinished, browserVars
  <1>13. CASE \E t \in Workers : LoadStep(t)
    BY <1>5, <1>13 DEF LoadStep, LoadBegins, LoadEnds, LoadOpens, LoadFails, Loading, LoadOver,
       browserVars
  <1>14. CASE PrewarmBegins \/ HelperStep
    BY <1>5, <1>14 DEF HelperStep, PrewarmBegins, HelperLocks, Prewarmed, PreloadBegins,
       PreloadNext, browserVars
  <1>15. CASE \/ \E j \in Jobs : DogFires(j)
              \/ Shutdown
              \/ \E S \in SUBSET Products : ConfigureWarmTabs(S)
              \/ \E p \in Products : TabRested(p)
              \/ SiteCooled
              \/ UNCHANGED vars
    BY <1>5, <1>15
    DEF DogFires, Shutdown, ConfigureWarmTabs, TabRested, SiteCooled, vars, browserVars
  <1> QED
    BY <1>6, <1>7, <1>8, <1>9, <1>10, <1>11, <1>12, <1>13, <1>14, <1>15
    DEF Next, JobStep, DogStep, BrowserStep, StopStep

THEOREM DriversChromeOnly ==
  ASSUME Events \cap {"kill_fails", "half_start"} = {}
  PROVE  Spec => [](browsers \subseteq {driver})
  <1>1. Init => Owned
    BY DEF Init, Owned
  <1>2. IInv /\ Owned /\ [Next]_vars => Owned'
    BY OwnedStep DEF IInv
  <1>3. Owned => browsers \subseteq {driver}
    BY DEF Owned
  <1> QED
    BY <1>1, <1>2, <1>3, BrowserInvariant, PTL DEF Spec
=============================================================================
