-------------------------- MODULE SeleniumDispatcher --------------------------
(***************************************************************************)
(* The Selenium job queue of one runtime: the dispatcher through which the *)
(* scan loops hand purchase jobs over, the single worker thread that       *)
(* consumes them, the operator's "clear stale actions", the lifecycle      *)
(* calls of the runtime manager, and the join of a "once" run.             *)
(*                                                                         *)
(* A job is its dispatcher key `site|case|external_id`: everything the     *)
(* dispatcher decides, it decides on that key.  The loop thread runs both  *)
(* the scans and the watchlist, so one `caller` stands for all submitters. *)
(* The dispatcher's `_lock` is held for a whole `clear_pending`            *)
(* (clearing # NotClearing) but the queue's own mutex is not, so the       *)
(* worker may take a job between two steps of the drain.  `_lifecycle_lock`*)
(* is held while `stop` joins the worker (lifecycle = "stopping").         *)
(***************************************************************************)
EXTENDS Naturals, Sequences, FiniteSets, SequencesExt

CONSTANTS
    Keys,          \* job keys
    Sites,         \* retailers
    SiteOf,        \* SiteOf[k]: the retailer of key k
    NoKey,         \* the worker holds no job
    AllSites,      \* clear_pending(site=None)
    NotClearing,   \* no clear_pending is in progress
    Events,        \* environment events this instance admits
    MaxQueue,      \* bound on the queue's length (queue.Queue is unbounded)
    MaxDeaths      \* bound on the worker threads that die with a job in hand

EventNames ==
    {"stop",            \* the runtime manager stops the dispatcher
     "clear",           \* the operator clears stale actions
     "other_worker",    \* another runtime's worker thread may be alive
     "factory_raises",  \* the worker factory may raise
     "thread_raises",   \* Thread.start may raise
     "job_raises"}      \* recording a job's failure may raise

ASSUME SitesAssumption == SiteOf \in [Keys -> Sites]
ASSUME SentinelAssumption ==
    /\ NoKey \notin Keys
    /\ AllSites \notin Sites
    /\ NotClearing \notin Sites \cup {AllSites}
ASSUME BoundAssumption == MaxQueue \in Nat /\ MaxDeaths \in Nat
ASSUME EventAssumption == Events \subseteq EventNames

VARIABLES
    queue,        \* job_queue: the FIFO of waiting jobs
    unfinished,   \* job_queue.unfinished_tasks, what join() waits for
    pending,      \* _pending_keys (and the keys of _pending_jobs)
    running,      \* _running_keys (and the keys of _running_jobs)
    lifecycle,    \* _lifecycle_state
    worker,       \* the thread of _worker: where it is in run()
    hand,         \* the job the worker thread has taken off the queue
    stopEvent,    \* stop_event of that worker
    caller,       \* the loop thread: between calls, inside submit, in join
    clearing,     \* the site clear_pending is working on
    kept,         \* jobs clear_pending took off the queue and will put back
    otherWorker,  \* SeleniumWorker._active_worker is another live thread
    deaths,       \* worker threads that died with a job in hand
    raced         \* history: a clear dropped the key of a job already in hand

vars == <<queue, unfinished, pending, running, lifecycle, worker, hand,
          stopEvent, caller, clearing, kept, otherWorker, deaths, raced>>

queueVars  == <<queue, unfinished>>
keyVars    == <<pending, running>>
workerVars == <<worker, hand, stopEvent, deaths>>
clearVars  == <<clearing, kept>>

LifecycleStates == {"stopped", "starting", "running", "stopping"}

\* "absent": no worker object; "unstarted": an object whose thread never ran.
ThreadStates == {"absent", "unstarted", "check", "idle", "got", "started",
                 "finished", "exiting", "dead"}

Alive == worker \notin {"absent", "unstarted", "dead"}
Holding == worker \in {"got", "started", "finished"}
LifecycleLockFree == lifecycle # "stopping"
LockFree == clearing = NotClearing
Matches(site, k) == site = AllSites \/ SiteOf[k] = site

Init ==
    /\ queue = <<>>
    /\ unfinished = 0
    /\ pending = {}
    /\ running = {}
    /\ lifecycle = "stopped"
    /\ worker = "absent"
    /\ hand = NoKey
    /\ stopEvent = FALSE
    /\ caller = "idle"
    /\ clearing = NotClearing
    /\ kept = <<>>
    /\ otherWorker = FALSE
    /\ deaths = 0
    /\ raced = FALSE

-----------------------------------------------------------------------------
(* Submitting.  A key that is pending or running is answered               *)
(* already_queued / already_running and nothing changes, not even the      *)
(* worker is started; any other job is queued under _lock and start() is   *)
(* called after the lock is released, hence the two steps.                 *)

SubmitEnqueue(k) ==
    /\ caller = "idle"
    /\ LockFree
    /\ k \notin running
    /\ k \notin pending
    /\ Len(queue) < MaxQueue
    /\ pending' = pending \cup {k}
    /\ queue' = Append(queue, k)
    /\ unfinished' = unfinished + 1
    /\ caller' = "submitted"
    /\ UNCHANGED <<running, lifecycle, workerVars, clearVars, otherWorker, raced>>

\* start(): refused while the lifecycle says a worker is there or one is alive.
StartRefused == lifecycle \in {"starting", "running"} \/ Alive

FreshWorker(thread) ==
    /\ worker' = thread
    /\ hand' = NoKey
    /\ stopEvent' = FALSE
    /\ UNCHANGED deaths

Start ==
    /\ LifecycleLockFree
    /\ \/ /\ StartRefused
          /\ UNCHANGED <<lifecycle, workerVars>>
       \/ /\ ~StartRefused                 \* the thread runs
          /\ ~otherWorker
          /\ lifecycle' = "running"
          /\ FreshWorker("check")
       \/ /\ ~StartRefused                 \* worker.start() returns False
          /\ otherWorker
          /\ lifecycle' = "stopped"
          /\ FreshWorker("unstarted")
       \/ /\ ~StartRefused                 \* worker_factory() raises
          /\ "factory_raises" \in Events
          /\ lifecycle' = "starting"
          /\ UNCHANGED workerVars
       \/ /\ ~StartRefused                 \* worker.start() raises
          /\ "thread_raises" \in Events
          /\ lifecycle' = "stopped"
          /\ FreshWorker("unstarted")

SubmitStart ==
    /\ caller = "submitted"
    /\ Start
    /\ caller' = "idle"
    /\ UNCHANGED <<queueVars, keyVars, clearVars, otherWorker, raced>>

\* prewarm_browser(), from a pool thread at the start of a runtime.
Prewarm ==
    /\ Start
    /\ UNCHANGED <<queueVars, keyVars, caller, clearVars, otherWorker, raced>>

-----------------------------------------------------------------------------
(* The worker thread's loop.                                               *)

WorkerCheckStop ==
    /\ worker = "check"
    /\ worker' = IF stopEvent THEN "exiting" ELSE "idle"
    /\ UNCHANGED <<queueVars, keyVars, lifecycle, hand, stopEvent, deaths,
                   caller, clearVars, otherWorker, raced>>

\* job_queue.get(timeout=0.5) times out on an empty queue.
WorkerTimeout ==
    /\ worker = "idle"
    /\ queue = <<>>
    /\ worker' = "check"
    /\ UNCHANGED <<queueVars, keyVars, lifecycle, hand, stopEvent, deaths,
                   caller, clearVars, otherWorker, raced>>

WorkerGet ==
    /\ worker = "idle"
    /\ queue # <<>>
    /\ hand' = Head(queue)
    /\ queue' = Tail(queue)
    /\ worker' = "got"
    /\ UNCHANGED <<unfinished, keyVars, lifecycle, stopEvent, deaths, caller,
                   clearVars, otherWorker, raced>>

\* Mutant: mark_started forgets to enter the key in _running_keys.
MarkStarted_NotRunning ==
    /\ worker = "got"
    /\ LockFree
    /\ pending' = pending \ {hand}
    /\ worker' = "started"
    /\ UNCHANGED <<queueVars, running, lifecycle, hand, stopEvent, deaths,
                   caller, clearVars, otherWorker, raced>>


MarkStarted ==
    /\ worker = "got"
    /\ LockFree
    /\ pending' = pending \ {hand}
    /\ running' = running \cup {hand}
    /\ worker' = "started"
    /\ UNCHANGED <<queueVars, lifecycle, hand, stopEvent, deaths, caller,
                   clearVars, otherWorker, raced>>

\* Mutant: mark_finished acknowledges the job, and the loop does so again.
MarkFinished_TaskDoneTwice ==
    /\ worker = "started"
    /\ LockFree
    /\ running' = running \ {hand}
    /\ unfinished' = unfinished - 1
    /\ worker' = "finished"
    /\ UNCHANGED <<queue, pending, lifecycle, hand, stopEvent, deaths,
                   caller, clearVars, otherWorker, raced>>


MarkFinished ==
    /\ worker = "started"
    /\ LockFree
    /\ running' = running \ {hand}
    /\ worker' = "finished"
    /\ UNCHANGED <<queueVars, pending, lifecycle, hand, stopEvent, deaths,
                   caller, clearVars, otherWorker, raced>>

\* Mutant: task_done is outside the finally, and skipped when a job fails.
WorkerTaskDone_NotAlways ==
    /\ worker = "finished"
    /\ unfinished' \in {unfinished - 1, unfinished}
    /\ hand' = NoKey
    /\ worker' = "check"
    /\ UNCHANGED <<queue, keyVars, lifecycle, stopEvent, deaths, caller,
                   clearVars, otherWorker, raced>>


WorkerTaskDone ==
    /\ worker = "finished"
    /\ unfinished' = unfinished - 1
    /\ hand' = NoKey
    /\ worker' = "check"
    /\ UNCHANGED <<queue, keyVars, lifecycle, stopEvent, deaths, caller,
                   clearVars, otherWorker, raced>>

\* An exception in the `finally` block before mark_finished (the action log on
\* a locked database) leaves run() with the job still marked running.
WorkerDies ==
    /\ worker = "started"
    /\ deaths < MaxDeaths
    /\ deaths' = deaths + 1
    /\ hand' = NoKey
    /\ worker' = "exiting"
    /\ UNCHANGED <<queueVars, keyVars, lifecycle, stopEvent, caller,
                   clearVars, otherWorker, raced>>

\* An exception in the handler's `except` block (recording the failure on a
\* locked database) leaves run() after its `finally` has settled the job.
WorkerRaises ==
    /\ "job_raises" \in Events
    /\ worker = "check"
    /\ worker' = "exiting"
    /\ UNCHANGED <<queueVars, keyVars, lifecycle, hand, stopEvent, deaths,
                   caller, clearVars, otherWorker, raced>>

\* run()'s outer finally: the browser is closed and the active slot released.
WorkerExit ==
    /\ worker = "exiting"
    /\ worker' = "dead"
    /\ UNCHANGED <<queueVars, keyVars, lifecycle, hand, stopEvent, deaths,
                   caller, clearVars, otherWorker, raced>>

-----------------------------------------------------------------------------
(* stop(): shutdown, a join with a timeout, and the verdict.               *)

StopRequest ==
    /\ "stop" \in Events
    /\ LifecycleLockFree
    /\ IF worker = "absent"
         THEN /\ lifecycle' = "stopped"
              /\ UNCHANGED stopEvent
         ELSE /\ lifecycle' = "stopping"
              /\ stopEvent' = TRUE
    /\ UNCHANGED <<queueVars, keyVars, worker, hand, deaths, caller,
                   clearVars, otherWorker, raced>>

StopJoined ==
    /\ lifecycle = "stopping"
    /\ ~Alive
    /\ lifecycle' = "stopped"
    /\ UNCHANGED <<queueVars, keyVars, workerVars, caller, clearVars,
                   otherWorker, raced>>

\* Mutant: stop() reports stopped even though its join timed out.
StopTimedOut_Stopped ==
    /\ lifecycle = "stopping"
    /\ Alive
    /\ lifecycle' = "stopped"
    /\ UNCHANGED <<queueVars, keyVars, workerVars, caller, clearVars,
                   otherWorker, raced>>


StopTimedOut ==
    /\ lifecycle = "stopping"
    /\ Alive
    /\ lifecycle' = "running"
    /\ UNCHANGED <<queueVars, keyVars, workerVars, caller, clearVars,
                   otherWorker, raced>>

-----------------------------------------------------------------------------
(* clear_pending(site): drain the queue job by job, put back the jobs of   *)
(* other sites, then drop every remaining pending key of the site, which   *)
(* includes that of a job the worker holds but has not marked started.     *)

ClearBegin(site) ==
    /\ "clear" \in Events
    /\ LockFree
    /\ clearing' = site
    /\ kept' = <<>>
    /\ UNCHANGED <<queueVars, keyVars, lifecycle, workerVars, caller,
                   otherWorker, raced>>

\* Mutant: the drain forgets task_done.
ClearTake_NoTaskDone ==
    /\ ~LockFree
    /\ queue # <<>>
    /\ queue' = Tail(queue)
    /\ IF Matches(clearing, Head(queue))
         THEN /\ pending' = pending \ {Head(queue)}
              /\ UNCHANGED kept
         ELSE /\ kept' = Append(kept, Head(queue))
              /\ UNCHANGED pending
    /\ UNCHANGED <<unfinished, running, lifecycle, workerVars, caller,
                   clearing, otherWorker, raced>>


ClearTake ==
    /\ ~LockFree
    /\ queue # <<>>
    /\ queue' = Tail(queue)
    /\ unfinished' = unfinished - 1
    /\ IF Matches(clearing, Head(queue))
         THEN /\ pending' = pending \ {Head(queue)}
              /\ UNCHANGED kept
         ELSE /\ kept' = Append(kept, Head(queue))
              /\ UNCHANGED pending
    /\ UNCHANGED <<running, lifecycle, workerVars, caller, clearing,
                   otherWorker, raced>>

StaleKeys == {k \in pending : Matches(clearing, k)}

\* Mutant: the stale-key sweep ignores the site and the jobs put back.
ClearFinish_AllKeys ==
    /\ ~LockFree
    /\ queue = <<>>
    /\ queue' = kept
    /\ unfinished' = unfinished + Len(kept)
    /\ pending' = {}
    /\ raced' = (raced \/ (worker = "got" /\ hand \in StaleKeys))
    /\ clearing' = NotClearing
    /\ kept' = <<>>
    /\ UNCHANGED <<running, lifecycle, workerVars, caller, otherWorker>>

\* Mutant: the jobs of other sites are not put back.
ClearFinish_LosesKept ==
    /\ ~LockFree
    /\ queue = <<>>
    /\ pending' = pending \ StaleKeys
    /\ raced' = (raced \/ (worker = "got" /\ hand \in StaleKeys))
    /\ clearing' = NotClearing
    /\ kept' = <<>>
    /\ UNCHANGED <<queueVars, running, lifecycle, workerVars, caller, otherWorker>>


ClearFinish ==
    /\ ~LockFree
    /\ queue = <<>>
    /\ queue' = kept
    /\ unfinished' = unfinished + Len(kept)
    /\ pending' = pending \ StaleKeys
    /\ raced' = (raced \/ (worker = "got" /\ hand \in StaleKeys))
    /\ clearing' = NotClearing
    /\ kept' = <<>>
    /\ UNCHANGED <<running, lifecycle, workerVars, caller, otherWorker>>

-----------------------------------------------------------------------------
(* A "once" run waits on the queue when its scans are done.                *)

JoinBegin ==
    /\ caller = "idle"
    /\ worker # "absent"
    /\ caller' = "joining"
    /\ UNCHANGED <<queueVars, keyVars, lifecycle, workerVars, clearVars,
                   otherWorker, raced>>

\* Mutant: the run waits for an empty queue, not for its unfinished tasks.
JoinReturn_EmptyQueue ==
    /\ caller = "joining"
    /\ queue = <<>>
    /\ caller' = "joined"
    /\ UNCHANGED <<queueVars, keyVars, lifecycle, workerVars, clearVars,
                   otherWorker, raced>>


JoinReturn ==
    /\ caller = "joining"
    /\ unfinished = 0
    /\ caller' = "joined"
    /\ UNCHANGED <<queueVars, keyVars, lifecycle, workerVars, clearVars,
                   otherWorker, raced>>

\* Another runtime's worker thread comes alive, or ends.
OtherWorker ==
    /\ "other_worker" \in Events
    /\ ~Alive
    /\ otherWorker' = ~otherWorker
    /\ UNCHANGED <<queueVars, keyVars, lifecycle, workerVars, caller,
                   clearVars, raced>>

-----------------------------------------------------------------------------
WorkerNext ==
    \/ WorkerCheckStop \/ WorkerTimeout \/ WorkerGet \/ MarkStarted
    \/ MarkFinished \/ WorkerTaskDone \/ WorkerDies \/ WorkerRaises \/ WorkerExit

StopNext == StopRequest \/ StopJoined \/ StopTimedOut

ClearNext ==
    \/ \E site \in Sites \cup {AllSites} : ClearBegin(site)
    \/ ClearTake
    \/ ClearFinish

Next ==
    \/ \E k \in Keys : SubmitEnqueue(k)
    \/ SubmitStart
    \/ Prewarm
    \/ WorkerNext
    \/ StopNext
    \/ ClearNext
    \/ JoinBegin
    \/ JoinReturn
    \/ OtherWorker

Spec == Init /\ [][Next]_vars

\* The threads of the program run: the worker's loop, the tail of submit, a
\* clear that has begun, a waiting join.  Whether anything is submitted,
\* cleared, stopped or dies is the environment's choice, and nothing says that
\* a stop or the end of a thread is through with the browser it closes.
Fairness ==
    /\ WF_vars(SubmitStart)
    /\ WF_vars(WorkerCheckStop)
    /\ WF_vars(WorkerTimeout)
    /\ WF_vars(WorkerGet)
    /\ WF_vars(MarkStarted)
    /\ WF_vars(MarkFinished)
    /\ WF_vars(WorkerTaskDone)
    /\ WF_vars(ClearTake)
    /\ WF_vars(ClearFinish)
    /\ WF_vars(JoinReturn)

FairSpec == Spec /\ Fairness

-----------------------------------------------------------------------------
(* Properties.                                                             *)

\* Type invariant of the dispatcher's state.
TypeOK ==
    /\ queue \in Seq(Keys)
    /\ kept \in Seq(Keys)
    /\ unfinished \in Nat
    /\ pending \subseteq Keys
    /\ running \subseteq Keys
    /\ lifecycle \in LifecycleStates
    /\ worker \in ThreadStates
    /\ hand \in Keys \cup {NoKey}
    /\ stopEvent \in BOOLEAN
    /\ caller \in {"idle", "submitted", "joining", "joined"}
    /\ clearing \in Sites \cup {AllSites, NotClearing}
    /\ otherWorker \in BOOLEAN
    /\ deaths \in Nat
    /\ raced \in BOOLEAN

\* unfinished_tasks counts exactly the jobs in the queue, the one in the
\* worker's hand and those a dying worker took with it; so task_done never
\* goes below zero, and a job that clear_pending keeps is counted once.
TasksBalance ==
    unfinished = Len(queue) + (IF Holding THEN 1 ELSE 0) + deaths

Waiting == ToSet(queue) \cup ToSet(kept)
InHand == IF worker \in {"got", "started"} THEN {hand} ELSE {}

\* Unless a clear hit a job between get() and mark_started, a key is queued
\* at most once, and never while the worker handles a job of the same key:
\* what submit's duplicate check is there for.
AtMostOneJobPerKey ==
    ~raced => /\ IsInjective(queue)
              /\ IsInjective(kept)
              /\ ToSet(queue) \cap ToSet(kept) = {}
              /\ Waiting \cap InHand = {}

\* Unless a clear hit a job in that window, the answer "already queued" is
\* true: every pending key has its job waiting or just taken by the worker,
\* and every waiting job has its key pending.
PendingKeysAreJobs ==
    ~raced => pending = Waiting \cup (IF worker = "got" THEN {hand} ELSE {})

\* stop() reports stopped only when no worker thread of this dispatcher is
\* left, so that closing the database after it is safe.
StoppedMeansNoThread == lifecycle = "stopped" => ~Alive

\* A "once" run's join returns only when every job was handled, except in the
\* middle of a clear, when the jobs it keeps are momentarily not counted.
JoinWaitsForJobs ==
    [][ caller = "joining" /\ caller' = "joined"
          => ~LockFree \/ (queue = <<>> /\ ~Holding) ]_vars

\* The operator does not clear for ever (who did could drain the queue each
\* time the worker looks at it).
ClearsEnd == <>[]LockFree

\* Every job accepted is eventually taken up or cleared.
Undisturbed ==
    []( /\ worker \notin {"unstarted", "exiting", "dead"}
        /\ lifecycle \in {"stopped", "running"}
        /\ ~stopEvent )
PendingKeysSettle == ClearsEnd /\ Undisturbed => \A k \in Keys : k \in pending ~> k \notin pending

\* A "once" run that waits for its jobs ends.
JoinReturns == ClearsEnd /\ Undisturbed => (caller = "joining" ~> caller = "joined")
=============================================================================
