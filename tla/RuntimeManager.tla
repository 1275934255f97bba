--------------------------- MODULE RuntimeManager ---------------------------
(***************************************************************************)
(* The runtime manager: which runtime is the current one, while operators  *)
(* and the timer start, stop and restart, and what becomes of a runtime's  *)
(* coroutine, its dispatcher and its worker thread.                        *)
(*                                                                         *)
(* A runtime is a coroutine on the manager's event loop, wrapped in a      *)
(* concurrent future.  Cancelling that future completes it at once; the    *)
(* coroutine hears of it later, from the loop, and then still has its      *)
(* `finally` block to run.  Every runtime has a dispatcher of its own, but *)
(* all worker threads of the process share one slot,                       *)
(* SeleniumWorker._active_worker.                                          *)
(*                                                                         *)
(* Runtimes are numbered in the order in which they are scheduled, which   *)
(* is the order in which the loop runs their first step.                   *)
(***************************************************************************)
EXTENDS Naturals

CONSTANTS
    MaxRuntimes,   \* bound on the runtimes scheduled
    Callers,       \* threads that serve stop and restart requests
    Events         \* what may go wrong in this instance

EventNames ==
    {"boot_raises",    \* loading the configuration or the database, or the
                       \* prewarm, fails
     "log_raises",     \* the log write in the finally block raises
     "worker_dies",    \* an exception leaves the worker thread's loop
     "borrow"}         \* a manual watchlist scan uses the current dispatcher

ASSUME MaxRuntimesAssumption == MaxRuntimes \in Nat
ASSUME EventsAssumption == Events \subseteq EventNames

NoRuntime == 0
Runtimes == 1 .. MaxRuntimes
RuntimeOrNone == 0 .. MaxRuntimes

VARIABLES
    manager,     \* "open", "closing" once shutdown is requested, then "closed"
    used,        \* runtimes scheduled so far
    current,     \* _current_future, by the number of its runtime
    context,     \* _current_context, likewise
    future,      \* state of each runtime's concurrent future
    phase,       \* where each runtime's coroutine is
    prewarm,     \* its prewarm_browser waits for a pool thread
    lifecycle,   \* _lifecycle_state of each runtime's dispatcher
    worker,      \* the thread of that dispatcher's worker
    slot,        \* SeleniumWorker._active_worker, by its runtime
    call,        \* the stop, restart and shutdown requests under way
    borrowed     \* the dispatcher that a manual watchlist scan holds

vars == <<manager, used, current, context, future, phase, prewarm, lifecycle,
          worker, slot, call, borrowed>>

managerVars    == <<manager, used, current, context, future>>
dispatcherVars == <<lifecycle, worker, slot>>

FutureStates == {"none", "pending", "cancelled", "finished"}

\* "cleanup" is the finally block awaiting the heartbeat's end, "unwinding" the
\* same after a cancellation; "stopping" is that block inside dispatcher.stop,
\* which blocks the loop; "abandoned" is a coroutine that ended without closing
\* anything.
Phases == {"unused", "scheduled", "prewarming", "scanning", "cleanup",
           "unwinding", "stopping", "closing", "closed", "abandoned"}
Ended == {"closed", "abandoned"}

\* "told" is a live thread whose stop event is set; "ending" one that has left
\* its loop and released the slot; "ended" one that is over, or never began.
ThreadStates == {"none", "alive", "told", "ending", "ended"}

CallStates == {"idle", "snapshot", "cancel", "callback", "stop1", "join1", "stop2",
               "join2", "end", "start"}
Operations == {"stop", "restart", "shutdown"}
Calls == [op : Operations, at : CallStates,
          future : RuntimeOrNone, context : RuntimeOrNone]

Running == current # NoRuntime /\ future[current] = "pending"
Working(r) == worker[r] \in {"alive", "told"}
Live(r) == Working(r) \/ worker[r] = "ending"
LoopFree == \A r \in Runtimes : phase[r] # "stopping"

Request(op, at, f, ctx) == [op |-> op, at |-> at, future |-> f, context |-> ctx]

\* A thread without a request.
Idle == Request("stop", "idle", NoRuntime, NoRuntime)

Init ==
    /\ manager = "open"
    /\ used = 0
    /\ current = NoRuntime
    /\ context = NoRuntime
    /\ future = [r \in Runtimes |-> "none"]
    /\ phase = [r \in Runtimes |-> "unused"]
    /\ prewarm = [r \in Runtimes |-> FALSE]
    /\ lifecycle = [r \in Runtimes |-> "stopped"]
    /\ worker = [r \in Runtimes |-> "none"]
    /\ slot = NoRuntime
    /\ call = [c \in Callers |-> Idle]
    /\ borrowed = NoRuntime

-----------------------------------------------------------------------------
(* A dispatcher's start and stop, as seen from here: SeleniumDispatcher    *)
(* has the details.                                                        *)

Started(r) ==
    /\ lifecycle' = [lifecycle EXCEPT ![r] = "running"]
    /\ worker' = [worker EXCEPT ![r] = "alive"]
    /\ slot' = r

\* stop() holds the lifecycle lock throughout.
LifecycleLockFree(r) == lifecycle[r] \notin {"stopping", "joining"}

StartIgnored(r) == lifecycle[r] = "running" \/ Live(r)

\* Mutant: the worker does not look at the process-wide slot.
DispatcherStart_NoSlot(r) ==
    /\ LifecycleLockFree(r)
    /\ IF StartIgnored(r) THEN UNCHANGED dispatcherVars ELSE Started(r)

DispatcherStart(r) ==
    /\ LifecycleLockFree(r)
    /\ \/ StartIgnored(r) /\ UNCHANGED dispatcherVars
       \/ ~StartIgnored(r) /\ slot = NoRuntime /\ Started(r)
       \/ /\ ~StartIgnored(r) /\ slot # NoRuntime
          /\ lifecycle' = [lifecycle EXCEPT ![r] = "stopped"]
          /\ worker' = [worker EXCEPT ![r] = "ended"]
          /\ UNCHANGED slot

\* Mutant: the worker is not told to stop.
StopBegin_NoShutdown(r) ==
    /\ LifecycleLockFree(r)
    /\ lifecycle' = [lifecycle EXCEPT ![r] = IF worker[r] = "none" THEN "stopped"
                                                                   ELSE "stopping"]
    /\ UNCHANGED <<worker, slot>>

\* Without a worker there is nothing to wait for.  With one, shutdown() sets
\* its event and goes on to close its browser.
StopBegin(r) ==
    /\ LifecycleLockFree(r)
    /\ lifecycle' = [lifecycle EXCEPT ![r] = IF worker[r] = "none" THEN "stopped"
                                                                   ELSE "stopping"]
    /\ worker' = [worker EXCEPT ![r] = IF @ = "alive" THEN "told" ELSE @]
    /\ UNCHANGED slot

\* close_driver has returned: it had to wait for the driver lock, and then for
\* driver.quit(), neither of them with a timeout.
BrowserCloses(r) ==
    /\ lifecycle[r] = "stopping"
    /\ lifecycle' = [lifecycle EXCEPT ![r] = "joining"]
    /\ UNCHANGED <<managerVars, phase, prewarm, worker, slot, call, borrowed>>

\* Mutant: a join without a timeout.
StopEnd_Unbounded(r) ==
    /\ lifecycle[r] = "joining"
    /\ ~Live(r)
    /\ lifecycle' = [lifecycle EXCEPT ![r] = "stopped"]
    /\ UNCHANGED <<worker, slot>>

\* The join has ended, because the thread has or because it timed out.
StopEnd(r) ==
    /\ lifecycle[r] = "joining"
    /\ lifecycle' = [lifecycle EXCEPT ![r] = IF Live(r) THEN "running" ELSE "stopped"]
    /\ UNCHANGED <<worker, slot>>

-----------------------------------------------------------------------------
(* Scheduling, by start, by "once" and by the timer.                       *)

\* Mutant: a shutdown does not keep later starts out.
Schedule_NoCheck ==
    /\ ~Running
    /\ used < MaxRuntimes
    /\ used' = used + 1
    /\ current' = used'
    /\ future' = [future EXCEPT ![used'] = "pending"]
    /\ phase' = [phase EXCEPT ![used'] = "scheduled"]
    /\ UNCHANGED <<manager, context, prewarm, dispatcherVars, borrowed>>

Schedule ==
    /\ manager = "open"
    /\ ~Running
    /\ used < MaxRuntimes
    /\ used' = used + 1
    /\ current' = used'
    /\ future' = [future EXCEPT ![used'] = "pending"]
    /\ phase' = [phase EXCEPT ![used'] = "scheduled"]
    /\ UNCHANGED <<manager, context, prewarm, dispatcherVars, borrowed>>

\* Mutant: the done callback does not ask whose future is current.
HandleDone_Unguarded(r) ==
    /\ current' = NoRuntime
    /\ context' = NoRuntime

\* Mutant: only the future is asked for, the context is cleared in any case.
HandleDone_ClearsContext(r) ==
    /\ current' = IF current = r THEN NoRuntime ELSE current
    /\ context' = NoRuntime

\* _handle_runtime_done.
HandleDone(r) ==
    IF current = r
      THEN current' = NoRuntime /\ context' = NoRuntime
      ELSE UNCHANGED <<current, context>>

\* A future that ends by itself runs its callback in the loop thread.
FutureDone(r) ==
    /\ LoopFree
    /\ phase[r] \in Ended
    /\ future[r] = "pending"
    /\ future' = [future EXCEPT ![r] = "finished"]
    /\ UNCHANGED <<manager, used, current, context, phase, prewarm,
                   dispatcherVars,
                   call, borrowed>>

DoneCallback(r) ==
    /\ LoopFree
    /\ future[r] = "finished"
    /\ current = r
    /\ HandleDone(r)
    /\ UNCHANGED <<manager, used, future, phase, prewarm, dispatcherVars, call,
                   borrowed>>

-----------------------------------------------------------------------------
(* The runtime's coroutine, in the loop thread.                            *)

\* To its first await: the context is registered; the prewarm waits for a
\* pool thread.
Boot(r) ==
    /\ LoopFree
    /\ phase[r] = "scheduled"
    /\ \A s \in Runtimes : phase[s] = "scheduled" => r <= s
    /\ context' = r
    /\ \/ /\ phase' = [phase EXCEPT ![r] = "prewarming"]
          /\ prewarm' = [prewarm EXCEPT ![r] = TRUE]
       \/ /\ phase' = [phase EXCEPT ![r] = "scanning"]
          /\ UNCHANGED prewarm
    /\ UNCHANGED <<manager, used, current, future, dispatcherVars, call, borrowed>>

BootRaises(r) ==
    /\ "boot_raises" \in Events
    /\ LoopFree
    /\ \/ /\ phase[r] = "scheduled"
          /\ \A s \in Runtimes : phase[s] = "scheduled" => r <= s
       \/ phase[r] = "prewarming" /\ ~prewarm[r]
    /\ phase' = [phase EXCEPT ![r] = "abandoned"]
    /\ UNCHANGED <<managerVars, prewarm, dispatcherVars, call, borrowed>>

\* The pool thread goes on even when the coroutine has been cancelled.
PrewarmStart(r) ==
    /\ prewarm[r]
    /\ prewarm' = [prewarm EXCEPT ![r] = FALSE]
    /\ DispatcherStart(r)
    /\ UNCHANGED <<managerVars, phase, call, borrowed>>

PrewarmReturns(r) ==
    /\ LoopFree
    /\ phase[r] = "prewarming"
    /\ ~prewarm[r]
    /\ phase' = [phase EXCEPT ![r] = "scanning"]
    /\ UNCHANGED <<managerVars, prewarm, dispatcherVars, call, borrowed>>

\* A scan or the watchlist submits a job.
Submit(r) ==
    /\ LoopFree
    /\ phase[r] = "scanning"
    /\ DispatcherStart(r)
    /\ UNCHANGED <<managerVars, phase, prewarm, call, borrowed>>

\* A once run ends, or any run fails: the finally block begins.
ScansEnd(r) ==
    /\ LoopFree
    /\ phase[r] = "scanning"
    /\ phase' = [phase EXCEPT ![r] = "cleanup"]
    /\ UNCHANGED <<managerVars, prewarm, dispatcherVars, call, borrowed>>

\* task.cancel() arrives at an await.  Before the first step it finds no
\* coroutine yet, in the prewarm no try block, and in the finally block it
\* skips the rest of that block.
CancelArrives(r) ==
    /\ LoopFree
    /\ future[r] = "cancelled"
    /\ \/ /\ phase[r] \in {"scheduled", "prewarming", "cleanup"}
          /\ phase' = [phase EXCEPT ![r] = "abandoned"]
       \/ /\ phase[r] = "scanning"
          /\ phase' = [phase EXCEPT ![r] = "unwinding"]
    /\ UNCHANGED <<managerVars, prewarm, dispatcherVars, call, borrowed>>

\* Mutant: the finally block leaves the dispatcher alone.
CleanupStop_NoStop(r) ==
    /\ LoopFree
    /\ phase[r] \in {"cleanup", "unwinding"}
    /\ phase' = [phase EXCEPT ![r] = "closing"]
    /\ UNCHANGED <<managerVars, prewarm, dispatcherVars, call, borrowed>>

CleanupStop(r) ==
    /\ LoopFree
    /\ phase[r] \in {"cleanup", "unwinding"}
    /\ StopBegin(r)
    /\ phase' = [phase EXCEPT ![r] = IF worker[r] = "none" THEN "closing"
                                                           ELSE "stopping"]
    /\ UNCHANGED <<managerVars, prewarm, call, borrowed>>

CleanupStopped(r) ==
    /\ phase[r] = "stopping"
    /\ StopEnd(r)
    /\ phase' = [phase EXCEPT ![r] = "closing"]
    /\ UNCHANGED <<managerVars, prewarm, call, borrowed>>

CleanupClose(r) ==
    /\ LoopFree
    /\ phase[r] = "closing"
    /\ phase' = [phase EXCEPT ![r] = "closed"]
    /\ UNCHANGED <<managerVars, prewarm, dispatcherVars, call, borrowed>>

CleanupRaises(r) ==
    /\ "log_raises" \in Events
    /\ LoopFree
    /\ phase[r] = "closing"
    /\ phase' = [phase EXCEPT ![r] = "abandoned"]
    /\ UNCHANGED <<managerVars, prewarm, dispatcherVars, call, borrowed>>

-----------------------------------------------------------------------------
(* The worker threads.                                                     *)

\* The outer finally of run(): the browser is closed and the slot released.
WorkerLeaves(r) ==
    /\ Working(r)
    /\ worker[r] = "told" \/ "worker_dies" \in Events
    /\ worker' = [worker EXCEPT ![r] = "ending"]
    /\ slot' = IF slot = r THEN NoRuntime ELSE slot
    /\ UNCHANGED <<managerVars, phase, prewarm, lifecycle, call, borrowed>>

WorkerEnds(r) ==
    /\ worker[r] = "ending"
    /\ worker' = [worker EXCEPT ![r] = "ended"]
    /\ UNCHANGED <<managerVars, phase, prewarm, lifecycle, slot, call, borrowed>>

-----------------------------------------------------------------------------
(* stop(), restart() and the shutdown of the manager.                      *)

\* A request keeps what it still needs; stop() ends with its last step.
Goto(c, at) ==
    call' = [call EXCEPT ![c] =
               IF at = "idle" \/ (at = "end" /\ @.op = "stop")
                 THEN Idle
                 ELSE Request(@.op, at, NoRuntime,
                              IF at \in {"end", "start"} THEN NoRuntime
                                                         ELSE @.context)]

\* What stop() reads first, under the manager's lock.  Without a future it is
\* done.
Snapshot(c, op) ==
    call' = [call EXCEPT ![c] =
               IF current # NoRuntime THEN Request(op, "cancel", current, context)
               ELSE IF op = "stop" THEN Idle
               ELSE Request(op, "end", NoRuntime, NoRuntime)]

\* A shutdown sets its flag and gives the lock back before it calls stop().
CallBegin(c, op) ==
    /\ call[c].at = "idle"
    /\ op = "shutdown" => manager = "open"
    /\ manager' = IF op = "shutdown" THEN "closing" ELSE manager
    /\ IF op = "shutdown"
         THEN call' = [call EXCEPT ![c] = Request(op, "snapshot", NoRuntime, NoRuntime)]
         ELSE Snapshot(c, op)
    /\ UNCHANGED <<used, current, context, future, phase, prewarm,
                   dispatcherVars, borrowed>>

CallSnapshot(c) ==
    /\ call[c].at = "snapshot"
    /\ Snapshot(c, call[c].op)
    /\ UNCHANGED <<managerVars, phase, prewarm, dispatcherVars, borrowed>>

\* Mutant: stop() does not ask whether there is a context.
AfterCancel_Always(c) == "stop1"

AfterCancel(c) == IF call[c].context # NoRuntime THEN "stop1" ELSE "end"

\* future.cancel() completes the future, unless it is done already.
CallCancel(c) ==
    /\ call[c].at = "cancel"
    /\ IF future[call[c].future] = "pending"
         THEN /\ future' = [future EXCEPT ![call[c].future] = "cancelled"]
              /\ call' = [call EXCEPT ![c] =
                             Request(@.op, "callback", @.future, @.context)]
         ELSE /\ Goto(c, AfterCancel(c))
              /\ UNCHANGED future
    /\ UNCHANGED <<manager, used, current, context, phase, prewarm,
                   dispatcherVars, borrowed>>

\* Its callback runs in the caller's thread.
CallCallback(c) ==
    /\ call[c].at = "callback"
    /\ HandleDone(call[c].future)
    /\ Goto(c, AfterCancel(c))
    /\ UNCHANGED <<manager, used, future, phase, prewarm, dispatcherVars,
                   borrowed>>

\* dispatcher.stop, before and after a wait for the result that returns at
\* once: the future is done.
CallStop(c) ==
    /\ call[c].at \in {"stop1", "stop2"}
    /\ StopBegin(call[c].context)
    /\ Goto(c, IF worker[call[c].context] = "none"
                 THEN IF call[c].at = "stop1" THEN "stop2" ELSE "end"
                 ELSE IF call[c].at = "stop1" THEN "join1" ELSE "join2")
    /\ UNCHANGED <<managerVars, phase, prewarm, borrowed>>

CallJoined(c) ==
    /\ call[c].at \in {"join1", "join2"}
    /\ StopEnd(call[c].context)
    /\ Goto(c, IF call[c].at = "join1" THEN "stop2" ELSE "end")
    /\ UNCHANGED <<managerVars, phase, prewarm, borrowed>>

\* restart() looks at stop()'s answer before it starts; the shutdown stops
\* the loop.
CallEnd(c) ==
    /\ call[c].at = "end"
    /\ Goto(c, IF call[c].op = "restart" /\ ~Running THEN "start" ELSE "idle")
    /\ manager' = IF call[c].op = "shutdown" THEN "closed" ELSE manager
    /\ UNCHANGED <<used, current, context, future, phase, prewarm,
                   dispatcherVars, borrowed>>

CallStart(c) ==
    /\ call[c].at = "start"
    /\ Goto(c, "idle")
    /\ \/ Schedule
       \/ /\ Running \/ used = MaxRuntimes \/ manager # "open"
          /\ UNCHANGED <<managerVars, phase, prewarm, dispatcherVars, borrowed>>

-----------------------------------------------------------------------------
(* A manual watchlist scan, in an API thread: it asks for the dispatcher,  *)
(* makes its network checks, and submits.  One scan per behaviour.         *)

Borrow ==
    /\ "borrow" \in Events
    /\ borrowed = NoRuntime
    /\ Running
    /\ context # NoRuntime
    /\ borrowed' = context
    /\ UNCHANGED <<managerVars, phase, prewarm, dispatcherVars, call>>

BorrowedSubmit ==
    /\ borrowed # NoRuntime
    /\ DispatcherStart(borrowed)
    /\ UNCHANGED <<managerVars, phase, prewarm, call, borrowed>>

-----------------------------------------------------------------------------
RuntimeStep(r) ==
    \/ FutureDone(r) \/ DoneCallback(r)
    \/ Boot(r) \/ BootRaises(r) \/ PrewarmReturns(r)
    \/ CancelArrives(r)
    \/ CleanupStop(r) \/ CleanupStopped(r) \/ CleanupClose(r) \/ CleanupRaises(r)

CallStep(c) ==
    \/ CallSnapshot(c) \/ CallCancel(c) \/ CallCallback(c)
    \/ CallStop(c) \/ CallJoined(c) \/ CallEnd(c) \/ CallStart(c)

Next ==
    \/ Schedule /\ UNCHANGED call
    \/ \E r \in Runtimes :
          \/ RuntimeStep(r)
          \/ PrewarmStart(r) \/ Submit(r) \/ ScansEnd(r)
          \/ BrowserCloses(r)
          \/ WorkerLeaves(r) \/ WorkerEnds(r)
    \/ \E c \in Callers :
          \/ \E op \in Operations : CallBegin(c, op)
          \/ CallStep(c)
    \/ Borrow
    \/ BorrowedSubmit

Spec == Init /\ [][Next]_vars

\* The loop runs until the manager is closed, when it may stop at any step, and
\* the callers' threads run: a join ends because it has a timeout.  Nothing is
\* assumed of the worker threads, of the scans, of the pool, or of a browser
\* that is being closed: FairSpec has no fairness for BrowserCloses.
FairSpec ==
    /\ Spec
    /\ \A r \in Runtimes : WF_vars(manager # "closed" /\ RuntimeStep(r))
    /\ \A c \in Callers : WF_vars(CallStep(c))

-----------------------------------------------------------------------------
(* Properties.                                                             *)

\* A request at future.cancel has a future, one at dispatcher.stop a
\* dispatcher.
RequestsOK ==
    /\ call \in [Callers -> Calls]
    /\ \A c \in Callers :
          /\ call[c].at \in {"cancel", "callback"} => call[c].future # NoRuntime
          /\ call[c].at \in {"stop1", "join1", "stop2", "join2"}
                => call[c].context # NoRuntime

\* Type invariant of the manager, the runtimes, their dispatchers and the
\* requests.
TypeOK ==
    /\ manager \in {"open", "closing", "closed"}
    /\ used \in RuntimeOrNone
    /\ current \in RuntimeOrNone
    /\ context \in RuntimeOrNone
    /\ future \in [Runtimes -> FutureStates]
    /\ phase \in [Runtimes -> Phases]
    /\ prewarm \in [Runtimes -> BOOLEAN]
    /\ lifecycle \in [Runtimes -> {"stopped", "running", "stopping", "joining"}]
    /\ worker \in [Runtimes -> ThreadStates]
    /\ slot \in RuntimeOrNone
    /\ RequestsOK
    /\ borrowed \in RuntimeOrNone

\* At most one runtime is wanted, and the manager knows it: a callback of an
\* earlier future, however late, does not lose the current one
\* (_handle_runtime_done's identity check against _schedule_runtime).
WantedIsCurrent == \A r \in Runtimes : future[r] = "pending" => current = r

\* Once the current runtime has booted, the context is its own, whatever
\* earlier runtimes register or clear in the meantime: stop() and the
\* watchlist get the dispatcher that this runtime uses.
ContextIsCurrent ==
    Running /\ phase[current] \notin {"scheduled", "closed", "abandoned"}
      => context = current

\* However runtimes overlap, one worker thread of the process at a time runs
\* jobs (the slot of SeleniumWorker.start).
OneWorker == \A r, s \in Runtimes : Working(r) /\ Working(s) => r = s

\* A runtime whose finally block went through leaves no worker thread that
\* has not been told to stop, unless a manual scan held its dispatcher: the
\* prewarm's pool thread or a stop that timed out do not start one again.
ClosedIsQuiet ==
    \A r \in Runtimes :
        phase[r] = "closed" /\ worker[r] = "alive" => borrowed = r

\* After a shutdown no runtime is wanted: a start or restart that overlaps it
\* is either refused or cancelled by it.
ShutdownIsFinal ==
    manager = "closed" => \A r \in Runtimes : future[r] # "pending"

\* No stop is for ever in the close of a browser.
BrowsersClose == \A r \in Runtimes : []<>(lifecycle[r] # "stopping")

\* A cancelled runtime ends, whatever its worker does, unless the shutdown
\* stops the loop under it or a browser is never closed (the loop itself closes
\* browsers, in the finally block of any runtime).
CancelledEnds ==
    BrowsersClose =>
        \A r \in Runtimes :
            future[r] = "cancelled" ~> phase[r] \in Ended \/ manager = "closed"

WaitsForBrowser(c) ==
    call[c].context # NoRuntime /\ lifecycle[call[c].context] = "stopping"

\* A stop, restart or shutdown request is answered, whatever the worker does
\* and whatever blocks the loop, if the browser of the one runtime that it
\* stops is closed some time.
CallsReturn ==
    \A c \in Callers :
        []<>~WaitsForBrowser(c) => (call[c].at # "idle" ~> call[c].at = "idle")
=============================================================================
