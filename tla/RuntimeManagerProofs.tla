------------------------ MODULE RuntimeManagerProofs ------------------------
(***************************************************************************)
(* The runtime manager's guarantees, for any number of runtimes and of     *)
(* calling threads and whatever goes wrong.                                *)
(*                                                                         *)
(* The current runtime is always the latest one scheduled, and the loop    *)
(* boots runtimes in that order: a context registered late by a cancelled  *)
(* runtime is therefore overwritten by the current one's.                  *)
(***************************************************************************)
EXTENDS RuntimeManager, TLAPS

\* The current future is the latest one; a callback runs for a future that
\* has been cancelled.
FutureInv ==
    /\ current \in {NoRuntime, used}
    /\ \A r \in Runtimes :
          /\ r > used => future[r] = "none" /\ phase[r] = "unused"
          /\ r <= used => phase[r] # "unused"
    /\ \A c \in Callers :
          call[c].at = "callback" => future[call[c].future] = "cancelled"

\* The loop boots in the order of scheduling.
BootInv ==
    \A r, s \in Runtimes :
        phase[r] = "scheduled" /\ r < s
          => phase[s] \in {"unused", "scheduled", "abandoned"}

\* The worker thread that runs jobs owns the slot.
SlotInv == \A r \in Runtimes : Working(r) => slot = r

\* Once the finally block has told the worker to stop, only a manual scan is
\* left that could start another.
QuietInv ==
    \A r \in Runtimes :
        /\ prewarm[r] => phase[r] \in {"prewarming", "abandoned"}
        /\ phase[r] \in {"stopping", "closing", "closed"} /\ worker[r] = "alive"
             => borrowed = r

\* A shutdown keeps new runtimes out from its first step on, and has cancelled
\* the one there was when it goes on to its dispatcher.
ShutdownInv ==
    /\ \A c \in Callers :
          call[c].op = "shutdown" =>
            /\ manager # "open"
            /\ call[c].at \in {"callback", "stop1", "join1", "stop2", "join2", "end"}
                 => \A r \in Runtimes : future[r] # "pending"
            /\ call[c].at = "cancel"
                 => \A r \in Runtimes : future[r] = "pending" => r = call[c].future
    /\ ShutdownIsFinal

IInv ==
    /\ TypeOK
    /\ WantedIsCurrent
    /\ FutureInv
    /\ BootInv
    /\ ContextIsCurrent
    /\ SlotInv
    /\ QuietInv
    /\ ShutdownInv

-----------------------------------------------------------------------------
(* Types.                                                                  *)

\* Dispatchers keep their types when they are started, stopped and joined.
LEMMA DispatcherTypes ==
  ASSUME TypeOK, NEW r \in Runtimes,
         \/ DispatcherStart(r) \/ StopBegin(r) \/ StopEnd(r)
         \/ UNCHANGED dispatcherVars
  PROVE  /\ lifecycle' \in [Runtimes -> {"stopped", "running", "stopping", "joining"}]
         /\ worker' \in [Runtimes -> ThreadStates]
         /\ slot' \in RuntimeOrNone
  <1> USE DEF TypeOK, ThreadStates, RuntimeOrNone, Runtimes, NoRuntime
  <1>1. CASE DispatcherStart(r)
    <2>1. CASE UNCHANGED dispatcherVars
      BY <2>1 DEF dispatcherVars
    <2>2. CASE Started(r)
      BY <2>2 DEF Started
    <2>3. CASE /\ lifecycle' = [lifecycle EXCEPT ![r] = "stopped"]
               /\ worker' = [worker EXCEPT ![r] = "ended"]
               /\ UNCHANGED slot
      BY <2>3
    <2> QED
      BY <1>1, <2>1, <2>2, <2>3 DEF DispatcherStart
  <1>2. CASE StopBegin(r)
    BY <1>2 DEF StopBegin
  <1>3. CASE StopEnd(r)
    BY <1>3 DEF StopEnd
  <1>4. CASE UNCHANGED dispatcherVars
    BY <1>4 DEF dispatcherVars
  <1> QED
    BY <1>1, <1>2, <1>3, <1>4

\* So do the manager's variables when a runtime is scheduled.
LEMMA ScheduleTypes ==
  ASSUME TypeOK, Schedule
  PROVE  /\ used' \in RuntimeOrNone
         /\ used' \in Runtimes
         /\ current' \in RuntimeOrNone
         /\ future' \in [Runtimes -> FutureStates]
         /\ phase' \in [Runtimes -> Phases]
  BY MaxRuntimesAssumption
  DEF TypeOK, Schedule, RuntimeOrNone, Runtimes, FutureStates, Phases

\* A request goes to a place that needs no future, and a dispatcher only where
\* it has one.
LEMMA GotoTypes ==
  ASSUME RequestsOK, NEW c \in Callers, NEW at \in CallStates, Goto(c, at),
         at \notin {"cancel", "callback"},
         at \in {"stop1", "join1", "stop2", "join2"} => call[c].context # NoRuntime
  PROVE  RequestsOK'
  <1>1. call[c] \in Calls
    BY DEF RequestsOK
  <1>2. Idle \in Calls /\ Idle.at = "idle"
    BY MaxRuntimesAssumption
    DEF Idle, Request, Calls, Operations, CallStates, RuntimeOrNone, NoRuntime
  <1>3. CASE at = "idle" \/ (at = "end" /\ call[c].op = "stop")
    <2>1. call' = [call EXCEPT ![c] = Idle]
      BY <1>3 DEF Goto
    <2> QED
      BY <1>2, <2>1 DEF RequestsOK
  <1>4. CASE ~(at = "idle" \/ (at = "end" /\ call[c].op = "stop"))
    <2> DEFINE kept == IF at \in {"end", "start"} THEN NoRuntime ELSE call[c].context
               next == Request(call[c].op, at, NoRuntime, kept)
    <2>0. kept \in RuntimeOrNone
      BY <1>1, MaxRuntimesAssumption DEF Calls, RuntimeOrNone, NoRuntime
    <2>1. next \in Calls /\ next.at = at
          /\ (at \in {"stop1", "join1", "stop2", "join2"} => next.context # NoRuntime)
      BY <1>1, <2>0, MaxRuntimesAssumption DEF Calls, Request, RuntimeOrNone, NoRuntime
    <2>2. call' = [call EXCEPT ![c] = next]
      BY <1>4 DEF Goto
    <2> HIDE DEF next
    <2> QED
      BY <2>1, <2>2 DEF RequestsOK
  <1> QED
    BY <1>3, <1>4

\* A request that has taken its snapshot is a request, with a future if it is
\* to cancel one.
LEMMA SnapshotTypes ==
  ASSUME TypeOK, NEW c \in Callers, NEW op \in Operations, Snapshot(c, op)
  PROVE  RequestsOK'
  <1> DEFINE next == IF current # NoRuntime THEN Request(op, "cancel", current, context)
                     ELSE IF op = "stop" THEN Idle
                     ELSE Request(op, "end", NoRuntime, NoRuntime)
  <1>1. next \in Calls
    BY MaxRuntimesAssumption
    DEF TypeOK, Idle, Request, Calls, Operations, CallStates, RuntimeOrNone, NoRuntime
  <1>2. next.at \in {"cancel", "end", "idle"}
        /\ (next.at = "cancel" => next.future # NoRuntime)
    BY DEF Idle, Request
  <1>3. call' = [call EXCEPT ![c] = next]
    BY DEF Snapshot
  <1> HIDE DEF next
  <1> QED
    BY <1>1, <1>2, <1>3 DEF TypeOK, RequestsOK

-----------------------------------------------------------------------------
(* What a step does to the requests.                                       *)

\* One caller's request changes, or none does.
LEMMA RequestsStep ==
  ASSUME TypeOK, Next
  PROVE  RequestsOK'
  <1> USE DEF TypeOK
  <1>1. ASSUME UNCHANGED call
        PROVE  RequestsOK'
    BY <1>1 DEF RequestsOK
  <1>2. ASSUME NEW c \in Callers, NEW op \in Operations, CallBegin(c, op)
        PROVE  RequestsOK'
    <2>1. CASE op = "shutdown"
      <3> DEFINE next == Request(op, "snapshot", NoRuntime, NoRuntime)
      <3>1. next \in Calls /\ next.at = "snapshot"
        BY MaxRuntimesAssumption
        DEF Request, Calls, CallStates, RuntimeOrNone, NoRuntime
      <3>2. call' = [call EXCEPT ![c] = next]
        BY <1>2, <2>1 DEF CallBegin
      <3> HIDE DEF next
      <3> QED
        BY <3>1, <3>2 DEF RequestsOK
    <2>2. CASE op # "shutdown"
      BY <1>2, <2>2, SnapshotTypes DEF CallBegin
    <2> QED
      BY <2>1, <2>2
  <1>3. ASSUME NEW c \in Callers, CallStep(c)
        PROVE  RequestsOK'
    <2>1. call[c] \in Calls
      BY DEF RequestsOK
    <2>2. CASE CallSnapshot(c)
      <3>1. call[c].op \in Operations
        BY <2>1 DEF Calls
      <3> QED
        BY <2>2, <3>1, SnapshotTypes DEF CallSnapshot
    <2>3. AfterCancel(c) \in {"stop1", "end"}
          /\ (AfterCancel(c) = "stop1" => call[c].context # NoRuntime)
      BY DEF AfterCancel
    <2>4. CASE CallCancel(c)
      <3>1. CASE future[call[c].future] = "pending"
        <4> DEFINE next == Request(call[c].op, "callback", call[c].future, call[c].context)
        <4>1. next \in Calls /\ next.at = "callback" /\ next.future = call[c].future
          BY <2>1 DEF Request, Calls, CallStates
        <4>2. call' = [call EXCEPT ![c] = next] /\ call[c].at = "cancel"
          BY <2>4, <3>1 DEF CallCancel
        <4> HIDE DEF next
        <4> QED
          BY <4>1, <4>2 DEF RequestsOK
      <3>2. CASE future[call[c].future] # "pending"
        BY <2>3, <2>4, <3>2, GotoTypes DEF CallCancel, CallStates
      <3> QED
        BY <3>1, <3>2
    <2>5. CASE CallCallback(c)
      BY <2>3, <2>5, GotoTypes DEF CallCallback, CallStates
    <2>6. CASE CallStop(c)
      <3>1. call[c].context # NoRuntime
        BY <2>6 DEF CallStop, RequestsOK
      <3> QED
        BY <2>6, <3>1, GotoTypes DEF CallStop, CallStates
    <2>7. CASE CallJoined(c)
      <3>1. call[c].context # NoRuntime
        BY <2>7 DEF CallJoined, RequestsOK
      <3> QED
        BY <2>7, <3>1, GotoTypes DEF CallJoined, CallStates
    <2>8. CASE CallEnd(c) \/ CallStart(c)
      BY <2>8, GotoTypes DEF CallEnd, CallStart, CallStates
    <2> QED
      BY <1>3, <2>2, <2>4, <2>5, <2>6, <2>7, <2>8 DEF CallStep
  <1>4. ASSUME NEW r \in Runtimes, RuntimeStep(r)
        PROVE  UNCHANGED call
    BY <1>4
    DEF RuntimeStep, FutureDone, DoneCallback, Boot, BootRaises, PrewarmReturns,
        CancelArrives, CleanupStop, CleanupStopped, CleanupClose, CleanupRaises
  <1>5. ASSUME NEW r \in Runtimes,
               \/ PrewarmStart(r) \/ Submit(r) \/ ScansEnd(r)
               \/ WorkerLeaves(r) \/ WorkerEnds(r) \/ BrowserCloses(r)
        PROVE  UNCHANGED call
    BY <1>5 DEF PrewarmStart, Submit, ScansEnd, WorkerLeaves, WorkerEnds, BrowserCloses
  <1>6. ASSUME Borrow \/ BorrowedSubmit
        PROVE  UNCHANGED call
    BY <1>6 DEF Borrow, BorrowedSubmit
  <1> QED
    BY <1>1, <1>2, <1>3, <1>4, <1>5, <1>6 DEF Next

-----------------------------------------------------------------------------
(* The type invariant.                                                     *)

LEMMA InitType == Init => TypeOK
  <1> SUFFICES ASSUME Init
               PROVE  TypeOK
    OBVIOUS
  <1>1. Idle \in Calls /\ Idle.at = "idle"
    BY MaxRuntimesAssumption
    DEF Idle, Request, Calls, Operations, CallStates, RuntimeOrNone, NoRuntime
  <1>2. RequestsOK
    BY <1>1 DEF Init, RequestsOK
  <1> QED
    BY <1>2, MaxRuntimesAssumption
    DEF Init, TypeOK, RuntimeOrNone, NoRuntime, FutureStates, Phases, ThreadStates

\* The steps of the loop thread.
LEMMA RuntimeStepType ==
  ASSUME TypeOK, NEW r \in Runtimes, RuntimeStep(r), RequestsOK'
  PROVE  TypeOK'
  <1> USE DEF TypeOK, managerVars, dispatcherVars
  <1>0. r \in RuntimeOrNone /\ NoRuntime \in RuntimeOrNone
    BY MaxRuntimesAssumption DEF Runtimes, RuntimeOrNone, NoRuntime
  <1>1. CASE FutureDone(r)
    BY <1>1 DEF FutureDone, FutureStates
  <1>2. CASE DoneCallback(r)
    BY <1>0, <1>2 DEF DoneCallback, HandleDone
  <1>3. CASE Boot(r)
    BY <1>0, <1>3 DEF Boot, Phases
  <1>4. CASE BootRaises(r) \/ PrewarmReturns(r) \/ CancelArrives(r)
    BY <1>4 DEF BootRaises, PrewarmReturns, CancelArrives, Phases
  <1>5. CASE CleanupStop(r)
    BY <1>5, DispatcherTypes DEF CleanupStop, Phases
  <1>6. CASE CleanupStopped(r)
    BY <1>6, DispatcherTypes DEF CleanupStopped, Phases
  <1>7. CASE CleanupClose(r) \/ CleanupRaises(r)
    BY <1>7 DEF CleanupClose, CleanupRaises, Phases
  <1> QED
    BY <1>1, <1>2, <1>3, <1>4, <1>5, <1>6, <1>7 DEF RuntimeStep

\* The steps of the pool, the scans and the worker threads.
LEMMA OtherStepType ==
  ASSUME TypeOK, NEW r \in Runtimes, RequestsOK',
         \/ PrewarmStart(r) \/ Submit(r) \/ ScansEnd(r)
         \/ WorkerLeaves(r) \/ WorkerEnds(r) \/ BrowserCloses(r)
  PROVE  TypeOK'
  <1> USE DEF TypeOK, managerVars
  <1>1. CASE PrewarmStart(r)
    BY <1>1, DispatcherTypes DEF PrewarmStart
  <1>2. CASE Submit(r)
    BY <1>2, DispatcherTypes DEF Submit
  <1>3. CASE ScansEnd(r)
    BY <1>3 DEF ScansEnd, Phases, dispatcherVars
  <1>4. CASE WorkerLeaves(r) \/ WorkerEnds(r) \/ BrowserCloses(r)
    <2>1. NoRuntime \in RuntimeOrNone
      BY MaxRuntimesAssumption DEF RuntimeOrNone, NoRuntime
    <2> QED
      BY <1>4, <2>1 DEF WorkerLeaves, WorkerEnds, BrowserCloses, ThreadStates
  <1> QED
    BY <1>1, <1>2, <1>3, <1>4

\* A request's dispatcher is one.
LEMMA ContextTypes ==
  ASSUME TypeOK, NEW c \in Callers
  PROVE  /\ call[c].future \in RuntimeOrNone
         /\ call[c].context \in RuntimeOrNone
         /\ call[c].future # NoRuntime => call[c].future \in Runtimes
         /\ call[c].context # NoRuntime => call[c].context \in Runtimes
  <1>1. call[c] \in Calls
    BY DEF TypeOK, RequestsOK
  <1> QED
    BY <1>1, MaxRuntimesAssumption DEF Calls, RuntimeOrNone, Runtimes, NoRuntime

\* The steps of a request.
LEMMA CallStepType ==
  ASSUME TypeOK, NEW c \in Callers, CallStep(c), RequestsOK'
  PROVE  TypeOK'
  <1> USE DEF TypeOK, managerVars
  <1>0. NoRuntime \in RuntimeOrNone
    BY MaxRuntimesAssumption DEF RuntimeOrNone, NoRuntime
  <1>1. CASE CallSnapshot(c)
    BY <1>1 DEF CallSnapshot, dispatcherVars
  <1>2. CASE CallCancel(c)
    BY <1>2 DEF CallCancel, FutureStates, dispatcherVars
  <1>3. CASE CallCallback(c)
    BY <1>0, <1>3 DEF CallCallback, HandleDone, dispatcherVars
  <1>4. CASE CallStop(c) \/ CallJoined(c)
    <2>1. call[c].context \in Runtimes
      BY <1>4, ContextTypes DEF CallStop, CallJoined, RequestsOK
    <2> QED
      BY <1>4, <2>1, DispatcherTypes DEF CallStop, CallJoined
  <1>5. CASE CallEnd(c)
    BY <1>5 DEF CallEnd, dispatcherVars
  <1>6. CASE CallStart(c)
    <2>1. CASE Schedule
      BY <2>1, ScheduleTypes DEF Schedule, dispatcherVars
    <2>2. CASE UNCHANGED <<managerVars, phase, prewarm, dispatcherVars, borrowed>>
      BY <2>2 DEF dispatcherVars
    <2> QED
      BY <1>6, <2>1, <2>2 DEF CallStart
  <1> QED
    BY <1>1, <1>2, <1>3, <1>4, <1>5, <1>6 DEF CallStep

LEMMA TypeStep ==
  ASSUME TypeOK, [Next]_vars
  PROVE  TypeOK'
  <1>1. CASE UNCHANGED vars
    BY <1>1 DEF vars, TypeOK, RequestsOK
  <1>2. CASE Next
    <2>0. RequestsOK'
      BY <1>2, RequestsStep
    <2>1. CASE Schedule
      BY <2>0, <2>1, ScheduleTypes DEF Schedule, TypeOK, dispatcherVars
    <2>2. ASSUME NEW c \in Callers, NEW op \in Operations, CallBegin(c, op)
          PROVE  TypeOK'
      BY <2>0, <2>2 DEF CallBegin, TypeOK, dispatcherVars
    <2>3. CASE Borrow
      BY <2>0, <2>3 DEF Borrow, TypeOK, managerVars, dispatcherVars
    <2>4. CASE BorrowedSubmit
      <3>1. borrowed \in Runtimes
        BY <2>4, MaxRuntimesAssumption
        DEF BorrowedSubmit, TypeOK, Runtimes, RuntimeOrNone, NoRuntime
      <3> QED
        BY <2>0, <2>4, <3>1, DispatcherTypes DEF BorrowedSubmit, TypeOK, managerVars
    <2> QED
      BY <1>2, <2>0, <2>1, <2>2, <2>3, <2>4, RuntimeStepType, OtherStepType,
         CallStepType DEF Next
  <1> QED
    BY <1>1, <1>2

\* Every variable of the manager, the runtimes, their dispatchers and the
\* requests keeps its type.
THEOREM TypeCorrect == Spec => []TypeOK
  <1>1. Init => TypeOK
    BY InitType
  <1>2. TypeOK /\ [Next]_vars => TypeOK'
    BY TypeStep
  <1> QED
    BY <1>1, <1>2, PTL DEF Spec

-----------------------------------------------------------------------------
(* One worker thread, and none on a runtime that is closed.                *)

\* A dispatcher starts a worker only on a free slot.
LEMMA DispatcherSlot ==
  ASSUME TypeOK, SlotInv, NEW r \in Runtimes,
         \/ DispatcherStart(r) \/ StopBegin(r) \/ StopEnd(r)
         \/ UNCHANGED dispatcherVars
  PROVE  SlotInv'
  <1> USE DEF TypeOK, SlotInv, Working
  <1>1. CASE UNCHANGED dispatcherVars
    BY <1>1 DEF dispatcherVars
  <1>2. CASE slot = NoRuntime /\ Started(r)
    BY <1>2 DEF Started, Runtimes, NoRuntime
  <1>3. CASE worker' = [worker EXCEPT ![r] = "ended"] /\ UNCHANGED slot
    BY <1>3
  <1>4. CASE StopBegin(r) \/ StopEnd(r)
    BY <1>4 DEF StopBegin, StopEnd
  <1> QED
    BY <1>1, <1>2, <1>3, <1>4 DEF DispatcherStart

LEMMA SlotStep ==
  ASSUME TypeOK, SlotInv, [Next]_vars
  PROVE  SlotInv'
  <1> USE DEF SlotInv, Working
  <1>1. ASSUME UNCHANGED dispatcherVars
        PROVE  SlotInv'
    BY <1>1 DEF dispatcherVars
  <1>2. CASE UNCHANGED vars
    BY <1>2 DEF vars
  <1>3. CASE Schedule
    BY <1>1, <1>3 DEF Schedule
  <1>4. ASSUME NEW r \in Runtimes, RuntimeStep(r)
        PROVE  SlotInv'
    BY <1>1, <1>4, DispatcherSlot
    DEF RuntimeStep, FutureDone, DoneCallback, Boot, BootRaises, PrewarmReturns,
        CancelArrives, CleanupStop, CleanupStopped, CleanupClose, CleanupRaises
  <1>5. ASSUME NEW r \in Runtimes,
               PrewarmStart(r) \/ Submit(r) \/ ScansEnd(r)
        PROVE  SlotInv'
    BY <1>1, <1>5, DispatcherSlot DEF PrewarmStart, Submit, ScansEnd
  <1>6. ASSUME NEW r \in Runtimes, WorkerLeaves(r) \/ WorkerEnds(r) \/ BrowserCloses(r)
        PROVE  SlotInv'
    BY <1>6 DEF WorkerLeaves, WorkerEnds, BrowserCloses, TypeOK
  <1>7. ASSUME NEW c \in Callers, NEW op \in Operations, CallBegin(c, op)
        PROVE  SlotInv'
    BY <1>1, <1>7 DEF CallBegin
  <1>8. ASSUME NEW c \in Callers, CallStep(c)
        PROVE  SlotInv'
    <2>1. CASE CallStop(c) \/ CallJoined(c)
      <3>1. call[c].context \in Runtimes
        BY <2>1, ContextTypes DEF CallStop, CallJoined, TypeOK, RequestsOK
      <3> QED
        BY <2>1, <3>1, DispatcherSlot DEF CallStop, CallJoined
    <2>2. CASE \/ CallSnapshot(c) \/ CallCancel(c) \/ CallCallback(c)
               \/ CallEnd(c) \/ CallStart(c)
      BY <1>1, <2>2
      DEF CallSnapshot, CallCancel, CallCallback, CallEnd, CallStart, Schedule
    <2> QED
      BY <1>8, <2>1, <2>2 DEF CallStep
  <1>9. CASE Borrow
    BY <1>1, <1>9 DEF Borrow
  <1>10. CASE BorrowedSubmit
    <2>1. borrowed \in Runtimes
      BY <1>10, MaxRuntimesAssumption
      DEF BorrowedSubmit, TypeOK, Runtimes, RuntimeOrNone, NoRuntime
    <2> QED
      BY <1>10, <2>1, DispatcherSlot DEF BorrowedSubmit
  <1> QED
    BY <1>2, <1>3, <1>4, <1>5, <1>6, <1>7, <1>8, <1>9, <1>10 DEF Next

\* A worker comes to life only in a dispatcher's start.
LEMMA DispatcherQuiet ==
  ASSUME TypeOK, NEW r \in Runtimes,
         \/ DispatcherStart(r) \/ StopBegin(r) \/ StopEnd(r)
         \/ UNCHANGED dispatcherVars
  PROVE  /\ \A s \in Runtimes :
              worker'[s] = "alive" => worker[s] = "alive" \/ s = r
         /\ StopBegin(r) => worker'[r] # "alive"
         /\ StopBegin(r) \/ StopEnd(r) \/ UNCHANGED dispatcherVars =>
              \A s \in Runtimes : worker'[s] = "alive" => worker[s] = "alive"
  <1> USE DEF TypeOK
  <1>1. CASE DispatcherStart(r)
    <2>1. worker' = worker \/ worker' = [worker EXCEPT ![r] = "alive"]
          \/ worker' = [worker EXCEPT ![r] = "ended"]
      BY <1>1 DEF DispatcherStart, Started, dispatcherVars
    <2>2. ~StopBegin(r) \/ worker' = [worker EXCEPT ![r] = IF @ = "alive" THEN "told" ELSE @]
      BY DEF StopBegin
    <2>3. ~StopEnd(r) \/ worker' = worker
      BY DEF StopEnd
    <2>4. UNCHANGED dispatcherVars => worker' = worker
      BY DEF dispatcherVars
    <2> QED
      BY <2>1, <2>2, <2>3, <2>4
  <1>2. CASE StopBegin(r)
    BY <1>2 DEF StopBegin
  <1>3. CASE StopEnd(r) \/ UNCHANGED dispatcherVars
    BY <1>3 DEF StopBegin, StopEnd, dispatcherVars
  <1> QED
    BY <1>1, <1>2, <1>3

LEMMA QuietStep ==
  ASSUME TypeOK, FutureInv, QuietInv, [Next]_vars
  PROVE  QuietInv'
  <1> USE DEF TypeOK, QuietInv
  <1>1. ASSUME UNCHANGED <<phase, prewarm, borrowed>>,
               \A s \in Runtimes : worker'[s] = "alive" => worker[s] = "alive"
        PROVE  QuietInv'
    BY <1>1
  <1>2. CASE UNCHANGED vars
    BY <1>2 DEF vars
  <1>3. CASE Schedule
    <2>1. used' \in Runtimes /\ phase[used'] = "unused"
      BY <1>3, ScheduleTypes DEF Schedule, FutureInv, RuntimeOrNone, Runtimes
    <2>2. phase' = [phase EXCEPT ![used'] = "scheduled"]
      BY <1>3 DEF Schedule
    <2>3. UNCHANGED <<worker, prewarm, borrowed>>
      BY <1>3 DEF Schedule, dispatcherVars
    <2> HIDE <1>3
    <2> QED
      BY <2>1, <2>2, <2>3
  <1>4. ASSUME NEW r \in Runtimes, RuntimeStep(r)
        PROVE  QuietInv'
    <2>1. CASE FutureDone(r) \/ DoneCallback(r)
      BY <1>1, <2>1 DEF FutureDone, DoneCallback, dispatcherVars
    <2>2. CASE Boot(r)
      BY <2>2 DEF Boot, dispatcherVars
    <2>3. CASE BootRaises(r) \/ PrewarmReturns(r) \/ CancelArrives(r)
      BY <2>3 DEF BootRaises, PrewarmReturns, CancelArrives, dispatcherVars
    <2>4. CASE CleanupStop(r)
      BY <2>4, DispatcherQuiet DEF CleanupStop
    <2>5. CASE CleanupStopped(r)
      BY <2>5, DispatcherQuiet DEF CleanupStopped
    <2>6. CASE CleanupClose(r) \/ CleanupRaises(r)
      BY <2>6 DEF CleanupClose, CleanupRaises, dispatcherVars
    <2> QED
      BY <1>4, <2>1, <2>2, <2>3, <2>4, <2>5, <2>6 DEF RuntimeStep
  <1>5. ASSUME NEW r \in Runtimes,
               \/ PrewarmStart(r) \/ Submit(r) \/ ScansEnd(r)
               \/ WorkerLeaves(r) \/ WorkerEnds(r) \/ BrowserCloses(r)
        PROVE  QuietInv'
    <2>1. CASE PrewarmStart(r)
      BY <2>1, DispatcherQuiet DEF PrewarmStart
    <2>2. CASE Submit(r)
      BY <2>2, DispatcherQuiet DEF Submit
    <2>3. CASE ScansEnd(r)
      BY <2>3 DEF ScansEnd, dispatcherVars
    <2>4. CASE WorkerLeaves(r) \/ WorkerEnds(r) \/ BrowserCloses(r)
      BY <1>1, <2>4 DEF WorkerLeaves, WorkerEnds, BrowserCloses
    <2> QED
      BY <1>5, <2>1, <2>2, <2>3, <2>4
  <1>6. ASSUME NEW c \in Callers, NEW op \in Operations, CallBegin(c, op)
        PROVE  QuietInv'
    BY <1>1, <1>6 DEF CallBegin, dispatcherVars
  <1>7. ASSUME NEW c \in Callers, CallStep(c)
        PROVE  QuietInv'
    <2>1. CASE CallStop(c) \/ CallJoined(c)
      <3>1. call[c].context \in Runtimes
        BY <2>1, ContextTypes DEF CallStop, CallJoined, RequestsOK
      <3> QED
        BY <1>1, <2>1, <3>1, DispatcherQuiet DEF CallStop, CallJoined
    <2>2. CASE \/ CallSnapshot(c) \/ CallCancel(c) \/ CallCallback(c) \/ CallEnd(c)
      BY <1>1, <2>2
      DEF CallSnapshot, CallCancel, CallCallback, CallEnd, dispatcherVars
    <2>3. CASE CallStart(c)
      BY <1>1, <1>3, <2>3 DEF CallStart, dispatcherVars
    <2> QED
      BY <1>7, <2>1, <2>2, <2>3 DEF CallStep
  <1>8. CASE Borrow
    <2>1. \A s \in Runtimes : borrowed # s
      BY <1>8 DEF Borrow, Runtimes, NoRuntime
    <2> QED
      BY <1>8, <2>1 DEF Borrow, dispatcherVars
  <1>9. CASE BorrowedSubmit
    <2>1. borrowed \in Runtimes
      BY <1>9, MaxRuntimesAssumption
      DEF BorrowedSubmit, Runtimes, RuntimeOrNone, NoRuntime
    <2> QED
      BY <1>9, <2>1, DispatcherQuiet DEF BorrowedSubmit
  <1> QED
    BY <1>2, <1>3, <1>4, <1>5, <1>6, <1>7, <1>8, <1>9 DEF Next

-----------------------------------------------------------------------------
(* The wanted runtime is the current one.                                  *)

\* A request that moves on leaves the others alone and keeps its operation
\* until it is answered.
LEMMA GotoMoves ==
  ASSUME TypeOK, NEW c \in Callers, NEW at \in CallStates, Goto(c, at)
  PROVE  /\ \A d \in Callers : d # c => call'[d] = call[d]
         /\ call'[c].at \in {at, "idle"}
         /\ call'[c].op = "shutdown" => call[c].op = "shutdown"
  <1>1. call \in [Callers -> Calls]
    BY DEF TypeOK, RequestsOK
  <1>2. \/ call'[c] = Idle
        \/ call'[c] = Request(call[c].op, at, NoRuntime, NoRuntime)
        \/ call'[c] = Request(call[c].op, at, NoRuntime, call[c].context)
    BY <1>1 DEF Goto
  <1>3. \A d \in Callers : d # c => call'[d] = call[d]
    BY <1>1 DEF Goto
  <1> QED
    BY <1>2, <1>3 DEF Idle, Request

\* A snapshot leads to the cancellation of the current future or, without one,
\* to an end.
LEMMA SnapshotMoves ==
  ASSUME TypeOK, NEW c \in Callers, NEW op \in Operations, Snapshot(c, op)
  PROVE  /\ \A d \in Callers : d # c => call'[d] = call[d]
         /\ call'[c].op \in {op, "stop"}
         /\ call'[c].at \in {"cancel", "end", "idle"}
         /\ call'[c].at = "cancel" => current # NoRuntime /\ call'[c].future = current
         /\ call'[c].at = "cancel" \/ current = NoRuntime
  <1>1. call \in [Callers -> Calls]
    BY DEF TypeOK, RequestsOK
  <1>2. CASE current # NoRuntime
    <2>1. call' = [call EXCEPT ![c] = Request(op, "cancel", current, context)]
      BY <1>2 DEF Snapshot
    <2> QED
      BY <1>1, <1>2, <2>1 DEF Request
  <1>3. CASE current = NoRuntime
    <2>1. \/ call' = [call EXCEPT ![c] = Idle]
          \/ call' = [call EXCEPT ![c] = Request(op, "end", NoRuntime, NoRuntime)]
      BY <1>3 DEF Snapshot
    <2> QED
      BY <1>1, <1>3, <2>1 DEF Idle, Request
  <1> QED
    BY <1>2, <1>3

\* A new request has no callback to run; a shutdown has set its flag.
LEMMA BeginMoves ==
  ASSUME TypeOK, NEW c \in Callers, NEW op \in Operations, CallBegin(c, op)
  PROVE  /\ \A d \in Callers : d # c => call'[d] = call[d]
         /\ call'[c].at # "callback"
         /\ call'[c].op = "shutdown" => call'[c].at = "snapshot" /\ manager' # "open"
  <1>1. call \in [Callers -> Calls]
    BY DEF TypeOK, RequestsOK
  <1>2. CASE op = "shutdown"
    <2>1. call' = [call EXCEPT ![c] = Request(op, "snapshot", NoRuntime, NoRuntime)]
          /\ manager' = "closing"
      BY <1>2 DEF CallBegin
    <2> QED
      BY <1>1, <2>1 DEF Request
  <1>3. CASE op # "shutdown"
    BY <1>3, SnapshotMoves DEF CallBegin
  <1> QED
    BY <1>2, <1>3

\* Where each step of a request leads.
LEMMA CallStepMoves ==
  ASSUME TypeOK, NEW c \in Callers, CallStep(c)
  PROVE  /\ \A d \in Callers : d # c => call'[d] = call[d]
         /\ call'[c].op = "shutdown" => call[c].op = "shutdown"
         /\ call'[c].at = "callback" =>
               CallCancel(c) /\ future[call[c].future] = "pending"
                 /\ call'[c].future = call[c].future
         /\ call'[c].at = "cancel" =>
               CallSnapshot(c) /\ current # NoRuntime /\ call'[c].future = current
         /\ call[c].at = "snapshot" =>
               CallSnapshot(c) /\ (call'[c].at = "cancel" \/ current = NoRuntime)
  <1> DEFINE Moves(d, at) == /\ \A e \in Callers : e # d => call'[e] = call[e]
                             /\ call'[d].at \in {at, "idle"}
                             /\ call'[d].op = "shutdown" => call[d].op = "shutdown"
  <1>0. call \in [Callers -> Calls]
    BY DEF TypeOK, RequestsOK
  <1>1. CASE CallSnapshot(c)
    <2>1. call[c].op \in Operations
      BY <1>0 DEF Calls
    <2> QED
      BY <1>1, <2>1, SnapshotMoves DEF CallSnapshot
  <1>2. AfterCancel(c) \in {"stop1", "end"}
    BY DEF AfterCancel
  <1>3. CASE CallCancel(c)
    <2>1. call[c].at = "cancel"
      BY <1>3 DEF CallCancel
    <2>2. CASE future[call[c].future] = "pending"
      <3>1. call' = [call EXCEPT ![c] =
                       Request(call[c].op, "callback", call[c].future, call[c].context)]
        BY <1>3, <2>2 DEF CallCancel
      <3> QED
        BY <1>0, <1>3, <2>1, <2>2, <3>1 DEF Request
    <2>3. CASE future[call[c].future] # "pending"
      <3>1. Moves(c, AfterCancel(c))
        BY <1>2, <1>3, <2>3, GotoMoves DEF CallCancel, CallStates
      <3> QED
        BY <1>2, <2>1, <3>1
    <2> QED
      BY <2>2, <2>3
  <1>4. CASE CallCallback(c)
    <2>1. Moves(c, AfterCancel(c)) /\ call[c].at = "callback"
      BY <1>2, <1>4, GotoMoves DEF CallCallback, CallStates
    <2> QED
      BY <1>2, <2>1
  <1>5. CASE CallStop(c) \/ CallJoined(c) \/ CallEnd(c) \/ CallStart(c)
    <2>1. /\ call[c].at # "snapshot"
          /\ \E at \in {"stop2", "join1", "join2", "end", "start", "idle"} : Goto(c, at)
      BY <1>5 DEF CallStop, CallJoined, CallEnd, CallStart
    <2>2. \E at \in {"stop2", "join1", "join2", "end", "start", "idle"} : Moves(c, at)
      BY <2>1, GotoMoves DEF CallStates
    <2> QED
      BY <2>1, <2>2
  <1> QED
    BY <1>1, <1>3, <1>4, <1>5 DEF CallStep

\* The steps that are not a request's leave the requests alone.
LEMMA NoCallStep ==
  ASSUME NEW r \in Runtimes,
         \/ RuntimeStep(r) \/ PrewarmStart(r) \/ Submit(r) \/ ScansEnd(r)
         \/ WorkerLeaves(r) \/ WorkerEnds(r) \/ BrowserCloses(r) \/ Borrow \/ BorrowedSubmit
  PROVE  UNCHANGED call /\ UNCHANGED manager /\ UNCHANGED used
  BY DEF RuntimeStep, FutureDone, DoneCallback, Boot, BootRaises, PrewarmReturns,
         CancelArrives, CleanupStop, CleanupStopped, CleanupClose, CleanupRaises,
         PrewarmStart, Submit, ScansEnd, WorkerLeaves, WorkerEnds, BrowserCloses, Borrow,
         BorrowedSubmit, managerVars

\* Futures that are done stay as they are, and the one that is not remains
\* the current one.
OnlyCompletes ==
    /\ UNCHANGED used
    /\ \A r \in Runtimes :
          /\ future'[r] = "pending" => future[r] = "pending" /\ current' = r
          /\ future[r] \in {"none", "cancelled"} => future'[r] = future[r]
    /\ current' \in {NoRuntime, current}

\* No step other than Schedule makes a future pending.
LEMMA FutureStep ==
  ASSUME TypeOK, WantedIsCurrent, FutureInv, [Next]_vars, ~Schedule
  PROVE  OnlyCompletes
  <1> USE DEF TypeOK, WantedIsCurrent, OnlyCompletes
  <1>1. ASSUME UNCHANGED <<used, future, current>>
        PROVE  OnlyCompletes
    BY <1>1
  <1>2. ASSUME NEW r \in Runtimes, FutureDone(r) \/ DoneCallback(r)
        PROVE  OnlyCompletes
    BY <1>2 DEF FutureDone, DoneCallback, HandleDone
  <1>3. ASSUME NEW c \in Callers, CallCancel(c)
        PROVE  OnlyCompletes
    BY <1>3 DEF CallCancel
  <1>4. ASSUME NEW c \in Callers, CallCallback(c)
        PROVE  OnlyCompletes
    <2>1. future[call[c].future] = "cancelled"
      BY <1>4 DEF CallCallback, FutureInv
    <2> QED
      BY <1>4, <2>1 DEF CallCallback, HandleDone
  <1>5. CASE UNCHANGED vars
    BY <1>1, <1>5 DEF vars
  <1>6. ASSUME NEW r \in Runtimes,
               \/ Boot(r) \/ BootRaises(r) \/ PrewarmReturns(r) \/ CancelArrives(r)
               \/ CleanupStop(r) \/ CleanupStopped(r) \/ CleanupClose(r)
               \/ CleanupRaises(r) \/ PrewarmStart(r) \/ Submit(r) \/ ScansEnd(r)
               \/ WorkerLeaves(r) \/ WorkerEnds(r) \/ BrowserCloses(r)
        PROVE  UNCHANGED <<used, future, current>>
    BY <1>6
    DEF Boot, BootRaises, PrewarmReturns, CancelArrives, CleanupStop, CleanupStopped,
        CleanupClose, CleanupRaises, PrewarmStart, Submit, ScansEnd, WorkerLeaves,
        WorkerEnds, BrowserCloses, managerVars
  <1>7. ASSUME NEW c \in Callers, NEW op \in Operations,
               \/ CallBegin(c, op) \/ CallSnapshot(c) \/ CallStop(c) \/ CallJoined(c)
               \/ CallEnd(c) \/ CallStart(c) \/ Borrow \/ BorrowedSubmit
        PROVE  UNCHANGED <<used, future, current>>
    BY <1>7
    DEF CallBegin, CallSnapshot, CallStop, CallJoined, CallEnd, CallStart, Borrow,
        BorrowedSubmit, managerVars
  <1>8. ASSUME NEW r \in Runtimes, RuntimeStep(r)
        PROVE  FutureDone(r) \/ DoneCallback(r) \/ UNCHANGED <<used, future, current>>
    BY <1>6, <1>8 DEF RuntimeStep
  <1>9. ASSUME NEW c \in Callers, CallStep(c)
        PROVE  CallCancel(c) \/ CallCallback(c) \/ UNCHANGED <<used, future, current>>
    BY <1>7, <1>9 DEF CallStep, Operations
  <1>10. ASSUME Borrow \/ BorrowedSubmit
         PROVE  UNCHANGED <<used, future, current>>
    BY <1>10 DEF Borrow, BorrowedSubmit, managerVars
  <1> QED
    BY <1>1, <1>2, <1>3, <1>4, <1>5, <1>6, <1>7, <1>8, <1>9, <1>10 DEF Next

\* A runtime comes to life only when it is scheduled.
LEMMA UnusedStep ==
  ASSUME TypeOK, [Next]_vars, ~Schedule
  PROVE  \A r \in Runtimes : (phase[r] = "unused" <=> phase'[r] = "unused")
  <1> USE DEF TypeOK
  <1>1. ASSUME NEW r \in Runtimes, RuntimeStep(r)
        PROVE  \A s \in Runtimes : (phase[s] = "unused" <=> phase'[s] = "unused")
    BY <1>1
    DEF RuntimeStep, FutureDone, DoneCallback, Boot, BootRaises, PrewarmReturns,
        CancelArrives, CleanupStop, CleanupStopped, CleanupClose, CleanupRaises
  <1>2. ASSUME NEW r \in Runtimes,
               \/ PrewarmStart(r) \/ Submit(r) \/ ScansEnd(r)
               \/ WorkerLeaves(r) \/ WorkerEnds(r) \/ BrowserCloses(r)
        PROVE  \A s \in Runtimes : (phase[s] = "unused" <=> phase'[s] = "unused")
    BY <1>2 DEF PrewarmStart, Submit, ScansEnd, WorkerLeaves, WorkerEnds, BrowserCloses
  <1>3. ASSUME NEW c \in Callers, NEW op \in Operations, CallBegin(c, op)
        PROVE  UNCHANGED phase
    BY <1>3 DEF CallBegin
  <1>4. ASSUME NEW c \in Callers, CallStep(c)
        PROVE  UNCHANGED phase
    BY <1>4 DEF CallStep, CallSnapshot, CallCancel, CallCallback, CallStop,
                CallJoined, CallEnd, CallStart
  <1>5. CASE Borrow \/ BorrowedSubmit \/ UNCHANGED vars
    BY <1>5 DEF Borrow, BorrowedSubmit, vars
  <1> QED
    BY <1>1, <1>2, <1>3, <1>4, <1>5 DEF Next

LEMMA ManagerStep ==
  ASSUME TypeOK, WantedIsCurrent, FutureInv, [Next]_vars
  PROVE  WantedIsCurrent' /\ FutureInv'
  <1> USE DEF TypeOK, WantedIsCurrent
  <1>0. used \in Nat
    BY MaxRuntimesAssumption DEF RuntimeOrNone
  <1>1. \A c \in Callers :
           call'[c].at = "callback" =>
             future'[call'[c].future] = "cancelled"
    <2> SUFFICES ASSUME NEW c \in Callers, call'[c].at = "callback"
                 PROVE  future'[call'[c].future] = "cancelled"
      OBVIOUS
    <2>1. ASSUME call'[c] = call[c]
          PROVE  future'[call'[c].future] = "cancelled"
      <3>1. call[c].at = "callback" /\ call[c].future \in Runtimes
            /\ future[call[c].future] = "cancelled"
        BY <2>1, ContextTypes DEF FutureInv, RequestsOK
      <3>2. CASE Schedule
        <4>1. future' = [future EXCEPT ![used'] = "pending"] /\ used' = used + 1
          BY <3>2 DEF Schedule
        <4>2. call[c].future # used'
          BY <1>0, <3>1, <4>1 DEF FutureInv, Runtimes
        <4> QED
          BY <2>1, <3>1, <4>1, <4>2
      <3>3. CASE ~Schedule
        BY <2>1, <3>1, <3>3, FutureStep DEF OnlyCompletes
      <3> QED
        BY <3>2, <3>3
    <2>2. ASSUME NEW d \in Callers, NEW op \in Operations, CallBegin(d, op)
          PROVE  future'[call'[c].future] = "cancelled"
      <3>1. d # c /\ call'[c] = call[c]
        BY <2>2, BeginMoves
      <3> QED
        BY <2>1, <3>1
    <2>3. ASSUME NEW d \in Callers, CallStep(d)
          PROVE  future'[call'[c].future] = "cancelled"
      <3>1. CASE d # c
        BY <2>1, <2>3, <3>1, CallStepMoves
      <3>2. CASE d = c
        <4>1. /\ CallCancel(c) /\ future[call[c].future] = "pending"
              /\ call'[c].future = call[c].future
          BY <2>3, <3>2, CallStepMoves
        <4>2. call[c].future \in Runtimes
          BY <4>1, ContextTypes DEF CallCancel, RequestsOK
        <4> QED
          BY <4>1, <4>2 DEF CallCancel
      <3> QED
        BY <3>1, <3>2
    <2>4. ASSUME UNCHANGED call
          PROVE  future'[call'[c].future] = "cancelled"
      BY <2>1, <2>4
    <2>5. CASE UNCHANGED vars
      BY <2>4, <2>5 DEF vars
    <2>6. ASSUME NEW r \in Runtimes,
                 \/ RuntimeStep(r) \/ PrewarmStart(r) \/ Submit(r) \/ ScansEnd(r)
                 \/ WorkerLeaves(r) \/ WorkerEnds(r) \/ BrowserCloses(r)
          PROVE  UNCHANGED call
      BY <2>6, NoCallStep
    <2>7. ASSUME Borrow \/ BorrowedSubmit
          PROVE  UNCHANGED call
      BY <2>7 DEF Borrow, BorrowedSubmit
    <2> QED
      BY <2>2, <2>3, <2>4, <2>5, <2>6, <2>7 DEF Next
  <1>2. CASE Schedule
    <2>1. /\ used' = used + 1 /\ current' = used' /\ used' \in Runtimes
          /\ future' = [future EXCEPT ![used'] = "pending"]
          /\ phase' = [phase EXCEPT ![used'] = "scheduled"]
          /\ ~Running
      BY <1>2, ScheduleTypes DEF Schedule
    <2>2. \A r \in Runtimes : future[r] # "pending"
      BY <2>1 DEF Running, Runtimes, NoRuntime
    <2>3. WantedIsCurrent'
      BY <2>1, <2>2
    <2>4. \A r \in Runtimes :
             /\ r > used' => future'[r] = "none" /\ phase'[r] = "unused"
             /\ r <= used' => phase'[r] # "unused"
      BY <1>0, <2>1 DEF FutureInv, Runtimes
    <2> QED
      BY <1>1, <2>1, <2>3, <2>4 DEF FutureInv
  <1>3. CASE ~Schedule
    <2>1. OnlyCompletes
      BY <1>3, FutureStep
    <2>2. \A r \in Runtimes :
             /\ r > used' => future'[r] = "none" /\ phase'[r] = "unused"
             /\ r <= used' => phase'[r] # "unused"
      BY <1>3, <2>1, UnusedStep DEF OnlyCompletes, FutureInv
    <2>3. current' \in {NoRuntime, used'}
      BY <2>1 DEF OnlyCompletes, FutureInv
    <2> QED
      BY <1>1, <2>1, <2>2, <2>3 DEF FutureInv, OnlyCompletes
  <1> QED
    BY <1>2, <1>3

-----------------------------------------------------------------------------
(* The context of the current runtime.                                     *)

\* Phases change one runtime at a time; what a step of the loop or of a scan
\* may do to the phase of its runtime.
LEMMA PhaseStep ==
  ASSUME TypeOK, [Next]_vars, ~Schedule
  PROVE  \/ UNCHANGED phase
         \/ \E r \in Runtimes :
              /\ \A s \in Runtimes : s # r => phase'[s] = phase[s]
              /\ phase'[r] # "scheduled"
              /\ \/ phase[r] \notin {"unused", "scheduled", "closed", "abandoned"}
                 \/ phase'[r] = "abandoned"
                 \/ Boot(r)
  <1> USE DEF TypeOK
  <1> DEFINE Moves(r) == /\ \A s \in Runtimes : s # r => phase'[s] = phase[s]
                         /\ phase'[r] # "scheduled"
                         /\ \/ phase[r] \notin {"unused", "scheduled", "closed", "abandoned"}
                            \/ phase'[r] = "abandoned"
                            \/ Boot(r)
  <1>1. ASSUME NEW r \in Runtimes, RuntimeStep(r)
        PROVE  UNCHANGED phase \/ Moves(r)
    <2>1. CASE FutureDone(r) \/ DoneCallback(r)
      BY <2>1 DEF FutureDone, DoneCallback
    <2>2. CASE Boot(r)
      BY <2>2 DEF Boot
    <2>3. CASE BootRaises(r) \/ PrewarmReturns(r) \/ CancelArrives(r)
      BY <2>3 DEF BootRaises, PrewarmReturns, CancelArrives
    <2>4. CASE \/ CleanupStop(r) \/ CleanupStopped(r) \/ CleanupClose(r)
               \/ CleanupRaises(r)
      BY <2>4 DEF CleanupStop, CleanupStopped, CleanupClose, CleanupRaises
    <2> QED
      BY <1>1, <2>1, <2>2, <2>3, <2>4 DEF RuntimeStep
  <1>2. ASSUME NEW r \in Runtimes,
               \/ PrewarmStart(r) \/ Submit(r) \/ ScansEnd(r)
               \/ WorkerLeaves(r) \/ WorkerEnds(r) \/ BrowserCloses(r)
        PROVE  UNCHANGED phase \/ Moves(r)
    BY <1>2 DEF PrewarmStart, Submit, ScansEnd, WorkerLeaves, WorkerEnds, BrowserCloses
  <1>3. ASSUME NEW c \in Callers, NEW op \in Operations, CallBegin(c, op)
        PROVE  UNCHANGED phase
    BY <1>3 DEF CallBegin
  <1>4. ASSUME NEW c \in Callers, CallStep(c)
        PROVE  UNCHANGED phase
    BY <1>4 DEF CallStep, CallSnapshot, CallCancel, CallCallback, CallStop,
                CallJoined, CallEnd, CallStart
  <1>5. CASE Borrow \/ BorrowedSubmit \/ UNCHANGED vars
    BY <1>5 DEF Borrow, BorrowedSubmit, vars
  <1> QED
    BY <1>1, <1>2, <1>3, <1>4, <1>5 DEF Next

LEMMA BootStep ==
  ASSUME TypeOK, FutureInv, BootInv, [Next]_vars
  PROVE  BootInv'
  <1> USE DEF TypeOK, BootInv
  <1>0. used \in Nat
    BY MaxRuntimesAssumption DEF RuntimeOrNone
  <1>1. CASE Schedule
    <2>1. /\ used' = used + 1 /\ used' \in Runtimes
          /\ phase' = [phase EXCEPT ![used'] = "scheduled"]
      BY <1>1, ScheduleTypes DEF Schedule
    <2>2. \A s \in Runtimes : s > used' => phase[s] = "unused"
      BY <1>0, <2>1 DEF FutureInv, Runtimes
    <2> SUFFICES ASSUME NEW r \in Runtimes, NEW s \in Runtimes,
                        phase'[r] = "scheduled", r < s
                 PROVE  phase'[s] \in {"unused", "scheduled", "abandoned"}
      BY DEF Runtimes
    <2> HIDE <1>1
    <2>3. CASE r = used'
      BY <2>1, <2>2, <2>3 DEF Runtimes
    <2>4. CASE s = used'
      BY <2>1, <2>4
    <2>5. CASE r # used' /\ s # used'
      BY <2>1, <2>5
    <2> QED
      BY <2>3, <2>4, <2>5
  <1>2. CASE ~Schedule
    <2>1. CASE UNCHANGED phase
      BY <2>1
    <2>2. ASSUME NEW r \in Runtimes,
                 \A s \in Runtimes : s # r => phase'[s] = phase[s],
                 phase'[r] # "scheduled",
                 \/ phase[r] \notin {"unused", "scheduled", "closed", "abandoned"}
                 \/ phase'[r] = "abandoned"
                 \/ Boot(r)
          PROVE  BootInv'
      <3> SUFFICES ASSUME NEW p \in Runtimes, NEW s \in Runtimes,
                          phase'[p] = "scheduled", p < s
                   PROVE  phase'[s] \in {"unused", "scheduled", "abandoned"}
        BY DEF Runtimes
      <3>1. p # r /\ phase[p] = "scheduled"
        BY <2>2
      <3>2. CASE s # r
        BY <2>2, <3>1, <3>2
      <3>3. CASE s = r
        <4>1. ~Boot(r)
          BY <3>1, <3>3 DEF Boot, Runtimes
        <4> QED
          BY <2>2, <3>1, <3>3, <4>1
      <3> QED
        BY <3>2, <3>3
    <2> QED
      BY <1>2, <2>1, <2>2, PhaseStep
  <1> QED
    BY <1>1, <1>2

\* The context changes when a runtime boots and when the current one ends.
LEMMA ContextMoves ==
  ASSUME TypeOK, [Next]_vars
  PROVE  UNCHANGED context \/ current' = NoRuntime \/ \E r \in Runtimes : Boot(r)
  <1>1. ASSUME NEW r \in Runtimes, RuntimeStep(r)
        PROVE  UNCHANGED context \/ current' = NoRuntime \/ Boot(r)
    BY <1>1
    DEF RuntimeStep, FutureDone, DoneCallback, BootRaises, PrewarmReturns,
        CancelArrives, CleanupStop, CleanupStopped, CleanupClose, CleanupRaises,
        HandleDone, managerVars
  <1>2. ASSUME NEW r \in Runtimes,
               \/ PrewarmStart(r) \/ Submit(r) \/ ScansEnd(r)
               \/ WorkerLeaves(r) \/ WorkerEnds(r) \/ BrowserCloses(r)
        PROVE  UNCHANGED context
    BY <1>2 DEF PrewarmStart, Submit, ScansEnd, WorkerLeaves, WorkerEnds, BrowserCloses, managerVars
  <1>3. ASSUME NEW c \in Callers, NEW op \in Operations, CallBegin(c, op)
        PROVE  UNCHANGED context
    BY <1>3 DEF CallBegin
  <1>4. ASSUME NEW c \in Callers, CallStep(c)
        PROVE  UNCHANGED context \/ current' = NoRuntime
    BY <1>4 DEF CallStep, CallSnapshot, CallCancel, CallCallback, CallStop,
                CallJoined, CallEnd, CallStart, HandleDone, Schedule, managerVars
  <1>5. CASE Schedule \/ Borrow \/ BorrowedSubmit \/ UNCHANGED vars
    BY <1>5 DEF Schedule, Borrow, BorrowedSubmit, vars, managerVars
  <1> QED
    BY <1>1, <1>2, <1>3, <1>4, <1>5 DEF Next

LEMMA ContextStep ==
  ASSUME TypeOK, WantedIsCurrent, FutureInv, BootInv, ContextIsCurrent, [Next]_vars
  PROVE  ContextIsCurrent'
  <1> SUFFICES ASSUME Running',
                      phase'[current'] \notin {"scheduled", "closed", "abandoned"}
               PROVE  context' = current'
    BY DEF ContextIsCurrent
  <1>0. TypeOK'
    BY TypeStep
  <1>1. current' # NoRuntime /\ current' \in Runtimes /\ future'[current'] = "pending"
    BY <1>0, MaxRuntimesAssumption
    DEF Running, TypeOK, RuntimeOrNone, Runtimes, NoRuntime
  <1>2. ~Schedule
    BY <1>1, ScheduleTypes DEF Schedule, TypeOK
  <1>3. current' = current /\ Running /\ current \in Runtimes
    BY <1>1, <1>2, FutureStep DEF OnlyCompletes, Running
  <1>4. CASE \E r \in Runtimes : Boot(r)
    <2>1. PICK r \in Runtimes : Boot(r)
      BY <1>4
    <2>2. phase[r] = "scheduled" /\ context' = r
          /\ \A s \in Runtimes : s # r => phase'[s] = phase[s]
      BY <2>1 DEF Boot, TypeOK
    <2>3. r <= current
      <3>1. used = current
        BY <1>3 DEF FutureInv, Running
      <3>2. ~(r > used)
        BY <2>2 DEF FutureInv
      <3> QED
        BY <1>3, <3>1, <3>2 DEF Runtimes
    <2>4. CASE r # current
      <3>1. phase[current] \in {"unused", "scheduled", "abandoned"}
        BY <1>3, <2>2, <2>3, <2>4 DEF BootInv, Runtimes
      <3>2. phase[current] \notin {"scheduled", "abandoned"}
        BY <1>3, <2>2, <2>4
      <3>3. phase[current] # "unused"
        BY <1>3 DEF FutureInv, Running, Runtimes
      <3> QED
        BY <3>1, <3>2, <3>3
    <2> QED
      BY <1>3, <2>2, <2>4
  <1>5. CASE ~\E r \in Runtimes : Boot(r)
    <2>1. context' = context
      BY <1>1, <1>5, ContextMoves
    <2>2. phase[current] \notin {"scheduled", "closed", "abandoned"}
      BY <1>2, <1>3, <1>5, PhaseStep
    <2> QED
      BY <1>3, <2>1, <2>2 DEF ContextIsCurrent
  <1> QED
    BY <1>4, <1>5

-----------------------------------------------------------------------------
(* The shutdown.                                                           *)

\* The flag is set by a shutdown's first step and never cleared; the loop is
\* stopped by its last one.
LEMMA ManagerMoves ==
  ASSUME TypeOK, [Next]_vars
  PROVE  /\ manager # "open" => manager' # "open"
         /\ \/ manager' # "closed" \/ manager = "closed"
            \/ \E c \in Callers : call[c].op = "shutdown" /\ call[c].at = "end" /\ CallEnd(c)
  <1>1. ASSUME NEW r \in Runtimes,
               \/ RuntimeStep(r) \/ PrewarmStart(r) \/ Submit(r) \/ ScansEnd(r)
               \/ WorkerLeaves(r) \/ WorkerEnds(r) \/ BrowserCloses(r)
        PROVE  UNCHANGED manager
    BY <1>1, NoCallStep
  <1>2. ASSUME NEW c \in Callers, NEW op \in Operations, CallBegin(c, op)
        PROVE  manager' # "open" \/ manager = "open"
    BY <1>2 DEF CallBegin
  <1>3. ASSUME NEW c \in Callers, NEW op \in Operations, CallBegin(c, op)
        PROVE  manager' # "closed" \/ manager = "closed"
    BY <1>3 DEF CallBegin
  <1>4. ASSUME NEW c \in Callers, CallStep(c)
        PROVE  \/ UNCHANGED manager
               \/ /\ call[c].op = "shutdown" /\ call[c].at = "end" /\ CallEnd(c)
                  /\ manager' = "closed"
    BY <1>4 DEF CallStep, CallSnapshot, CallCancel, CallCallback, CallStop,
                CallJoined, CallEnd, CallStart, Schedule, managerVars
  <1>5. CASE Schedule \/ Borrow \/ BorrowedSubmit \/ UNCHANGED vars
    BY <1>5 DEF Schedule, Borrow, BorrowedSubmit, vars, managerVars
  <1> QED
    BY <1>1, <1>2, <1>3, <1>4, <1>5 DEF Next

\* What is known of one shutdown request, in any state.
ShutdownAt(c) ==
    call[c].op = "shutdown" =>
      /\ manager # "open"
      /\ call[c].at \in {"callback", "stop1", "join1", "stop2", "join2", "end"}
           => \A r \in Runtimes : future[r] # "pending"
      /\ call[c].at = "cancel"
           => \A r \in Runtimes : future[r] = "pending" => r = call[c].future

\* A request that does not move keeps it: futures only complete.
LEMMA ShutdownStays ==
  ASSUME TypeOK, WantedIsCurrent, FutureInv, [Next]_vars,
         NEW c \in Callers, ShutdownAt(c), call'[c] = call[c]
  PROVE  ShutdownAt(c)'
  <1> SUFFICES ASSUME call'[c].op = "shutdown"
               PROVE  ShutdownAt(c)'
    BY DEF ShutdownAt
  <1>1. manager # "open" /\ manager' # "open"
    BY ManagerMoves DEF ShutdownAt
  <1>2. ~Schedule
    BY <1>1 DEF Schedule
  <1>3. \A r \in Runtimes : future'[r] = "pending" => future[r] = "pending"
    BY <1>2, FutureStep DEF OnlyCompletes
  <1> QED
    BY <1>1, <1>3 DEF ShutdownAt

\* One that moves has cancelled the current future before it goes further.
LEMMA ShutdownMoves ==
  ASSUME TypeOK, WantedIsCurrent, FutureInv, NEW c \in Callers, CallStep(c),
         ShutdownAt(c)
  PROVE  ShutdownAt(c)'
  <1> USE DEF TypeOK, WantedIsCurrent
  <1> SUFFICES ASSUME call'[c].op = "shutdown"
               PROVE  ShutdownAt(c)'
    BY DEF ShutdownAt
  <1>1. [Next]_vars
    BY DEF Next
  <1>2. call[c].op = "shutdown"
    BY CallStepMoves
  <1>3. manager # "open" /\ manager' # "open"
    BY <1>1, <1>2, ManagerMoves DEF ShutdownAt
  <1>4. ~Schedule
    BY <1>3 DEF Schedule
  <1>5. \A r \in Runtimes :
           future'[r] = "pending" => future[r] = "pending" /\ current' = r
    BY <1>1, <1>4, FutureStep DEF OnlyCompletes
  <1>6. CASE call[c].at = "snapshot"
    <2>1. CallSnapshot(c)
      BY <1>6, CallStepMoves
    <2>2. CASE current = NoRuntime
      <3>1. \A r \in Runtimes : future'[r] # "pending"
        BY <1>5, <2>2 DEF Runtimes, NoRuntime
      <3> QED
        BY <1>3, <3>1 DEF ShutdownAt
    <2>3. CASE current # NoRuntime
      <3>1. call'[c].at = "cancel"
        BY <1>6, <2>3, CallStepMoves
      <3>2. call'[c].future = current
        BY <3>1, CallStepMoves
      <3>3. \A r \in Runtimes : future'[r] = "pending" => r = current
        BY <1>5
      <3> QED
        BY <1>3, <3>1, <3>2, <3>3 DEF ShutdownAt
    <2> QED
      BY <2>2, <2>3
  <1>7. CASE call[c].at = "cancel"
    <2>1. CallCancel(c)
      BY <1>7 DEF CallStep, CallSnapshot, CallCancel, CallCallback, CallStop,
                  CallJoined, CallEnd, CallStart
    <2>2. call[c].future \in Runtimes
      BY <1>7, ContextTypes DEF RequestsOK
    <2>3. \A r \in Runtimes : future'[r] # "pending"
      BY <1>2, <1>7, <2>1, <2>2 DEF ShutdownAt, CallCancel
    <2> QED
      BY <1>3, <2>3 DEF ShutdownAt
  <1>8. CASE call[c].at \in {"callback", "stop1", "join1", "stop2", "join2", "end"}
    <2>1. \A r \in Runtimes : future'[r] # "pending"
      BY <1>2, <1>5, <1>8 DEF ShutdownAt
    <2> QED
      BY <1>3, <2>1 DEF ShutdownAt
  <1>9. CASE call[c].at \in {"idle", "start"}
    <2>1. CallStart(c)
      BY <1>9 DEF CallStep, CallSnapshot, CallCancel, CallCallback, CallStop,
                  CallJoined, CallEnd, CallStart
    <2>2. call'[c].at = "idle"
      BY <2>1, GotoMoves DEF CallStart, CallStates
    <2> QED
      BY <1>3, <2>2 DEF ShutdownAt
  <1>10. call[c].at \in CallStates
    BY DEF RequestsOK, Calls
  <1> QED
    BY <1>6, <1>7, <1>8, <1>9, <1>10 DEF CallStates

LEMMA ShutdownStep ==
  ASSUME TypeOK, WantedIsCurrent, FutureInv, ShutdownInv, [Next]_vars
  PROVE  ShutdownInv'
  <1>0. \A c \in Callers : ShutdownAt(c)
    BY DEF ShutdownInv, ShutdownAt
  <1>1. ASSUME NEW c \in Callers
        PROVE  ShutdownAt(c)'
    <2>1. ASSUME call'[c] = call[c]
          PROVE  ShutdownAt(c)'
      BY <1>0, <2>1, ShutdownStays
    <2>2. ASSUME NEW d \in Callers, NEW op \in Operations, CallBegin(d, op)
          PROVE  ShutdownAt(c)'
      <3>1. CASE d # c
        BY <2>1, <2>2, <3>1, BeginMoves
      <3>2. CASE d = c
        BY <2>2, <3>2, BeginMoves DEF ShutdownAt
      <3> QED
        BY <3>1, <3>2
    <2>3. ASSUME NEW d \in Callers, CallStep(d)
          PROVE  ShutdownAt(c)'
      <3>1. CASE d # c
        BY <2>1, <2>3, <3>1, CallStepMoves
      <3>2. CASE d = c
        BY <1>0, <2>3, <3>2, ShutdownMoves
      <3> QED
        BY <3>1, <3>2
    <2>4. CASE \/ Schedule /\ UNCHANGED call
               \/ Borrow \/ BorrowedSubmit \/ UNCHANGED vars
      BY <2>1, <2>4 DEF Borrow, BorrowedSubmit, vars
    <2>5. ASSUME NEW r \in Runtimes,
                 \/ RuntimeStep(r) \/ PrewarmStart(r) \/ Submit(r) \/ ScansEnd(r)
                 \/ WorkerLeaves(r) \/ WorkerEnds(r) \/ BrowserCloses(r)
          PROVE  ShutdownAt(c)'
      BY <2>1, <2>5, NoCallStep
    <2> QED
      BY <2>2, <2>3, <2>4, <2>5 DEF Next
  <1>2. ShutdownIsFinal'
    <2> SUFFICES ASSUME manager' = "closed", NEW r \in Runtimes
                 PROVE  future'[r] # "pending"
      BY DEF ShutdownIsFinal
    <2>1. manager # "open" /\ future[r] # "pending"
      BY <1>0, ManagerMoves DEF ShutdownInv, ShutdownIsFinal, ShutdownAt
    <2>2. ~Schedule
      BY <2>1 DEF Schedule
    <2> QED
      BY <2>1, <2>2, FutureStep DEF OnlyCompletes
  <1> QED
    BY <1>1, <1>2 DEF ShutdownInv, ShutdownAt

-----------------------------------------------------------------------------
(* The theorems.                                                           *)

LEMMA InitInv == Init => IInv
  <1> SUFFICES ASSUME Init
               PROVE  IInv
    OBVIOUS
  <1>1. TypeOK
    BY InitType
  <1>2. \A c \in Callers : call[c].at = "idle" /\ call[c].op = "stop"
    BY DEF Init, Idle, Request
  <1>3. \A r \in Runtimes :
           future[r] = "none" /\ phase[r] = "unused" /\ worker[r] = "none" /\ ~prewarm[r]
    BY DEF Init
  <1>4. FutureInv /\ BootInv /\ WantedIsCurrent
    BY <1>2, <1>3 DEF Init, FutureInv, BootInv, WantedIsCurrent, NoRuntime, Runtimes
  <1>5. ContextIsCurrent /\ SlotInv /\ QuietInv
    BY <1>3 DEF Init, ContextIsCurrent, Running, SlotInv, Working, QuietInv
  <1>6. ShutdownInv
    BY <1>2 DEF Init, ShutdownInv, ShutdownIsFinal
  <1> QED
    BY <1>1, <1>4, <1>5, <1>6 DEF IInv

LEMMA NextInv ==
  ASSUME IInv, [Next]_vars
  PROVE  IInv'
  BY TypeStep, ManagerStep, BootStep, ContextStep, SlotStep, QuietStep, ShutdownStep
  DEF IInv

LEMMA Invariance == Spec => []IInv
  <1>1. Init => IInv
    BY InitInv
  <1>2. IInv /\ [Next]_vars => IInv'
    BY NextInv
  <1> QED
    BY <1>1, <1>2, PTL DEF Spec

\* No callback of an earlier future loses the runtime that is wanted.
THEOREM WantedRuntimeIsCurrent == Spec => []WantedIsCurrent
  <1>1. IInv => WantedIsCurrent
    BY DEF IInv
  <1> QED
    BY <1>1, Invariance, PTL

\* A booted current runtime's context is the manager's, however many cancelled
\* runtimes still register theirs.
THEOREM CurrentContext == Spec => []ContextIsCurrent
  <1>1. IInv => ContextIsCurrent
    BY DEF IInv
  <1> QED
    BY <1>1, Invariance, PTL

\* At most one worker thread of the process runs jobs.
THEOREM SingleWorker == Spec => []OneWorker
  <1>1. IInv => OneWorker
    BY DEF IInv, SlotInv, OneWorker
  <1> QED
    BY <1>1, Invariance, PTL

\* A closed runtime has no worker that was not told to stop, but for a manual
\* scan that still holds its dispatcher.
THEOREM QuietAfterClose == Spec => []ClosedIsQuiet
  <1>1. IInv => ClosedIsQuiet
    BY DEF IInv, QuietInv, ClosedIsQuiet
  <1> QED
    BY <1>1, Invariance, PTL

\* Once the shutdown is over no runtime is wanted.
THEOREM FinalShutdown == Spec => []ShutdownIsFinal
  <1>1. IInv => ShutdownIsFinal
    BY DEF IInv, ShutdownInv
  <1> QED
    BY <1>1, Invariance, PTL
=============================================================================
