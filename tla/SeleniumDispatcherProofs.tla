------------------------ MODULE SeleniumDispatcherProofs ------------------------
(***************************************************************************)
(* What SeleniumDispatcher guarantees for every set of keys and sites,     *)
(* every mapping of keys to sites and every set of environment events.     *)
(*                                                                         *)
(* The inductive invariant IInv adds to the checked invariants what the    *)
(* critical sections rely on: jobs are held back only while a clear has    *)
(* the lock, none of them belongs to the site being cleared, and the key   *)
(* of the job being handled is in running, so that submit refuses it.      *)
(***************************************************************************)
EXTENDS SeleniumDispatcher, JobQueueFacts, TLAPS

\* The key of a job between get() and mark_started.
Got == IF worker = "got" THEN {hand} ELSE {}

HandInv == Holding => hand \in Keys

KeptInv ==
    /\ LockFree => kept = <<>>
    /\ \A k \in ToSet(kept) : ~Matches(clearing, k)

RaceFree ==
    /\ IsInjective(queue)
    /\ IsInjective(kept)
    /\ ToSet(queue) \cap ToSet(kept) = {}
    /\ Got \cap Waiting = {}
    /\ pending = Waiting \cup Got
    /\ running \cap pending = {}
    /\ worker = "started" => hand \in running

IInv ==
    /\ TypeOK
    /\ TasksBalance
    /\ StoppedMeansNoThread
    /\ HandInv
    /\ KeptInv
    /\ ~raced => RaceFree

-----------------------------------------------------------------------------
(* Every step keeps IInv: one lemma per group of actions.                  *)

LEMMA InitInv == Init => IInv
  <1> SUFFICES ASSUME Init
               PROVE  IInv
    OBVIOUS
  <1>1. ToSet(queue) = {} /\ ToSet(kept) = {}
        /\ IsInjective(queue) /\ IsInjective(kept)
    BY EmptyFacts DEF Init
  <1>2. TypeOK
    <2>1. <<>> \in Seq(Keys)
      OBVIOUS
    <2> QED
      BY <2>1 DEF Init, TypeOK, LifecycleStates, ThreadStates
  <1>3. TasksBalance
    BY DEF Init, TasksBalance, Holding
  <1> QED
    BY <1>1, <1>2, <1>3
    DEF Init, IInv, StoppedMeansNoThread, Alive, HandInv, Holding, KeptInv,
        RaceFree, Got, Waiting

LEMMA SubmitInv ==
  ASSUME IInv, NEW k \in Keys, SubmitEnqueue(k)
  PROVE  IInv'
  <1> USE DEF SubmitEnqueue, IInv, TypeOK, workerVars, clearVars
  <1>1. /\ queue' \in Seq(Keys)
        /\ Len(queue') = Len(queue) + 1
        /\ ToSet(queue') = ToSet(queue) \cup {k}
        /\ IsInjective(queue) /\ k \notin ToSet(queue) => IsInjective(queue')
    BY AppendFacts
  <1>2. TypeOK'
    BY <1>1
  <1>3. TasksBalance'
    BY <1>1 DEF TasksBalance, Holding
  <1>4. StoppedMeansNoThread' /\ HandInv' /\ KeptInv'
    BY DEF StoppedMeansNoThread, Alive, HandInv, Holding, KeptInv, LockFree,
           Matches, ToSet
  <1>5. ASSUME ~raced
        PROVE  RaceFree'
    <2>1. RaceFree
      BY <1>5
    <2>2. k \notin ToSet(queue) /\ k \notin ToSet(kept) /\ k \notin Got
      BY <2>1 DEF RaceFree, Waiting
    <2>3. /\ ToSet(kept') = ToSet(kept) /\ IsInjective(kept')
          /\ Got' = Got
      BY <2>1 DEF RaceFree, Got
    <2>4. IsInjective(queue')
      BY <1>1, <2>1, <2>2 DEF RaceFree
    <2> QED
      BY <1>1, <2>1, <2>2, <2>3, <2>4 DEF RaceFree, Waiting
  <1> QED
    BY <1>2, <1>3, <1>4, <1>5

\* Starting a worker changes the lifecycle and the thread only, and only when
\* no thread of this dispatcher is alive.
LEMMA StartInv ==
  ASSUME IInv, Start,
         UNCHANGED <<queueVars, keyVars, clearVars, otherWorker, raced>>,
         caller' \in {"idle", "submitted", "joining", "joined"}
  PROVE  IInv'
  <1> USE DEF IInv, TypeOK, queueVars, keyVars, clearVars, workerVars, Start,
              FreshWorker, StartRefused
  <1>1. \/ UNCHANGED <<worker, hand, stopEvent, deaths>>
        \/ /\ ~Alive
           /\ worker' \in {"check", "unstarted"}
           /\ hand' = NoKey
           /\ stopEvent' = FALSE
           /\ deaths' = deaths
    OBVIOUS
  <1>2. TypeOK'
    BY DEF LifecycleStates, ThreadStates
  <1>3. TasksBalance'
    BY <1>1 DEF TasksBalance, Holding, Alive
  <1>4. StoppedMeansNoThread'
    BY DEF StoppedMeansNoThread, Alive
  <1>5. HandInv' /\ KeptInv'
    BY <1>1 DEF HandInv, Holding, KeptInv, LockFree, Matches, ToSet
  <1>6. ASSUME ~raced
        PROVE  RaceFree'
    <2>1. RaceFree
      BY <1>6
    <2>2. Got' = Got
      BY <1>1 DEF Got, Alive
    <2>3. /\ ToSet(queue') = ToSet(queue) /\ IsInjective(queue')
          /\ ToSet(kept') = ToSet(kept) /\ IsInjective(kept')
      BY <2>1 DEF RaceFree
    <2> QED
      BY <1>1, <2>1, <2>2, <2>3 DEF RaceFree, Waiting, Alive
  <1> QED
    BY <1>2, <1>3, <1>4, <1>5, <1>6

\* The worker's steps that leave the queue and the keys alone.
LEMMA WorkerQuietInv ==
  ASSUME IInv,
         WorkerCheckStop \/ WorkerTimeout \/ WorkerDies \/ WorkerRaises \/ WorkerExit
  PROVE  IInv'
  <1> USE DEF IInv, TypeOK, queueVars, keyVars, clearVars, WorkerCheckStop,
              WorkerTimeout, WorkerDies, WorkerRaises, WorkerExit
  <1>1. TypeOK'
    BY DEF ThreadStates
  <1>2. TasksBalance'
    BY DEF TasksBalance, Holding
  <1>3. StoppedMeansNoThread' /\ HandInv'
    BY DEF StoppedMeansNoThread, Alive, HandInv, Holding
  <1>4. KeptInv'
    BY DEF KeptInv, LockFree, Matches, ToSet
  <1>5. ASSUME ~raced
        PROVE  RaceFree'
    <2>1. RaceFree
      BY <1>5
    <2>2. Got' = Got /\ worker' # "started"
      BY DEF Got
    <2>3. /\ ToSet(queue') = ToSet(queue) /\ IsInjective(queue')
          /\ ToSet(kept') = ToSet(kept) /\ IsInjective(kept')
      BY <2>1 DEF RaceFree
    <2> QED
      BY <2>1, <2>2, <2>3 DEF RaceFree, Waiting
  <1> QED
    BY <1>1, <1>2, <1>3, <1>4, <1>5

LEMMA WorkerGetInv ==
  ASSUME IInv, WorkerGet
  PROVE  IInv'
  <1> USE DEF IInv, TypeOK, keyVars, clearVars, WorkerGet
  <1>1. /\ hand' \in Keys
        /\ queue' \in Seq(Keys)
        /\ Len(queue') = Len(queue) - 1
        /\ Len(queue) \in Nat \ {0}
        /\ ToSet(queue) = ToSet(queue') \cup {hand'}
        /\ IsInjective(queue) => IsInjective(queue') /\ hand' \notin ToSet(queue')
    BY TailFacts
  <1>2. TypeOK'
    BY <1>1 DEF ThreadStates
  <1>3. TasksBalance'
    BY <1>1 DEF TasksBalance, Holding
  <1>4. StoppedMeansNoThread' /\ HandInv' /\ KeptInv'
    BY <1>1 DEF StoppedMeansNoThread, Alive, HandInv, KeptInv, LockFree,
                Matches, ToSet
  <1>5. ASSUME ~raced
        PROVE  RaceFree'
    <2>1. RaceFree
      BY <1>5
    <2>2. Got = {} /\ Got' = {hand'}
      BY DEF Got
    <2>3. ToSet(kept') = ToSet(kept) /\ IsInjective(kept')
      BY <2>1 DEF RaceFree
    <2>4. IsInjective(queue') /\ hand' \notin ToSet(queue')
      BY <1>1, <2>1 DEF RaceFree
    <2> QED
      BY <1>1, <2>1, <2>2, <2>3, <2>4 DEF RaceFree, Waiting
  <1> QED
    BY <1>2, <1>3, <1>4, <1>5

LEMMA MarkStartedInv ==
  ASSUME IInv, MarkStarted
  PROVE  IInv'
  <1> USE DEF IInv, TypeOK, queueVars, clearVars, MarkStarted
  <1>1. hand \in Keys
    BY DEF HandInv, Holding
  <1>2. TypeOK'
    BY <1>1 DEF ThreadStates
  <1>3. TasksBalance'
    BY DEF TasksBalance, Holding
  <1>4. StoppedMeansNoThread' /\ HandInv' /\ KeptInv'
    BY <1>1 DEF StoppedMeansNoThread, Alive, HandInv, KeptInv, LockFree,
                Matches, ToSet
  <1>5. ASSUME ~raced
        PROVE  RaceFree'
    <2>1. RaceFree
      BY <1>5
    <2>2. Got = {hand} /\ Got' = {}
      BY DEF Got
    <2>3. /\ ToSet(queue') = ToSet(queue) /\ IsInjective(queue')
          /\ ToSet(kept') = ToSet(kept) /\ IsInjective(kept')
      BY <2>1 DEF RaceFree
    <2> QED
      BY <2>1, <2>2, <2>3 DEF RaceFree, Waiting
  <1> QED
    BY <1>2, <1>3, <1>4, <1>5

LEMMA MarkFinishedInv ==
  ASSUME IInv, MarkFinished
  PROVE  IInv'
  <1> USE DEF IInv, TypeOK, queueVars, clearVars, MarkFinished
  <1>1. TypeOK'
    BY DEF ThreadStates
  <1>2. TasksBalance'
    BY DEF TasksBalance, Holding
  <1>3. StoppedMeansNoThread' /\ HandInv' /\ KeptInv'
    BY DEF StoppedMeansNoThread, Alive, HandInv, Holding, KeptInv, LockFree,
           Matches, ToSet
  <1>4. ASSUME ~raced
        PROVE  RaceFree'
    <2>1. RaceFree
      BY <1>4
    <2>2. Got = {} /\ Got' = {} /\ worker' # "started"
      BY DEF Got
    <2>3. /\ ToSet(queue') = ToSet(queue) /\ IsInjective(queue')
          /\ ToSet(kept') = ToSet(kept) /\ IsInjective(kept')
      BY <2>1 DEF RaceFree
    <2> QED
      BY <2>1, <2>2, <2>3 DEF RaceFree, Waiting
  <1> QED
    BY <1>1, <1>2, <1>3, <1>4

LEMMA TaskDoneInv ==
  ASSUME IInv, WorkerTaskDone
  PROVE  IInv'
  <1> USE DEF IInv, TypeOK, keyVars, clearVars, WorkerTaskDone
  <1>1. unfinished = Len(queue) + 1 + deaths /\ Len(queue) \in Nat
    BY DEF TasksBalance, Holding
  <1>2. TypeOK'
    BY <1>1 DEF ThreadStates
  <1>3. TasksBalance'
    BY <1>1 DEF TasksBalance, Holding
  <1>4. StoppedMeansNoThread' /\ HandInv' /\ KeptInv'
    BY DEF StoppedMeansNoThread, Alive, HandInv, Holding, KeptInv, LockFree,
           Matches, ToSet
  <1>5. ASSUME ~raced
        PROVE  RaceFree'
    <2>1. RaceFree
      BY <1>5
    <2>2. Got = {} /\ Got' = {} /\ worker' # "started"
      BY DEF Got
    <2>3. /\ ToSet(queue') = ToSet(queue) /\ IsInjective(queue')
          /\ ToSet(kept') = ToSet(kept) /\ IsInjective(kept')
      BY <2>1 DEF RaceFree
    <2> QED
      BY <2>1, <2>2, <2>3 DEF RaceFree, Waiting
  <1> QED
    BY <1>2, <1>3, <1>4, <1>5

\* stop() is the only place that reports "stopped", and it looks at the thread.
LEMMA StopInv ==
  ASSUME IInv, StopNext
  PROVE  IInv'
  <1> USE DEF IInv, TypeOK, queueVars, keyVars, clearVars, workerVars,
              StopNext, StopRequest, StopJoined, StopTimedOut
  <1>1. TypeOK'
    BY DEF LifecycleStates
  <1>2. TasksBalance' /\ HandInv'
    BY DEF TasksBalance, HandInv, Holding
  <1>3. StoppedMeansNoThread'
    BY DEF StoppedMeansNoThread, Alive
  <1>4. KeptInv'
    BY DEF KeptInv, LockFree, Matches, ToSet
  <1>5. ASSUME ~raced
        PROVE  RaceFree'
    <2>1. RaceFree
      BY <1>5
    <2>2. Got' = Got
      BY DEF Got
    <2>3. /\ ToSet(queue') = ToSet(queue) /\ IsInjective(queue')
          /\ ToSet(kept') = ToSet(kept) /\ IsInjective(kept')
      BY <2>1 DEF RaceFree
    <2> QED
      BY <2>1, <2>2, <2>3 DEF RaceFree, Waiting
  <1> QED
    BY <1>1, <1>2, <1>3, <1>4, <1>5

LEMMA ClearBeginInv ==
  ASSUME IInv, NEW site \in Sites \cup {AllSites}, ClearBegin(site)
  PROVE  IInv'
  <1> USE DEF IInv, TypeOK, queueVars, keyVars, workerVars, ClearBegin
  <1>1. kept = <<>> /\ kept' = <<>> /\ ToSet(kept') = {}
    BY EmptyFacts DEF KeptInv
  <1>2. TypeOK'
    <2>1. <<>> \in Seq(Keys)
      OBVIOUS
    <2> QED
      BY <1>1, <2>1
  <1>3. TasksBalance' /\ StoppedMeansNoThread' /\ HandInv'
    BY DEF TasksBalance, StoppedMeansNoThread, Alive, HandInv, Holding
  <1>4. KeptInv'
    BY <1>1 DEF KeptInv
  <1>5. ASSUME ~raced
        PROVE  RaceFree'
    <2>1. RaceFree
      BY <1>5
    <2>2. Got' = Got
      BY DEF Got
    <2>3. /\ ToSet(queue') = ToSet(queue) /\ IsInjective(queue')
          /\ ToSet(kept') = ToSet(kept) /\ IsInjective(kept')
      BY <1>1, <2>1 DEF RaceFree
    <2> QED
      BY <2>1, <2>2, <2>3 DEF RaceFree, Waiting
  <1> QED
    BY <1>2, <1>3, <1>4, <1>5

\* The drain removes a job of the cleared site together with its key, and
\* moves any other job from the queue to the kept ones.
LEMMA ClearTakeInv ==
  ASSUME IInv, ClearTake
  PROVE  IInv'
  <1> USE DEF IInv, TypeOK, workerVars, ClearTake
  <1> DEFINE h == Head(queue)
  <1>1. /\ h \in Keys
        /\ queue' \in Seq(Keys)
        /\ Len(queue') = Len(queue) - 1
        /\ Len(queue) \in Nat \ {0}
        /\ ToSet(queue) = ToSet(queue') \cup {h}
        /\ IsInjective(queue) => IsInjective(queue') /\ h \notin ToSet(queue')
    BY TailFacts
  <1>2. /\ Append(kept, h) \in Seq(Keys)
        /\ ToSet(Append(kept, h)) = ToSet(kept) \cup {h}
        /\ IsInjective(kept) /\ h \notin ToSet(kept)
              => IsInjective(Append(kept, h))
    BY <1>1, AppendFacts
  <1> HIDE DEF h
  <1>3. \/ /\ Matches(clearing, h)
           /\ pending' = pending \ {h}
           /\ kept' = kept
        \/ /\ ~Matches(clearing, h)
           /\ kept' = Append(kept, h)
           /\ pending' = pending
    BY DEF h
  <1>4. unfinished = Len(queue) + (IF Holding THEN 1 ELSE 0) + deaths
    BY DEF TasksBalance
  <1>5. TypeOK'
    <2>1. unfinished' \in Nat
      BY <1>1, <1>4
    <2>2. kept' \in Seq(Keys) /\ pending' \subseteq Keys
      BY <1>2, <1>3
    <2> QED
      BY <1>1, <2>1, <2>2
  <1>6. TasksBalance'
    BY <1>1, <1>4 DEF TasksBalance, Holding
  <1>7. StoppedMeansNoThread' /\ HandInv'
    BY DEF StoppedMeansNoThread, Alive, HandInv, Holding
  <1>8. KeptInv'
    <2>1. \A k \in ToSet(kept') : ~Matches(clearing, k)
      BY <1>2, <1>3 DEF KeptInv
    <2> QED
      BY <2>1 DEF KeptInv, LockFree, Matches
  <1>9. ASSUME ~raced
        PROVE  RaceFree'
    <2>1. RaceFree
      BY <1>9
    <2>2. Got' = Got
      BY DEF Got
    <2>3. /\ IsInjective(queue')
          /\ h \notin ToSet(queue')
          /\ h \notin ToSet(kept)
          /\ h \notin Got
          /\ h \in pending
      BY <1>1, <2>1 DEF RaceFree, Waiting
    <2>4. CASE Matches(clearing, h)
      <3>1. /\ pending' = pending \ {h}
            /\ ToSet(kept') = ToSet(kept) /\ IsInjective(kept')
        BY <1>3, <2>1, <2>4 DEF RaceFree
      <3> QED
        BY <1>1, <2>1, <2>2, <2>3, <3>1 DEF RaceFree, Waiting
    <2>5. CASE ~Matches(clearing, h)
      <3>1. /\ pending' = pending
            /\ ToSet(kept') = ToSet(kept) \cup {h} /\ IsInjective(kept')
        BY <1>2, <1>3, <2>1, <2>3, <2>5 DEF RaceFree
      <3> QED
        BY <1>1, <2>1, <2>2, <2>3, <3>1 DEF RaceFree, Waiting
    <2> QED
      BY <2>4, <2>5
  <1> QED
    BY <1>5, <1>6, <1>7, <1>8, <1>9

\* Putting the kept jobs back and dropping the site's remaining keys: with the
\* queue drained, the only pending key left of the site can be the one in the
\* worker's hand, and dropping that one is what raced records.
LEMMA ClearFinishInv ==
  ASSUME IInv, ClearFinish
  PROVE  IInv'
  <1> USE DEF IInv, TypeOK, workerVars, ClearFinish
  <1>1. ToSet(<<>>) = {} /\ IsInjective(<<>>) /\ Len(<<>>) = 0
    BY EmptyFacts
  <1>2. Len(kept) \in Nat
    OBVIOUS
  <1>3. TypeOK'
    <2>1. <<>> \in Seq(Keys) /\ StaleKeys \subseteq Keys
      BY DEF StaleKeys
    <2> QED
      BY <1>2, <2>1
  <1>4. TasksBalance'
    BY <1>1, <1>2 DEF TasksBalance, Holding
  <1>5. StoppedMeansNoThread' /\ HandInv'
    BY DEF StoppedMeansNoThread, Alive, HandInv, Holding
  <1>6. KeptInv'
    BY <1>1 DEF KeptInv
  <1>7. ASSUME ~raced'
        PROVE  RaceFree'
    <2>1. RaceFree
      BY <1>7
    <2>2. Got' = Got
      BY DEF Got
    <2>3. ToSet(queue) = {} /\ pending = ToSet(kept) \cup Got
      BY <1>1, <2>1 DEF RaceFree, Waiting
    <2>4. StaleKeys = {}
      BY <1>7, <2>3 DEF StaleKeys, KeptInv, Got
    <2>5. /\ ToSet(queue') = ToSet(kept) /\ IsInjective(queue')
          /\ ToSet(kept') = {} /\ IsInjective(kept')
      BY <1>1, <2>1 DEF RaceFree
    <2> QED
      BY <2>1, <2>2, <2>3, <2>4, <2>5 DEF RaceFree, Waiting
  <1> QED
    BY <1>3, <1>4, <1>5, <1>6, <1>7

\* The join, the other runtime's worker and stuttering.
LEMMA QuietInv ==
  ASSUME IInv, JoinBegin \/ JoinReturn \/ OtherWorker \/ UNCHANGED vars
  PROVE  IInv'
  <1> USE DEF IInv, TypeOK, queueVars, keyVars, clearVars, workerVars, vars,
              JoinBegin, JoinReturn, OtherWorker
  <1>1. TypeOK'
    OBVIOUS
  <1>2. TasksBalance' /\ StoppedMeansNoThread' /\ HandInv'
    BY DEF TasksBalance, StoppedMeansNoThread, Alive, HandInv, Holding
  <1>3. KeptInv'
    BY DEF KeptInv, LockFree, Matches, ToSet
  <1>4. ASSUME ~raced
        PROVE  RaceFree'
    <2>1. RaceFree
      BY <1>4
    <2>2. Got' = Got
      BY DEF Got
    <2>3. /\ ToSet(queue') = ToSet(queue) /\ IsInjective(queue')
          /\ ToSet(kept') = ToSet(kept) /\ IsInjective(kept')
      BY <2>1 DEF RaceFree
    <2> QED
      BY <2>1, <2>2, <2>3 DEF RaceFree, Waiting
  <1> QED
    BY <1>1, <1>2, <1>3, <1>4

LEMMA StepInv == IInv /\ [Next]_vars => IInv'
  <1> SUFFICES ASSUME IInv, [Next]_vars
               PROVE  IInv'
    OBVIOUS
  <1>1. ASSUME NEW k \in Keys, SubmitEnqueue(k)
        PROVE  IInv'
    BY <1>1, SubmitInv
  <1>2. CASE SubmitStart \/ Prewarm
    <2>1. /\ Start
          /\ UNCHANGED <<queueVars, keyVars, clearVars, otherWorker, raced>>
          /\ caller' \in {"idle", "submitted", "joining", "joined"}
      BY <1>2 DEF SubmitStart, Prewarm, IInv, TypeOK
    <2> QED
      BY <2>1, StartInv
  <1>3. CASE WorkerNext
    BY <1>3, WorkerQuietInv, WorkerGetInv, MarkStartedInv, MarkFinishedInv,
       TaskDoneInv DEF WorkerNext
  <1>4. CASE StopNext
    BY <1>4, StopInv
  <1>5. CASE ClearNext
    BY <1>5, ClearBeginInv, ClearTakeInv, ClearFinishInv DEF ClearNext
  <1>6. CASE JoinBegin \/ JoinReturn \/ OtherWorker \/ UNCHANGED vars
    BY <1>6, QuietInv
  <1> QED
    BY <1>1, <1>2, <1>3, <1>4, <1>5, <1>6 DEF Next

-----------------------------------------------------------------------------
(* The theorems.                                                           *)

\* IInv holds in every reachable state.
THEOREM Invariance == Spec => []IInv
  <1> QED
    BY InitInv, StepInv, PTL DEF Spec

\* Type correctness.
THEOREM TypeCorrect == Spec => []TypeOK
  <1>1. IInv => TypeOK
    BY DEF IInv
  <1> QED
    BY <1>1, Invariance, PTL

\* queue.Queue's count of unfinished tasks is exact at all times, so
\* task_done is never called once too often and join waits for real work.
THEOREM TasksBalanced == Spec => []TasksBalance
  <1>1. IInv => TasksBalance
    BY DEF IInv
  <1> QED
    BY <1>1, Invariance, PTL

\* The duplicate check does its work unless a clear hits the one window
\* between get() and mark_started.
THEOREM OneJobPerKey == Spec => []AtMostOneJobPerKey
  <1>1. IInv => AtMostOneJobPerKey
    BY DEF IInv, RaceFree, AtMostOneJobPerKey, Waiting, InHand, Got
  <1> QED
    BY <1>1, Invariance, PTL

\* "already queued" is answered only for a job that is really there.
THEOREM PendingKeysTrue == Spec => []PendingKeysAreJobs
  <1>1. IInv => PendingKeysAreJobs
    BY DEF IInv, RaceFree, PendingKeysAreJobs, Got
  <1> QED
    BY <1>1, Invariance, PTL

\* A dispatcher that reports stopped has no live worker thread.
THEOREM StoppedIsStopped == Spec => []StoppedMeansNoThread
  <1>1. IInv => StoppedMeansNoThread
    BY DEF IInv
  <1> QED
    BY <1>1, Invariance, PTL

\* A "once" run's join does not return over waiting or running jobs, except
\* in the middle of a clear.
THEOREM JoinIsSound == Spec => JoinWaitsForJobs
  <1>1. ASSUME IInv, [Next]_vars
        PROVE  [ caller = "joining" /\ caller' = "joined"
                  => ~LockFree \/ (queue = <<>> /\ ~Holding) ]_vars
    <2>1. unfinished = 0 => queue = <<>> /\ ~Holding
      BY <1>1 DEF IInv, TypeOK, TasksBalance
    <2>2. SUFFICES ASSUME caller = "joining", caller' = "joined"
                   PROVE  unfinished = 0
      BY <2>1
    <2> QED
      BY <1>1, <2>2
      DEF Next, WorkerNext, StopNext, ClearNext, vars, SubmitEnqueue,
          SubmitStart, Prewarm, WorkerCheckStop, WorkerTimeout, WorkerGet,
          MarkStarted, MarkFinished, WorkerTaskDone, WorkerDies, WorkerRaises,
          WorkerExit,
          StopRequest, StopJoined, StopTimedOut, ClearBegin, ClearTake,
          ClearFinish, JoinBegin, JoinReturn, OtherWorker
  <1> QED
    BY <1>1, Invariance, PTL DEF Spec, JoinWaitsForJobs

\* Where nobody clears, the exception is empty: every key has one job at most,
\* and "already queued" is always true, whatever stops, dies or raises.
THEOREM ExactWithoutClears ==
  ASSUME "clear" \notin Events
  PROVE  Spec => [](/\ IsInjective(queue)
                    /\ Waiting \cap InHand = {}
                    /\ pending = Waiting \cup (IF worker = "got" THEN {hand} ELSE {}))
  <1> DEFINE NoClear == clearing = NotClearing /\ ~raced
             Exact == /\ IsInjective(queue)
                      /\ Waiting \cap InHand = {}
                      /\ pending = Waiting \cup (IF worker = "got" THEN {hand} ELSE {})
  <1>1. Init => NoClear
    BY DEF Init
  <1>2. ASSUME NoClear, [Next]_vars
        PROVE  NoClear'
    <2>1. CASE \E k \in Keys : SubmitEnqueue(k)
      BY <1>2, <2>1 DEF SubmitEnqueue, clearVars
    <2>2. CASE SubmitStart \/ Prewarm
      BY <1>2, <2>2 DEF SubmitStart, Prewarm, clearVars
    <2>3. CASE WorkerNext
      BY <1>2, <2>3 DEF WorkerNext, WorkerCheckStop, WorkerTimeout, WorkerGet, MarkStarted,
         MarkFinished, WorkerTaskDone, WorkerDies, WorkerRaises, WorkerExit, clearVars
    <2>4. CASE StopNext
      BY <1>2, <2>4 DEF StopNext, StopRequest, StopJoined, StopTimedOut, clearVars
    <2>5. CASE ClearNext
      BY <1>2, <2>5 DEF ClearNext, ClearBegin, ClearTake, ClearFinish, LockFree
    <2>6. CASE JoinBegin \/ JoinReturn \/ OtherWorker \/ UNCHANGED vars
      BY <1>2, <2>6 DEF JoinBegin, JoinReturn, OtherWorker, vars, clearVars
    <2> QED
      BY <1>2, <2>1, <2>2, <2>3, <2>4, <2>5, <2>6 DEF Next
  <1>3. AtMostOneJobPerKey /\ PendingKeysAreJobs /\ NoClear => Exact
    BY DEF AtMostOneJobPerKey, PendingKeysAreJobs
  <1> HIDE DEF NoClear, Exact
  <1>4. Spec => []Exact
    BY <1>1, <1>2, <1>3, OneJobPerKey, PendingKeysTrue, PTL DEF Spec
  <1> QED
    BY <1>4 DEF Exact
=============================================================================
