---------------------- MODULE PocketGamesPurchaseProofs ----------------------
(***************************************************************************)
(* That a PocketGames product is not paid for twice, for every set of      *)
(* products, every set of faults and every queue length.                   *)
(*                                                                         *)
(* The argument follows the payment.  Before the click the job's row is    *)
(* not a settled one (UnpaidInv), so a product with a forgotten payment    *)
(* cannot be there.  Between the click and its record the job itself       *)
(* remembers the payment (ClickInv), afterwards the row does               *)
(* (PaymentRemembered), and the exception paths only meet a paid row as    *)
(* payment_submitted, which they turn into a review (FailingInv), unless   *)
(* the watchdog fired (WatchdogInv).  The same invariant then shows that   *)
(* every step is one of PurchaseLedger.                                    *)
(***************************************************************************)
EXTENDS PocketGamesPurchase, JobQueueFacts, TLAPS

HandInv ==
    /\ pc \notin {"idle", "dead"} => hand \in Keys
    /\ pc \in Armed \cup {"finishing"} => hand \in running

\* Nothing is being paid on a row that says it is paid already.
UnpaidInv ==
    pc \in {"cart", "checkout", "pay", "clicked"} => status[hand] \notin Settled

WaitingInv == pc = "waiting" => status[hand] = "payment_submitted"

\* The job knows whether the shop took the money.
ClickInv ==
    pc \in {"clicked", "waiting"} =>
        /\ accepted => charged[hand] > 0
        /\ exposed[hand] = {} /\ charged[hand] > 0 => accepted

FailingInv ==
    pc = "failing" /\ exposed[hand] = {} =>
        /\ charged[hand] > 0 => status[hand] = "payment_submitted"
        /\ status[hand] \notin {"purchase_confirmed", "unknown_needs_review"}

WatchdogInv ==
    /\ pc = "got" => watchdog = "armed"
    /\ pc \in Armed /\ watchdog # "armed" => "timeout" \in exposed[hand]

PendingInv ==
    pending \subseteq ToSet(queue) \cup (IF pc = "got" THEN {hand} ELSE {})

IInv ==
    /\ TypeOK
    /\ HandInv
    /\ UnpaidInv
    /\ WaitingInv
    /\ ClickInv
    /\ FailingInv
    /\ WatchdogInv
    /\ PendingInv
    /\ PaymentRemembered
    /\ ChargedOnce
    /\ QueuedIsBacked

-----------------------------------------------------------------------------
(* The initial state, and one lemma per action.                            *)

LEMMA InitInv == Init => IInv
  <1> SUFFICES ASSUME Init
               PROVE  IInv
    OBVIOUS
  <1>1. TypeOK
    <2>1. <<>> \in Seq(Keys)
      OBVIOUS
    <2> QED
      BY <2>1 DEF Init, TypeOK, Statuses, WorkerStates
  <1> QED
    BY <1>1
    DEF Init, IInv, HandInv, UnpaidInv, WaitingInv, ClickInv, FailingInv,
        WatchdogInv, PendingInv, PaymentRemembered, ChargedOnce,
        QueuedIsBacked, Armed, Handling, Settled

\* A reservation meets no settled row.
LEMMA ScanReserveInv ==
  ASSUME IInv, NEW k \in Keys, ScanReserve(k)
  PROVE  IInv'
  <1> USE DEF IInv, TypeOK, ScanReserve, Reserve, Record, dispVars, jobVars,
              BLOCKING_PURCHASE_STATUSES
  <1>2. TypeOK'
    BY DEF HandInv, Statuses, WorkerStates, Armed, Handling, Exposures
  <1>3. HandInv' /\ UnpaidInv' /\ WaitingInv' /\ ClickInv'
    BY DEF HandInv, UnpaidInv, WaitingInv, ClickInv, Armed, Handling, Settled,
           PaymentRemembered
  <1>4. FailingInv' /\ WatchdogInv'
    BY DEF HandInv, UnpaidInv, WaitingInv, ClickInv, FailingInv, WatchdogInv,
           PaymentRemembered, Armed, Handling, Settled
  <1>5. PaymentRemembered' /\ ChargedOnce'
    BY DEF HandInv, UnpaidInv, WaitingInv, ClickInv, FailingInv, WatchdogInv,
           PaymentRemembered, ChargedOnce, Settled,
           Armed, Handling
  <1>6. PendingInv' /\ QueuedIsBacked'
    <2>1. PendingInv'
      BY DEF PendingInv
    <2>2. ToSet(queue') = ToSet(queue)
      OBVIOUS
    <2>3. ASSUME NEW j \in Keys, status'[j] = "queued", j \notin orphaned'
          PROVE  \/ j \in ToSet(queue')
                 \/ hand' = j /\ pc' \in {"got", "armed", "failing"}
                 \/ scan' = j
      BY <2>2, <2>3, KeyAssumption DEF QueuedIsBacked
    <2> QED
      BY <2>1, <2>3 DEF QueuedIsBacked
  <1> QED
    BY <1>2, <1>3, <1>4, <1>5, <1>6

\* The submit after a reservation: queued, refused as already waiting, or
\* refused as running, which orphans it.
LEMMA ScanSubmitInv ==
  ASSUME IInv, ScanSubmit
  PROVE  IInv'
  <1> USE DEF IInv, TypeOK, ScanSubmit, Submit, dispVars, jobVars, clearVars
  <1>1. scan \in Keys =>
           /\ Append(queue, scan) \in Seq(Keys)
           /\ ToSet(Append(queue, scan)) = ToSet(queue) \cup {scan}
    BY AppendFacts
  <1>2. TypeOK'
    BY <1>1 DEF HandInv, Statuses, WorkerStates, Armed, Handling, Exposures
  <1>3. HandInv' /\ UnpaidInv' /\ WaitingInv' /\ ClickInv'
    BY <1>1 DEF HandInv, UnpaidInv, WaitingInv, ClickInv, Armed, Handling, Settled,
           PaymentRemembered
  <1>4. FailingInv' /\ WatchdogInv'
    BY <1>1 DEF HandInv, UnpaidInv, WaitingInv, ClickInv, FailingInv, WatchdogInv,
           PaymentRemembered, Armed, Handling, Settled
  <1>5. PaymentRemembered' /\ ChargedOnce'
    BY <1>1 DEF HandInv, UnpaidInv, WaitingInv, ClickInv, FailingInv, WatchdogInv,
           PaymentRemembered, ChargedOnce, Settled,
           Armed, Handling
  <1>6. PendingInv' /\ QueuedIsBacked'
    BY <1>1 DEF PendingInv, QueuedIsBacked, HandInv, Armed, Handling
  <1> QED
    BY <1>2, <1>3, <1>4, <1>5, <1>6

\* The watchlist adds a job and touches no row.
LEMMA WatchlistSubmitInv ==
  ASSUME IInv, NEW k \in Keys, WatchlistSubmit(k)
  PROVE  IInv'
  <1> USE DEF IInv, TypeOK, WatchlistSubmit, Submit, jobVars, clearVars,
              histVars
  <1>1. /\ Append(queue, k) \in Seq(Keys)
        /\ ToSet(Append(queue, k)) = ToSet(queue) \cup {k}
    BY AppendFacts
  <1>2. TypeOK'
    BY <1>1 DEF HandInv, Statuses, WorkerStates, Armed, Handling, Exposures
  <1>3. HandInv' /\ UnpaidInv' /\ WaitingInv' /\ ClickInv'
    BY <1>1 DEF HandInv, UnpaidInv, WaitingInv, ClickInv, Armed, Handling, Settled,
           PaymentRemembered
  <1>4. FailingInv' /\ WatchdogInv'
    BY <1>1 DEF HandInv, UnpaidInv, WaitingInv, ClickInv, FailingInv, WatchdogInv,
           PaymentRemembered, Armed, Handling, Settled
  <1>5. PaymentRemembered' /\ ChargedOnce'
    BY <1>1 DEF HandInv, UnpaidInv, WaitingInv, ClickInv, FailingInv, WatchdogInv,
           PaymentRemembered, ChargedOnce, Settled,
           Armed, Handling
  <1>6. PendingInv' /\ QueuedIsBacked'
    BY <1>1 DEF PendingInv, QueuedIsBacked, HandInv, Armed, Handling
  <1> QED
    BY <1>2, <1>3, <1>4, <1>5, <1>6

\* The job moves from the queue to the worker.
LEMMA TakeInv ==
  ASSUME IInv, Take
  PROVE  IInv'
  <1> USE DEF IInv, TypeOK, Take, clearVars, histVars
  <1>1. /\ Head(queue) \in Keys
        /\ Tail(queue) \in Seq(Keys)
        /\ ToSet(queue) = ToSet(Tail(queue)) \cup {Head(queue)}
    BY TailFacts
  <1>2. TypeOK'
    BY <1>1 DEF HandInv, Statuses, WorkerStates, Armed, Handling, Exposures
  <1>3. HandInv' /\ UnpaidInv' /\ WaitingInv' /\ ClickInv'
    BY <1>1 DEF HandInv, UnpaidInv, WaitingInv, ClickInv, Armed, Handling, Settled,
           PaymentRemembered
  <1>4. FailingInv' /\ WatchdogInv'
    BY <1>1 DEF HandInv, UnpaidInv, WaitingInv, ClickInv, FailingInv, WatchdogInv,
           PaymentRemembered, Armed, Handling, Settled
  <1>5. PaymentRemembered' /\ ChargedOnce'
    BY <1>1 DEF HandInv, UnpaidInv, WaitingInv, ClickInv, FailingInv, WatchdogInv,
           PaymentRemembered, ChargedOnce, Settled,
           Armed, Handling
  <1>6. PendingInv' /\ QueuedIsBacked'
    BY <1>1 DEF PendingInv, QueuedIsBacked, HandInv, Armed, Handling
  <1> QED
    BY <1>2, <1>3, <1>4, <1>5, <1>6

\* From here on the key is a running one.
LEMMA MarkStartedInv ==
  ASSUME IInv, MarkStarted
  PROVE  IInv'
  <1> USE DEF IInv, TypeOK, MarkStarted, jobVars, clearVars, histVars
  <1>2. TypeOK'
    BY DEF HandInv, Statuses, WorkerStates, Armed, Handling, Exposures
  <1>3. HandInv' /\ UnpaidInv' /\ WaitingInv' /\ ClickInv'
    BY DEF HandInv, UnpaidInv, WaitingInv, ClickInv, Armed, Handling, Settled,
           PaymentRemembered
  <1>4. FailingInv' /\ WatchdogInv'
    BY DEF HandInv, UnpaidInv, WaitingInv, ClickInv, FailingInv, WatchdogInv,
           PaymentRemembered, Armed, Handling, Settled
  <1>5. PaymentRemembered' /\ ChargedOnce'
    BY DEF HandInv, UnpaidInv, WaitingInv, ClickInv, FailingInv, WatchdogInv,
           PaymentRemembered, ChargedOnce, Settled,
           Armed, Handling
  <1>6. PendingInv' /\ QueuedIsBacked'
    BY DEF PendingInv, QueuedIsBacked, HandInv, Armed, Handling
  <1> QED
    BY <1>2, <1>3, <1>4, <1>5, <1>6

\* The checkout starts on a row that is not settled, so nothing was paid.
LEMMA PrepareReserveInv ==
  ASSUME IInv, PrepareReserve
  PROVE  IInv'
  <1> USE DEF IInv, TypeOK, PrepareReserve, Reserve, Record, dispVars,
              jobVars, histVars, WORKER_BLOCKING, BLOCKING_PURCHASE_STATUSES
  <1>2. TypeOK'
    BY DEF HandInv, Statuses, WorkerStates, Armed, Handling, Exposures
  <1>3. HandInv' /\ UnpaidInv' /\ WaitingInv' /\ ClickInv'
    BY DEF HandInv, UnpaidInv, WaitingInv, ClickInv, Armed, Handling, Settled,
           PaymentRemembered
  <1>4. FailingInv' /\ WatchdogInv'
    BY DEF HandInv, UnpaidInv, WaitingInv, ClickInv, FailingInv, WatchdogInv,
           PaymentRemembered, Armed, Handling, Settled
  <1>5. PaymentRemembered' /\ ChargedOnce'
    BY DEF HandInv, UnpaidInv, WaitingInv, ClickInv, FailingInv, WatchdogInv,
           PaymentRemembered, ChargedOnce, Settled,
           Armed, Handling
  <1>6. PendingInv' /\ QueuedIsBacked'
    BY DEF PendingInv, QueuedIsBacked, HandInv, Armed, Handling
  <1> QED
    BY <1>2, <1>3, <1>4, <1>5, <1>6

\* A job that finds a blocking row leaves it alone.
LEMMA PrepareSkipInv ==
  ASSUME IInv, PrepareSkip
  PROVE  IInv'
  <1> USE DEF IInv, TypeOK, PrepareSkip, dispVars, jobVars, clearVars,
              histVars, WORKER_BLOCKING, BLOCKING_PURCHASE_STATUSES
  <1>2. TypeOK'
    BY DEF HandInv, Statuses, WorkerStates, Armed, Handling, Exposures
  <1>3. HandInv' /\ UnpaidInv' /\ WaitingInv' /\ ClickInv'
    BY DEF HandInv, UnpaidInv, WaitingInv, ClickInv, Armed, Handling, Settled,
           PaymentRemembered
  <1>4. FailingInv' /\ WatchdogInv'
    BY DEF HandInv, UnpaidInv, WaitingInv, ClickInv, FailingInv, WatchdogInv,
           PaymentRemembered, Armed, Handling, Settled
  <1>5. PaymentRemembered' /\ ChargedOnce'
    BY DEF HandInv, UnpaidInv, WaitingInv, ClickInv, FailingInv, WatchdogInv,
           PaymentRemembered, ChargedOnce, Settled,
           Armed, Handling
  <1>6. PendingInv' /\ QueuedIsBacked'
    BY DEF PendingInv, QueuedIsBacked, HandInv, Armed, Handling
  <1> QED
    BY <1>2, <1>3, <1>4, <1>5, <1>6

\* The recorded steps of the checkout.
LEMMA BrowserStepInv ==
  ASSUME IInv, AddToCart \/ Checkout \/ RecordSubmitted
  PROVE  IInv'
  <1> USE DEF IInv, TypeOK, AddToCart, Checkout, RecordSubmitted,
              HandlerStep, Record, dispVars, jobVars, histVars
  <1>2. TypeOK'
    BY DEF HandInv, Statuses, WorkerStates, Armed, Handling, Exposures
  <1>3. HandInv' /\ UnpaidInv' /\ WaitingInv' /\ ClickInv'
    BY DEF HandInv, UnpaidInv, WaitingInv, ClickInv, Armed, Handling, Settled,
           PaymentRemembered
  <1>4. FailingInv' /\ WatchdogInv'
    BY DEF HandInv, UnpaidInv, WaitingInv, ClickInv, FailingInv, WatchdogInv,
           PaymentRemembered, Armed, Handling, Settled
  <1>5. PaymentRemembered' /\ ChargedOnce'
    BY DEF HandInv, UnpaidInv, WaitingInv, ClickInv, FailingInv, WatchdogInv,
           PaymentRemembered, ChargedOnce, Settled,
           Armed, Handling
  <1>6. PendingInv' /\ QueuedIsBacked'
    BY DEF PendingInv, QueuedIsBacked, HandInv, Armed, Handling
  <1> QED
    BY <1>2, <1>3, <1>4, <1>5, <1>6

\* The payment: the first one, for the row was not settled.
LEMMA ClickPayInv ==
  ASSUME IInv, ClickPay
  PROVE  IInv'
  <1> USE DEF IInv, TypeOK, dispVars, clearVars
  <1>1. /\ pc = "pay"
        /\ hand \in Keys
        /\ charged[hand] \in Nat
        /\ exposed[hand] \subseteq Exposures
    BY DEF ClickPay, HandInv, Armed, Handling
  <1>2. exposed[hand] = {} => charged[hand] = 0
    BY <1>1 DEF UnpaidInv, PaymentRemembered
  <1>3. /\ charged' \in [Keys -> Nat]
        /\ \A k \in Keys \ {hand} : charged'[k] = charged[k]
        /\ \/ accepted' = TRUE /\ charged'[hand] = charged[hand] + 1
           \/ accepted' = FALSE /\ charged'[hand] = charged[hand]
    BY <1>1 DEF ClickPay
  <1>4. /\ exposed' \in [Keys -> SUBSET Exposures]
        /\ \A k \in Keys \ {hand} : exposed'[k] = exposed[k]
        /\ \/ pc' = "clicked" /\ exposed'[hand] = exposed[hand]
           \/ pc' = "failing" /\ exposed'[hand] = exposed[hand] \cup {"unrecorded"}
    <2>1. CASE exposed' = exposed
      BY <1>1, <2>1 DEF ClickPay
    <2>2. CASE exposed' = [exposed EXCEPT ![hand] = @ \cup {"unrecorded"}]
      BY <1>1, <2>2 DEF ClickPay, Exposures
    <2> QED
      BY <2>1, <2>2 DEF ClickPay
  <1>5. UNCHANGED <<status, dispVars, hand, watchdog, dying, scan, clearVars,
                    orphaned>>
    BY DEF ClickPay
  <1>6. TypeOK'
    BY <1>3, <1>4, <1>5 DEF WorkerStates, Armed, Handling
  <1>7. HandInv' /\ UnpaidInv' /\ WaitingInv' /\ ClickInv'
    BY <1>1, <1>2, <1>3, <1>4, <1>5
    DEF HandInv, UnpaidInv, WaitingInv, ClickInv, Armed, Handling
  <1>8. FailingInv' /\ WatchdogInv'
    BY <1>1, <1>4, <1>5 DEF FailingInv, WatchdogInv, Armed, Handling
  <1>9. PaymentRemembered' /\ ChargedOnce'
    <2> SUFFICES ASSUME NEW k \in Keys
                 PROVE  /\ charged'[k] > 0 /\ exposed'[k] = {}
                             => status'[k] \in Settled \/ (hand' = k /\ pc' = "clicked")
                        /\ charged'[k] <= 1 \/ exposed'[k] # {}
      BY DEF PaymentRemembered, ChargedOnce, Settled
    <2>1. CASE k = hand
      <3>1. exposed'[hand] = {} => exposed[hand] = {} /\ pc' = "clicked"
        BY <1>4
      <3>2. exposed'[hand] = {} => charged'[hand] <= 1
        BY <1>1, <1>2, <1>3, <3>1
      <3> QED
        BY <1>5, <2>1, <3>1, <3>2
    <2>2. CASE k # hand
      BY <1>1, <1>3, <1>4, <1>5, <2>2
      DEF PaymentRemembered, ChargedOnce
    <2> QED
      BY <2>1, <2>2
  <1>10. PendingInv' /\ QueuedIsBacked'
    BY <1>1, <1>4, <1>5 DEF PendingInv, QueuedIsBacked
  <1> QED
    BY <1>6, <1>7, <1>8, <1>9, <1>10

\* The verdict on the page is the shop's, or the product is exposed.
LEMMA VerdictFacts ==
  ASSUME NEW page \in SUBSET Markers
  PROVE  /\ DetectPurchaseResult(page)
               \in {"failed", "purchase_confirmed", "unknown_needs_review"}
         /\ Truthful(page) /\ DetectPurchaseResult(page) = "failed" => ~accepted
         /\ Truthful(page) /\ DetectPurchaseResult(page) = "purchase_confirmed" => accepted
  BY DEF DetectPurchaseResult, Truthful

LEMMA OutcomeFacts ==
  ASSUME IInv, RecordOutcome
  PROVE  /\ pc = "waiting" /\ hand \in Keys /\ charged' = charged /\ orphaned' = orphaned
         /\ UNCHANGED <<queue, pending, running, hand, watchdog, accepted, dying, scan, clearing>>
         /\ touched' = touched \cup {hand}
         /\ \E verdict \in {"failed", "purchase_confirmed", "unknown_needs_review"} :
               /\ status' = [status EXCEPT ![hand] = verdict]
               /\ pc' = IF verdict = "failed" THEN "failing" ELSE "leaving"
               /\ \/ /\ exposed' = exposed
                     /\ verdict = "failed" => ~accepted
                     /\ verdict = "purchase_confirmed" => accepted
                  \/ exposed' = [exposed EXCEPT ![hand] = @ \cup {"misread"}]
  <1> USE DEF IInv, TypeOK
  <1>1. PICK page \in SUBSET Markers :
            /\ pc = "waiting"
            /\ Record(hand, DetectPurchaseResult(page))
            /\ pc' = IF DetectPurchaseResult(page) = "failed" THEN "failing" ELSE "leaving"
            /\ IF Truthful(page) THEN NoExposure ELSE Expose(hand, "misread")
            /\ UNCHANGED <<dispVars, jobVars, scan>>
    BY DEF RecordOutcome
  <1>2. hand \in Keys /\ UNCHANGED <<charged, orphaned, clearing>>
    BY <1>1 DEF HandInv, Record, NoExposure, Expose, histVars, Armed, Handling
  <1>3. \/ Truthful(page) /\ exposed' = exposed
        \/ exposed' = [exposed EXCEPT ![hand] = @ \cup {"misread"}]
    BY <1>1 DEF NoExposure, Expose, histVars
  <1> QED
    BY <1>1, <1>2, <1>3, VerdictFacts DEF Record, dispVars, jobVars

LEMMA RecordOutcomeInv ==
  ASSUME IInv, RecordOutcome
  PROVE  IInv'
  <1> USE DEF IInv, TypeOK
  <1>1. /\ pc = "waiting" /\ hand \in Keys /\ UNCHANGED <<charged, orphaned>>
        /\ UNCHANGED <<queue, pending, running, hand, watchdog, accepted, dying, scan, clearing>>
        /\ touched' = touched \cup {hand}
    BY OutcomeFacts
  <1>2. PICK verdict \in {"failed", "purchase_confirmed", "unknown_needs_review"} :
               /\ status' = [status EXCEPT ![hand] = verdict]
               /\ pc' = IF verdict = "failed" THEN "failing" ELSE "leaving"
               /\ \/ /\ exposed' = exposed
                     /\ verdict = "failed" => ~accepted
                     /\ verdict = "purchase_confirmed" => accepted
                  \/ exposed' = [exposed EXCEPT ![hand] = @ \cup {"misread"}]
    BY OutcomeFacts
  <1>3. TypeOK'
    BY <1>1, <1>2 DEF HandInv, Statuses, WorkerStates, Armed, Handling, Exposures
  <1>4. HandInv' /\ UnpaidInv' /\ WaitingInv' /\ ClickInv'
    BY <1>1, <1>2 DEF HandInv, UnpaidInv, WaitingInv, ClickInv, Armed, Handling, Settled
  <1>5. exposed'[hand] = {} => exposed' = exposed
    BY <1>1, <1>2
  <1>6. \A k \in Keys \ {hand} : exposed'[k] = exposed[k] /\ status'[k] = status[k]
    BY <1>1, <1>2
  <1>7. FailingInv'
    BY <1>1, <1>2, <1>5 DEF FailingInv, ClickInv
  <1>8. WatchdogInv'
    BY <1>1, <1>2 DEF WatchdogInv, Armed, Handling
  <1>9. PaymentRemembered' /\ ChargedOnce'
    BY <1>1, <1>2, <1>5, <1>6 DEF PaymentRemembered, ChargedOnce, ClickInv, Settled
  <1>10. PendingInv' /\ QueuedIsBacked'
    BY <1>1, <1>2 DEF PendingInv, QueuedIsBacked
  <1> QED
    BY <1>3, <1>4, <1>7, <1>8, <1>9, <1>10

\* An exception leaves the row as it is for the `except` block.
LEMMA HandlerRaisesInv ==
  ASSUME IInv, HandlerRaises
  PROVE  IInv'
  <1> USE DEF IInv, TypeOK, HandlerRaises, Expose, NoExposure, histVars,
              dispVars, jobVars, clearVars
  <1>2. TypeOK'
    BY DEF HandInv, Statuses, WorkerStates, Armed, Handling, Exposures
  <1>3. HandInv' /\ UnpaidInv' /\ WaitingInv' /\ ClickInv'
    BY DEF HandInv, UnpaidInv, WaitingInv, ClickInv, Armed, Handling, Settled,
           PaymentRemembered
  <1>4. FailingInv' /\ WatchdogInv'
    BY DEF HandInv, UnpaidInv, WaitingInv, ClickInv, FailingInv, WatchdogInv,
           PaymentRemembered, Armed, Handling, Settled
  <1>5. PaymentRemembered' /\ ChargedOnce'
    BY DEF HandInv, UnpaidInv, WaitingInv, ClickInv, FailingInv, WatchdogInv,
           PaymentRemembered, ChargedOnce, Settled,
           Armed, Handling
  <1>6. PendingInv' /\ QueuedIsBacked'
    BY DEF PendingInv, QueuedIsBacked, HandInv, Armed, Handling
  <1> QED
    BY <1>2, <1>3, <1>4, <1>5, <1>6

\* A paid row becomes a review, any other row a failure.
LEMMA RecordFailureInv ==
  ASSUME IInv, RecordFailure
  PROVE  IInv'
  <1> USE DEF IInv, TypeOK, RecordFailure, FailureStatus, Record, QueuedRows,
              dispVars, clearVars
  <1>2. TypeOK'
    BY DEF HandInv, Statuses, WorkerStates, Armed, Handling, Exposures
  <1>3. HandInv' /\ UnpaidInv' /\ WaitingInv' /\ ClickInv'
    BY DEF HandInv, UnpaidInv, WaitingInv, ClickInv, Armed, Handling, Settled,
           PaymentRemembered
  <1>4. FailingInv' /\ WatchdogInv'
    BY DEF HandInv, UnpaidInv, WaitingInv, ClickInv, FailingInv, WatchdogInv,
           PaymentRemembered, Armed, Handling, Settled
  <1>5. PaymentRemembered' /\ ChargedOnce'
    BY DEF HandInv, UnpaidInv, WaitingInv, ClickInv, FailingInv, WatchdogInv,
           PaymentRemembered, ChargedOnce, Settled,
           Armed, Handling
  <1>6. PendingInv' /\ QueuedIsBacked'
    BY DEF PendingInv, QueuedIsBacked, HandInv, Armed, Handling
  <1> QED
    BY <1>2, <1>3, <1>4, <1>5, <1>6

\* The second record is made only after the watchdog fired.
LEMMA LeaveInv ==
  ASSUME IInv, Leave
  PROVE  IInv'
  <1> USE DEF IInv, TypeOK, Leave, FailureStatus, Record, dispVars, jobVars,
              clearVars, histVars
  <1>2. TypeOK'
    BY DEF HandInv, Statuses, WorkerStates, Armed, Handling, Exposures
  <1>3. HandInv' /\ UnpaidInv' /\ WaitingInv' /\ ClickInv'
    BY DEF HandInv, UnpaidInv, WaitingInv, ClickInv, Armed, Handling, Settled,
           PaymentRemembered
  <1>4. FailingInv' /\ WatchdogInv'
    BY DEF HandInv, UnpaidInv, WaitingInv, ClickInv, FailingInv, WatchdogInv,
           PaymentRemembered, Armed, Handling, Settled
  <1>5. PaymentRemembered' /\ ChargedOnce'
    BY DEF HandInv, UnpaidInv, WaitingInv, ClickInv, FailingInv, WatchdogInv,
           PaymentRemembered, ChargedOnce, Settled,
           Armed, Handling
  <1>6. PendingInv' /\ QueuedIsBacked'
    BY DEF PendingInv, QueuedIsBacked, HandInv, Armed, Handling
  <1> QED
    BY <1>2, <1>3, <1>4, <1>5, <1>6

\* The job is over.
LEMMA FinishInv ==
  ASSUME IInv, Finish
  PROVE  IInv'
  <1> USE DEF IInv, TypeOK, Finish, clearVars, histVars
  <1>2. TypeOK'
    BY DEF HandInv, Statuses, WorkerStates, Armed, Handling, Exposures
  <1>3. HandInv' /\ UnpaidInv' /\ WaitingInv' /\ ClickInv'
    BY DEF HandInv, UnpaidInv, WaitingInv, ClickInv, Armed, Handling, Settled,
           PaymentRemembered
  <1>4. FailingInv' /\ WatchdogInv'
    BY DEF HandInv, UnpaidInv, WaitingInv, ClickInv, FailingInv, WatchdogInv,
           PaymentRemembered, Armed, Handling, Settled
  <1>5. PaymentRemembered' /\ ChargedOnce'
    BY DEF HandInv, UnpaidInv, WaitingInv, ClickInv, FailingInv, WatchdogInv,
           PaymentRemembered, ChargedOnce, Settled,
           Armed, Handling
  <1>6. PendingInv' /\ QueuedIsBacked'
    BY DEF PendingInv, QueuedIsBacked, HandInv, Armed, Handling
  <1> QED
    BY <1>2, <1>3, <1>4, <1>5, <1>6

\* The watchdog exposes its product.
LEMMA WatchdogStepInv ==
  ASSUME IInv, WatchdogFires \/ WatchdogCloses
  PROVE  IInv'
  <1> USE DEF IInv, TypeOK, WatchdogFires, WatchdogCloses, Expose, dispVars,
              clearVars, histVars
  <1>2. TypeOK'
    BY DEF HandInv, Statuses, WorkerStates, Armed, Handling, Exposures
  <1>3. HandInv' /\ UnpaidInv' /\ WaitingInv' /\ ClickInv'
    BY DEF HandInv, UnpaidInv, WaitingInv, ClickInv, Armed, Handling, Settled,
           PaymentRemembered
  <1>4. FailingInv' /\ WatchdogInv'
    BY DEF HandInv, UnpaidInv, WaitingInv, ClickInv, FailingInv, WatchdogInv,
           PaymentRemembered, Armed, Handling, Settled
  <1>5. PaymentRemembered' /\ ChargedOnce'
    BY DEF HandInv, UnpaidInv, WaitingInv, ClickInv, FailingInv, WatchdogInv,
           PaymentRemembered, ChargedOnce, Settled,
           Armed, Handling
  <1>6. PendingInv' /\ QueuedIsBacked'
    BY DEF PendingInv, QueuedIsBacked, HandInv, Armed, Handling
  <1> QED
    BY <1>2, <1>3, <1>4, <1>5, <1>6

\* The waiting jobs are dropped, which orphans their reservations.
LEMMA ClearJobsInv ==
  ASSUME IInv, ClearJobs
  PROVE  IInv'
  <1> USE DEF IInv, TypeOK, ClearJobs, QueuedRows, jobVars
  <1>1. <<>> \in Seq(Keys) /\ ToSet(<<>>) = {}
    BY EmptyFacts
  <1>2. TypeOK'
    BY <1>1 DEF HandInv, Statuses, WorkerStates, Armed, Handling, Exposures
  <1>3. HandInv' /\ UnpaidInv' /\ WaitingInv' /\ ClickInv'
    BY <1>1 DEF HandInv, UnpaidInv, WaitingInv, ClickInv, Armed, Handling, Settled,
           PaymentRemembered
  <1>4. FailingInv' /\ WatchdogInv'
    BY <1>1 DEF HandInv, UnpaidInv, WaitingInv, ClickInv, FailingInv, WatchdogInv,
           PaymentRemembered, Armed, Handling, Settled
  <1>5. PaymentRemembered' /\ ChargedOnce'
    BY <1>1 DEF HandInv, UnpaidInv, WaitingInv, ClickInv, FailingInv, WatchdogInv,
           PaymentRemembered, ChargedOnce, Settled,
           Armed, Handling
  <1>6. PendingInv' /\ QueuedIsBacked'
    BY <1>1 DEF PendingInv, QueuedIsBacked, HandInv, Armed, Handling
  <1> QED
    BY <1>2, <1>3, <1>4, <1>5, <1>6

\* The clear gives up reservations, never a settled row.
LEMMA ClearRowsInv ==
  ASSUME IInv, ClearRows
  PROVE  IInv'
  <1> USE DEF IInv, TypeOK, ClearRows, dispVars, jobVars, histVars
  <1>2. TypeOK'
    BY DEF HandInv, Statuses, WorkerStates, Armed, Handling, Exposures
  <1>3. HandInv' /\ UnpaidInv' /\ WaitingInv' /\ ClickInv'
    BY DEF HandInv, UnpaidInv, WaitingInv, ClickInv, Armed, Handling, Settled,
           PaymentRemembered
  <1>4. FailingInv' /\ WatchdogInv'
    BY DEF HandInv, UnpaidInv, WaitingInv, ClickInv, FailingInv, WatchdogInv,
           PaymentRemembered, Armed, Handling, Settled
  <1>5. PaymentRemembered' /\ ChargedOnce'
    BY DEF HandInv, UnpaidInv, WaitingInv, ClickInv, FailingInv, WatchdogInv,
           PaymentRemembered, ChargedOnce, Settled,
           Armed, Handling
  <1>6. PendingInv' /\ QueuedIsBacked'
    BY DEF PendingInv, QueuedIsBacked, HandInv, Armed, Handling
  <1> QED
    BY <1>2, <1>3, <1>4, <1>5, <1>6

\* A crash keeps the rows, and the payments they remember.
LEMMA CrashInv ==
  ASSUME IInv, Crash
  PROVE  IInv'
  <1> USE DEF IInv, TypeOK, Crash, QueuedRows
  <1>1. <<>> \in Seq(Keys) /\ ToSet(<<>>) = {}
    BY EmptyFacts
  <1>2. TypeOK'
    BY <1>1 DEF HandInv, Statuses, WorkerStates, Armed, Handling, Exposures
  <1>3. HandInv' /\ UnpaidInv' /\ WaitingInv' /\ ClickInv'
    BY <1>1 DEF HandInv, UnpaidInv, WaitingInv, ClickInv, Armed, Handling, Settled,
           PaymentRemembered
  <1>4. FailingInv' /\ WatchdogInv'
    BY <1>1 DEF HandInv, UnpaidInv, WaitingInv, ClickInv, FailingInv, WatchdogInv,
           PaymentRemembered, Armed, Handling, Settled
  <1>5. PaymentRemembered' /\ ChargedOnce'
    BY <1>1 DEF HandInv, UnpaidInv, WaitingInv, ClickInv, FailingInv, WatchdogInv,
           PaymentRemembered, ChargedOnce, Settled,
           Armed, Handling
  <1>6. PendingInv' /\ QueuedIsBacked'
    BY <1>1 DEF PendingInv, QueuedIsBacked, HandInv, Armed, Handling
  <1> QED
    BY <1>2, <1>3, <1>4, <1>5, <1>6

\* Stuttering.
LEMMA StutterInv ==
  ASSUME IInv, UNCHANGED vars
  PROVE  IInv'
  <1> USE DEF IInv, TypeOK, vars
  <1>2. TypeOK'
    BY DEF HandInv, Statuses, WorkerStates, Armed, Handling, Exposures
  <1>3. HandInv' /\ UnpaidInv' /\ WaitingInv' /\ ClickInv'
    BY DEF HandInv, UnpaidInv, WaitingInv, ClickInv, Armed, Handling, Settled,
           PaymentRemembered
  <1>4. FailingInv' /\ WatchdogInv'
    BY DEF HandInv, UnpaidInv, WaitingInv, ClickInv, FailingInv, WatchdogInv,
           PaymentRemembered, Armed, Handling, Settled
  <1>5. PaymentRemembered' /\ ChargedOnce'
    BY DEF HandInv, UnpaidInv, WaitingInv, ClickInv, FailingInv, WatchdogInv,
           PaymentRemembered, ChargedOnce, Settled,
           Armed, Handling
  <1>6. PendingInv' /\ QueuedIsBacked'
    BY DEF PendingInv, QueuedIsBacked, HandInv, Armed, Handling
  <1> QED
    BY <1>2, <1>3, <1>4, <1>5, <1>6

LEMMA StepInv == IInv /\ [Next]_vars => IInv'
  <1> SUFFICES ASSUME IInv, [Next]_vars
               PROVE  IInv'
    OBVIOUS
  <1>1. ASSUME NEW k \in Keys, ScanReserve(k) \/ WatchlistSubmit(k)
        PROVE  IInv'
    BY <1>1, ScanReserveInv, WatchlistSubmitInv
  <1>2. CASE ScanSubmit
    BY <1>2, ScanSubmitInv
  <1>3. CASE WorkerStep
    BY <1>3, TakeInv, MarkStartedInv, PrepareReserveInv, PrepareSkipInv,
       BrowserStepInv, ClickPayInv, RecordOutcomeInv, HandlerRaisesInv,
       RecordFailureInv, LeaveInv, FinishInv DEF WorkerStep
  <1>4. CASE WatchdogFires \/ WatchdogCloses
    BY <1>4, WatchdogStepInv
  <1>5. CASE ClearJobs \/ ClearRows \/ Crash
    BY <1>5, ClearJobsInv, ClearRowsInv, CrashInv
  <1>6. CASE UNCHANGED vars
    BY <1>6, StutterInv
  <1> QED
    BY <1>1, <1>2, <1>3, <1>4, <1>5, <1>6 DEF Next

-----------------------------------------------------------------------------
(* The theorems.                                                           *)

\* IInv holds in every reachable state.
THEOREM Invariance == Spec => []IInv
  <1> QED
    BY InitInv, StepInv, PTL DEF Spec

\* Type correctness.
THEOREM TypeCorrect == Spec => []TypeOK
  <1>1. IInv => TypeOK
    BY DEF IInv
  <1> QED
    BY <1>1, Invariance, PTL

\* No product is paid for twice unless one of the four exposing events hit a
\* job of it: an unrecorded click, a watchdog, a failure before the duplicate
\* check, or a page whose words belie what the shop did.
THEOREM NoDoubleCharge == Spec => []ChargedOnce
  <1>1. IInv => ChargedOnce
    BY DEF IInv
  <1> QED
    BY <1>1, Invariance, PTL

\* A payment is remembered in a blocking status.
THEOREM PaymentsRemembered == Spec => []PaymentRemembered
  <1>1. IInv => PaymentRemembered
    BY DEF IInv
  <1> QED
    BY <1>1, Invariance, PTL

\* A reservation that blocks its product has a job on its way, or was orphaned
\* by a refusal, a clear, a lost write or a crash.
THEOREM ReservationsBacked == Spec => []QueuedIsBacked
  <1>1. IInv => QueuedIsBacked
    BY DEF IInv
  <1> QED
    BY <1>1, Invariance, PTL

\* Confirmed purchases and those left for review stay so, unless exposed.
THEOREM SettledStays == Spec => SettledIsFinal
  <1> DEFINE Final == \A k \in Keys :
                        status[k] \in {"purchase_confirmed", "unknown_needs_review"}
                          /\ exposed'[k] = {}
                        => status'[k] = status[k]
  <1>1. ASSUME IInv, [Next]_vars
        PROVE  [Final]_vars
    <2> SUFFICES ASSUME Next
                 PROVE  Final
      BY <1>1
    <2> USE <1>1 DEF IInv, TypeOK, Settled, BLOCKING_PURCHASE_STATUSES
    <2>1. ASSUME NEW k \in Keys, ScanReserve(k) \/ WatchlistSubmit(k)
          PROVE  Final
      BY <2>1 DEF ScanReserve, Reserve, Record, WatchlistSubmit
    <2>2. CASE Take \/ MarkStarted \/ PrepareReserve \/ PrepareSkip
      BY <2>2 DEF Take, MarkStarted, PrepareReserve, PrepareSkip, Reserve, Record,
                  WORKER_BLOCKING
    <2>3. CASE AddToCart \/ Checkout \/ ClickPay \/ RecordSubmitted
      BY <2>3 DEF AddToCart, Checkout, ClickPay, RecordSubmitted, HandlerStep,
                  Record, UnpaidInv
    <2>4. CASE RecordOutcome
      BY <2>4 DEF RecordOutcome, Record, WaitingInv
    <2>5. CASE HandlerRaises \/ Finish
      BY <2>5 DEF HandlerRaises, Finish
    <2>6. CASE RecordFailure
      BY <2>6 DEF RecordFailure, Record, FailureStatus, FailingInv
    <2>7. CASE Leave
      BY <2>7 DEF Leave, Record, WatchdogInv, Armed, histVars
    <2>8. CASE ScanSubmit \/ WatchdogFires \/ WatchdogCloses \/ ClearJobs \/ Crash
      BY <2>8 DEF ScanSubmit, WatchdogFires, WatchdogCloses, ClearJobs, Crash
    <2>9. CASE ClearRows
      BY <2>9 DEF ClearRows
    <2> QED
      BY <2>1, <2>2, <2>3, <2>4, <2>5, <2>6, <2>7, <2>8, <2>9 DEF Next, WorkerStep
  <1> QED
    BY <1>1, Invariance, PTL DEF Spec, SettledIsFinal

\* Where no job times out, nothing raises, no click is lost, no page says the
\* opposite of what the shop did and the process lives, there is no exception: clears, failed writes, repeated scans and
\* unreserved submits of the watchlist never pay for a product twice.
THEOREM PaidOnceUndisturbed ==
  ASSUME Faults \cap {"watchdog", "raise", "click_lost", "crash", "misread"} = {}
  PROVE  Spec => [](\A k \in Keys : charged[k] <= 1)
  <1> DEFINE Calm == watchdog = "armed" /\ \A k \in Keys : exposed[k] = {}
  <1>1. Init => Calm
    BY DEF Init
  <1>2. ASSUME TypeOK, Calm, [Next]_vars
        PROVE  Calm'
    <2>1. CASE \E k \in Keys : ScanReserve(k) \/ WatchlistSubmit(k)
      BY <1>2, <2>1 DEF ScanReserve, WatchlistSubmit, jobVars, histVars
    <2>2. CASE ScanSubmit \/ ClearJobs \/ ClearRows
      BY <1>2, <2>2 DEF ScanSubmit, ClearJobs, ClearRows, jobVars, histVars
    <2>3. CASE Take \/ MarkStarted \/ PrepareReserve \/ PrepareSkip \/ Finish
      BY <1>2, <2>3 DEF Take, MarkStarted, PrepareReserve, PrepareSkip, Finish, jobVars, histVars
    <2>4. CASE AddToCart \/ Checkout \/ RecordSubmitted \/ RecordOutcome
      BY <1>2, <2>4 DEF AddToCart, Checkout, RecordSubmitted, RecordOutcome, HandlerStep,
         NoExposure, jobVars, histVars
    <2>5. CASE ClickPay
      BY <1>2, <2>5 DEF ClickPay
    <2>6. CASE HandlerRaises
      BY <1>2, <2>6 DEF HandlerRaises, BrowserOpen
    <2>7. CASE RecordFailure
      BY <1>2, <2>7 DEF RecordFailure
    <2>8. CASE Leave
      BY <1>2, <2>8 DEF Leave, jobVars, histVars
    <2>9. CASE WatchdogFires \/ WatchdogCloses \/ Crash
      BY <1>2, <2>9 DEF WatchdogFires, WatchdogCloses, Crash
    <2>10. CASE UNCHANGED vars
      BY <1>2, <2>10 DEF vars
    <2> QED
      BY <1>2, <2>1, <2>2, <2>3, <2>4, <2>5, <2>6, <2>7, <2>8, <2>9, <2>10 DEF Next, WorkerStep
  <1>3. ChargedOnce /\ Calm => \A k \in Keys : charged[k] <= 1
    BY DEF ChargedOnce
  <1> HIDE DEF Calm
  <1> QED
    BY <1>1, <1>2, <1>3, TypeCorrect, NoDoubleCharge, PTL DEF Spec

-----------------------------------------------------------------------------
(* The rows and their writers implement PurchaseLedger.                    *)

LEMMA EntryFacts ==
  ASSUME NEW k \in Keys
  PROVE  /\ Entry(k) \in Ledger!Entries
         /\ exposed[k] # {} <=> Entry(k) = "void"
         /\ Entry(k) \in Ledger!InFlight => hand = k /\ pc \in Handling
  BY DEF Entry, Ledger!Entries, Ledger!InFlight, Handling

\* A step that moves the entry of k alone.
LEMMA EntryMoves ==
  ASSUME NEW k \in Keys, \A j \in Keys : j # k => Entry(j)' = Entry(j),
         NEW from, Entry(k) \in from, NEW to, Entry(k)' = to
  PROVE  Ledger!Moves(k, from, to)
  BY DEF Ledger!Moves

\* A step that moves none.
LEMMA EntriesStay ==
  ASSUME \A j \in Keys : Entry(j)' = Entry(j), charged' = charged
  PROVE  UNCHANGED Ledger!ledger
  BY DEF Ledger!ledger

\* The submitters, the clear and the worker's steps around the handler.
LEMMA AroundStays ==
  ASSUME IInv,
         \/ \E k \in Keys : ScanReserve(k) \/ WatchlistSubmit(k)
         \/ ScanSubmit \/ ClearJobs \/ ClearRows
         \/ Take \/ MarkStarted \/ PrepareSkip \/ RecordFailure \/ Leave \/ Finish
         \/ AddToCart \/ Checkout \/ RecordSubmitted \/ WatchdogCloses
         \/ UNCHANGED vars
  PROVE  UNCHANGED Ledger!ledger
  <1> USE DEF IInv, TypeOK
  <1>1. SUFFICES /\ charged' = charged
                 /\ \A j \in Keys : Entry(j)' = Entry(j)
    BY EntriesStay
  <1>2. CASE \E k \in Keys : ScanReserve(k)
    BY <1>2 DEF ScanReserve, Reserve, Record, BLOCKING_PURCHASE_STATUSES, Settled, Entry, jobVars
  <1>3. CASE \/ \E k \in Keys : WatchlistSubmit(k)
             \/ ScanSubmit \/ ClearJobs \/ WatchdogCloses
    BY <1>3 DEF WatchlistSubmit, ScanSubmit, ClearJobs, WatchdogCloses, Entry, jobVars, histVars
  <1>4. CASE ClearRows
    BY <1>4 DEF ClearRows, Settled, Entry, jobVars, histVars
  <1>5. CASE Take \/ MarkStarted \/ PrepareSkip \/ Finish
    BY <1>5, KeyAssumption DEF Take, MarkStarted, PrepareSkip, Finish, Entry, jobVars, histVars
  <1>6. CASE RecordFailure
    BY <1>6 DEF RecordFailure, Record, FailureStatus, FailingInv, Settled, Entry, Statuses
  <1>7. CASE Leave
    BY <1>7 DEF Leave, Record, WatchdogInv, Armed, Settled, Entry, jobVars, histVars
  <1>8. CASE AddToCart \/ Checkout \/ RecordSubmitted
    BY <1>8 DEF AddToCart, Checkout, RecordSubmitted, HandlerStep, Record, Entry, jobVars, histVars
  <1>9. CASE UNCHANGED vars
    BY <1>9 DEF vars, Entry
  <1> QED
    BY <1>2, <1>3, <1>4, <1>5, <1>6, <1>7, <1>8, <1>9

\* The worker's reservation finds an open entry, and no other in flight.
LEMMA PrepareClaims ==
  ASSUME IInv, PrepareReserve
  PROVE  [Ledger!Next]_(Ledger!ledger)
  <1> USE DEF IInv, TypeOK
  <1>1. PICK k \in Keys : k = hand /\ hand' = k /\ pc' = "cart"
    BY DEF PrepareReserve, HandInv, Armed, jobVars
  <1>2. charged' = charged /\ \A j \in Keys : Entry(j) \notin Ledger!InFlight
    BY EntryFacts DEF PrepareReserve, Handling, histVars
  <1>3. \A j \in Keys : j # k => Entry(j)' = Entry(j)
    BY <1>1 DEF PrepareReserve, Reserve, Record, Entry, jobVars, histVars
  <1>4. CASE exposed[k] = {}
    <2>1. Entry(k) = "open" /\ Entry(k)' = "claimed"
      BY <1>1, <1>4 DEF PrepareReserve, Reserve, WORKER_BLOCKING, BLOCKING_PURCHASE_STATUSES,
         Settled, Entry, histVars
    <2>2. Ledger!Claim(k)
      BY <1>2, <1>3, <2>1, EntryMoves DEF Ledger!Claim
    <2> QED
      BY <2>2 DEF Ledger!Next
  <1>5. CASE exposed[k] # {}
    <2>1. Entry(k)' = Entry(k)
      BY <1>5 DEF PrepareReserve, Entry, histVars
    <2> QED
      BY <1>2, <1>3, <2>1, EntriesStay
  <1> QED
    BY <1>4, <1>5

\* The click is paid for, declined, or exposes the product.
LEMMA ClickPays ==
  ASSUME IInv, ClickPay
  PROVE  [Ledger!Next]_(Ledger!ledger)
  <1> USE DEF IInv, TypeOK
  <1>1. PICK k \in Keys : k = hand /\ hand' = k
    BY DEF ClickPay, HandInv
  <1>2. \A j \in Keys : j # k => Entry(j)' = Entry(j)
    BY <1>1 DEF ClickPay, Entry
  <1>3. \/ accepted' = TRUE /\ Ledger!Charge(k)
        \/ accepted' = FALSE /\ UNCHANGED charged
    BY <1>1 DEF ClickPay, Ledger!Charge
  <1>4. CASE exposed'[k] # {}
    <2>1. Entry(k)' = "void" /\ Entry(k) \in Ledger!Entries
      BY <1>4, EntryFacts DEF Entry
    <2>2. Ledger!Void(k)
      BY <1>2, <1>3, <2>1, EntryMoves DEF Ledger!Void
    <2> QED
      BY <2>2 DEF Ledger!Next
  <1>5. CASE exposed'[k] = {}
    <2>1. /\ Entry(k) = "claimed"
          /\ Entry(k)' = IF accepted' THEN "paid" ELSE "declined"
      BY <1>1, <1>5 DEF ClickPay, Entry
    <2>2. Ledger!Pay(k) \/ Ledger!Decline(k)
      BY <1>2, <1>3, <2>1, EntryMoves DEF Ledger!Pay, Ledger!Decline
    <2> QED
      BY <2>2 DEF Ledger!Next
  <1> QED
    BY <1>4, <1>5

\* A step that ends what was in flight: the entry is released if that was not
\* paid for, confirmed, left for review, or void.
LEMMA EntrySettles ==
  ASSUME NEW k \in Keys, charged' = charged,
         \A j \in Keys : j # k => Entry(j)' = Entry(j),
         \/ Entry(k)' = Entry(k)
         \/ Entry(k)' = "void"
         \/ Entry(k) \in {"claimed", "declined"} /\ Entry(k)' = "open"
         \/ Entry(k) = "paid" /\ Entry(k)' = "bought"
         \/ Entry(k) \in {"paid", "declined"} /\ Entry(k)' = "review"
  PROVE  [Ledger!Next]_(Ledger!ledger)
  <1>1. CASE Entry(k)' = Entry(k)
    BY <1>1, EntriesStay
  <1>2. CASE Entry(k)' = "void"
    <2>1. Ledger!Void(k)
      BY <1>2, EntryFacts, EntryMoves DEF Ledger!Void
    <2> QED
      BY <2>1 DEF Ledger!Next
  <1>3. CASE Entry(k) \in {"claimed", "declined"} /\ Entry(k)' = "open"
    <2>1. Ledger!Release(k)
      BY <1>3, EntryMoves DEF Ledger!Release
    <2> QED
      BY <2>1 DEF Ledger!Next
  <1>4. CASE Entry(k) = "paid" /\ Entry(k)' = "bought"
    <2>1. Ledger!Confirm(k)
      BY <1>4, EntryMoves DEF Ledger!Confirm
    <2> QED
      BY <2>1 DEF Ledger!Next
  <1>5. CASE Entry(k) \in {"paid", "declined"} /\ Entry(k)' = "review"
    <2>1. Ledger!Review(k)
      BY <1>5, EntryMoves DEF Ledger!Review
    <2> QED
      BY <2>1 DEF Ledger!Next
  <1> QED
    BY <1>1, <1>2, <1>3, <1>4, <1>5

\* The outcome of a click: as the shop decided, or the product is void.
LEMMA OutcomeSettles ==
  ASSUME IInv, RecordOutcome
  PROVE  [Ledger!Next]_(Ledger!ledger)
  <1> USE DEF IInv, TypeOK
  <1>1. /\ pc = "waiting" /\ hand \in Keys /\ charged' = charged
        /\ hand' = hand /\ accepted' = accepted
    BY OutcomeFacts
  <1>2. PICK verdict \in {"failed", "purchase_confirmed", "unknown_needs_review"} :
               /\ status' = [status EXCEPT ![hand] = verdict]
               /\ pc' = IF verdict = "failed" THEN "failing" ELSE "leaving"
               /\ \/ /\ exposed' = exposed
                     /\ verdict = "failed" => ~accepted
                     /\ verdict = "purchase_confirmed" => accepted
                  \/ exposed' = [exposed EXCEPT ![hand] = @ \cup {"misread"}]
    BY OutcomeFacts
  <1>3. PICK k \in Keys : k = hand
    BY <1>1
  <1>4. \A j \in Keys : j # k => Entry(j)' = Entry(j)
    BY <1>1, <1>2, <1>3 DEF Entry
  <1>5. CASE exposed' = exposed /\ (verdict = "failed" => ~accepted)
             /\ (verdict = "purchase_confirmed" => accepted)
    <2>1. \/ Entry(k)' = Entry(k)
          \/ Entry(k) = "declined" /\ Entry(k)' = "open"
          \/ Entry(k) = "paid" /\ Entry(k)' = "bought"
          \/ Entry(k) \in {"paid", "declined"} /\ Entry(k)' = "review"
      BY <1>1, <1>2, <1>3, <1>5 DEF Settled, Entry
    <2> QED
      BY <1>1, <1>4, <2>1, EntrySettles
  <1>6. CASE exposed' = [exposed EXCEPT ![hand] = @ \cup {"misread"}]
    <2>1. Entry(k)' = "void"
      BY <1>3, <1>6 DEF Entry
    <2> QED
      BY <1>1, <1>4, <2>1, EntrySettles
  <1> QED
    BY <1>2, <1>5, <1>6

\* An exception exposes the product, or leaves the row to say whether it was paid for.
LEMMA RaiseSettles ==
  ASSUME IInv, HandlerRaises
  PROVE  [Ledger!Next]_(Ledger!ledger)
  <1> USE DEF IInv, TypeOK
  <1>1. PICK k \in Keys : k = hand /\ hand' = k /\ pc' = "failing"
    BY DEF HandlerRaises, HandInv, Handling, jobVars
  <1>2. charged' = charged /\ \A j \in Keys : j # k => Entry(j)' = Entry(j)
    BY <1>1 DEF HandlerRaises, Expose, NoExposure, Entry, jobVars, histVars
  <1>3. CASE pc \in {"armed", "clicked"}
    <2>1. Entry(k)' = "void"
      BY <1>1, <1>3 DEF HandlerRaises, Expose, Entry
    <2> QED
      BY <1>2, <2>1, EntrySettles
  <1>4. CASE pc \notin {"armed", "clicked"}
    <2>1. \/ Entry(k)' = Entry(k)
          \/ Entry(k) = "claimed" /\ Entry(k)' = "open"
          \/ Entry(k) \in {"paid", "declined"} /\ Entry(k)' = "review"
      BY <1>1, <1>4 DEF HandlerRaises, NoExposure, UnpaidInv, WaitingInv, Handling, Settled, Entry,
         histVars
    <2> QED
      BY <1>2, <2>1, EntrySettles
  <1> QED
    BY <1>3, <1>4

\* The watchdog exposes the product it fires on.
LEMMA TimeoutVoids ==
  ASSUME IInv, WatchdogFires
  PROVE  [Ledger!Next]_(Ledger!ledger)
  <1> USE DEF IInv, TypeOK
  <1>1. PICK k \in Keys : k = hand /\ hand' = k
    BY DEF WatchdogFires, HandInv, Armed
  <1>2. charged' = charged /\ \A j \in Keys : j # k => Entry(j)' = Entry(j)
    BY <1>1 DEF WatchdogFires, Expose, Entry
  <1>3. Entry(k)' = "void"
    BY <1>1 DEF WatchdogFires, Expose, Entry
  <1> QED
    BY <1>2, <1>3, EntrySettles

\* After a crash the row of the product in hand says what its job knew, or the
\* crash has exposed it.
LEMMA CrashSettles ==
  ASSUME IInv, Crash
  PROVE  [Ledger!Next]_(Ledger!ledger)
  <1> USE DEF IInv, TypeOK
  <1>1. charged' = charged /\ status' = status /\ hand' = NoKey /\ pc' = "idle"
    BY DEF Crash
  <1>2. \A j \in Keys : j # hand => Entry(j)' = Entry(j)
    BY <1>1, KeyAssumption DEF Crash, Entry
  <1>3. CASE hand \in Keys /\ pc \in Handling
    <2>1. PICK k \in Keys : k = hand
      BY <1>3
    <2>2. \/ Entry(k)' = Entry(k)
          \/ Entry(k)' = "void"
          \/ Entry(k) = "claimed" /\ Entry(k)' = "open"
          \/ Entry(k) \in {"paid", "declined"} /\ Entry(k)' = "review"
      <3>1. Entry(k)' = IF exposed'[k] # {} THEN "void"
                        ELSE IF status[k] = "purchase_confirmed" THEN "bought"
                        ELSE IF status[k] \in Settled THEN "review" ELSE "open"
        BY <1>1, KeyAssumption DEF Entry
      <3>2. pc = "clicked" => exposed'[k] # {}
        BY <2>1 DEF Crash
      <3>3. pc # "clicked" => exposed'[k] = exposed[k]
        BY DEF Crash
      <3> QED
        BY <1>3, <2>1, <3>1, <3>2, <3>3 DEF UnpaidInv, WaitingInv, Handling, Settled, Entry
    <2> QED
      BY <1>1, <1>2, <2>1, <2>2, EntrySettles
  <1>4. CASE hand \notin Keys \/ pc \notin Handling
    <2>1. \A j \in Keys : Entry(j)' = Entry(j)
      BY <1>1, <1>2, <1>4, KeyAssumption DEF Crash, Handling, Entry
    <2> QED
      BY <1>1, <2>1, EntriesStay
  <1> QED
    BY <1>3, <1>4

\* Every step of the program is a step of the ledger or none.
LEMMA LedgerStep == IInv /\ [Next]_vars => [Ledger!Next]_(Ledger!ledger)
  BY AroundStays, PrepareClaims, ClickPays, OutcomeSettles, RaiseSettles, TimeoutVoids, CrashSettles
  DEF Next, WorkerStep

\* The rows, the queue, the worker, its watchdog, clears and restarts implement
\* the ledger, for any number of products, with every fault.
THEOREM RowsAreALedger == Spec => KeepsLedger
  <1>1. Init => Ledger!Init
    BY DEF Init, Ledger!Init, Entry, Settled
  <1> QED
    BY <1>1, LedgerStep, Invariance, PTL DEF Spec, KeepsLedger, Ledger!Spec

-----------------------------------------------------------------------------
(* What every ledger promises.                                             *)

LEMMA MovesFacts ==
  ASSUME NEW k \in Keys, NEW from, NEW to, Ledger!Moves(k, from, to)
  PROVE  /\ Entry(k) \in from /\ Entry(k)' = to
         /\ \A j \in Keys : j # k => Entry(j)' = Entry(j)
  BY DEF Ledger!Moves

LEMMA ChargeFacts ==
  ASSUME charged \in [Keys -> Nat], NEW k \in Keys, Ledger!Charge(k)
  PROVE  /\ charged' \in [Keys -> Nat] /\ charged'[k] = charged[k] + 1
         /\ \A j \in Keys : j # k => charged'[j] = charged[j]
  BY DEF Ledger!Charge

\* PaidOnce, for one product.
Booked(k) ==
    /\ Entry(k) \in {"open", "claimed", "declined"} => charged[k] = 0
    /\ Entry(k) \in {"paid", "bought"} => charged[k] = 1
    /\ Entry(k) = "review" => charged[k] <= 1

LEMMA BookedStep ==
  ASSUME charged \in [Keys -> Nat], \A j \in Keys : Booked(j),
         [Ledger!Next]_(Ledger!ledger)
  PROVE  charged' \in [Keys -> Nat] /\ \A j \in Keys : Booked(j)'
  <1>1. CASE UNCHANGED Ledger!ledger
    <2>1. charged' = charged /\ [k \in Keys |-> Entry(k)]' = [k \in Keys |-> Entry(k)]
      BY <1>1 DEF Ledger!ledger
    <2>2. \A j \in Keys : Entry(j)' = Entry(j)
      BY <2>1
    <2> QED
      BY <2>1, <2>2 DEF Booked
  <1>2. ASSUME NEW k \in Keys, Ledger!Pay(k)
        PROVE  charged' \in [Keys -> Nat] /\ \A j \in Keys : Booked(j)'
    BY <1>2, MovesFacts, ChargeFacts DEF Ledger!Pay, Booked
  <1>3. ASSUME NEW k \in Keys,
               Ledger!Claim(k) \/ Ledger!Decline(k) \/ Ledger!Release(k) \/ Ledger!Confirm(k)
               \/ Ledger!Review(k)
        PROVE  charged' \in [Keys -> Nat] /\ \A j \in Keys : Booked(j)'
    BY <1>3, MovesFacts
    DEF Ledger!Claim, Ledger!Decline, Ledger!Release, Ledger!Confirm, Ledger!Review, Booked
  <1>4. ASSUME NEW k \in Keys, Ledger!Void(k)
        PROVE  charged' \in [Keys -> Nat] /\ \A j \in Keys : Booked(j)'
    BY <1>4, MovesFacts, ChargeFacts DEF Ledger!Void, Booked
  <1> QED
    BY <1>1, <1>2, <1>3, <1>4 DEF Ledger!Next

\* Whatever implements the ledger, what is open was never paid for, what is
\* bought once, and what is left for review once at most.
THEOREM LedgerPaysOnce == Ledger!Spec => []Ledger!PaidOnce
  <1> DEFINE Books == charged \in [Keys -> Nat] /\ \A k \in Keys : Booked(k)
  <1>1. Ledger!Init => Books
    BY DEF Ledger!Init, Booked
  <1>2. Books /\ [Ledger!Next]_(Ledger!ledger) => Books'
    BY BookedStep
  <1>3. Books => Ledger!PaidOnce
    BY DEF Booked, Ledger!PaidOnce
  <1> HIDE DEF Books
  <1> QED
    BY <1>1, <1>2, <1>3, PTL DEF Ledger!Spec

\* So of the rows and their writers: until an exposing event hits a product, it
\* is open to a purchase only if nobody has paid for it.
THEOREM LedgerKept == Spec => []Ledger!PaidOnce
  BY RowsAreALedger, LedgerPaysOnce, PTL DEF KeepsLedger
=============================================================================
