------------------------- MODULE PocketGamesPurchase -------------------------
(***************************************************************************)
(* The purchase safety of the PocketGames checkout: the persistent row of  *)
(* purchase_state that is to stop a product from being bought twice, and   *)
(* everybody who writes it: the scan that reserves before it submits, the  *)
(* worker thread that runs the checkout, the watchdog timer, the           *)
(* exception paths, and the operator's "clear stale actions".              *)
(*                                                                         *)
(* The dispatcher is the one of SeleniumDispatcher, with its clear taken   *)
(* as one step: every job here is of one site, so none is put back, and a  *)
(* get() in the middle of the drain is a get() before it.  A product's     *)
(* purchase key and its job key are the same thing here: both are the      *)
(* product's handle behind the site's name.                                *)
(***************************************************************************)
EXTENDS Naturals, Sequences, FiniteSets, SequencesExt

CONSTANTS
    Keys,         \* products
    NoKey,
    Faults,       \* what may go wrong in this instance
    MaxQueue,     \* bound on the queue's length
    MaxCharges    \* bound on the payments the shop accepts per product

FaultNames ==
    {"watchdog",    \* the job timeout fires while a job runs
     "raise",       \* the handler, the driver or a write raises
     "click_lost",  \* the pay click takes effect but the driver call raises
     "write_lost",  \* a write on an exception path raises (database locked)
     "crash",       \* the process dies and is started again
     "clear",       \* the operator clears stale actions
     "misread",     \* the page after the pay click carries words that say the
                    \* opposite of what the shop did
     "watchlist"}   \* the watchlist submits the product too

ASSUME KeyAssumption == NoKey \notin Keys
ASSUME FaultAssumption == Faults \subseteq FaultNames
ASSUME BoundAssumption == MaxQueue \in Nat /\ MaxCharges \in Nat

VARIABLES
    status,     \* purchase_state.status by product; survives a crash
    queue,      \* job_queue
    pending,    \* _pending_keys
    running,    \* _running_keys
    pc,         \* where the worker thread is
    hand,       \* its job
    watchdog,   \* the timer of that job: "armed", "fired" once timed_out["value"]
                \* is set, "closed" once it has closed the handler's browser
    accepted,   \* the shop accepted the payment of that job
    dying,      \* an exception has left the job's `except` block
    scan,       \* the product the scan has reserved and not yet submitted
    clearing,   \* clear_stale_actions is between its memory and its rows
    touched,    \* rows written since that clear took its cutoff
    charged,    \* history: payments the shop accepted, by product
    exposed,    \* history: events that may hide a payment, by product
    orphaned    \* history: products whose reservation lost its job

vars == <<status, queue, pending, running, pc, hand, watchdog, accepted,
          dying, scan, clearing, touched, charged, exposed, orphaned>>

jobVars   == <<hand, watchdog, accepted, dying>>
dispVars  == <<queue, pending, running>>
clearVars == <<clearing, touched>>
histVars  == <<charged, exposed, orphaned>>

\* "none" is the absent row.
Statuses == {"none", "queued", "running", "added_to_cart", "checkout_started",
             "payment_submitted", "purchase_confirmed", "failed",
             "unknown_needs_review"}

BLOCKING_PURCHASE_STATUSES ==
    {"queued", "running", "payment_submitted", "purchase_confirmed",
     "unknown_needs_review"}

\* Events after which a payment can be forgotten.
Exposures ==
    {"unrecorded",     \* nothing recorded the submit: the call raised, the
                       \* write failed, or the process died in between
     "timeout",        \* the watchdog fired while the job was running
     "before_check",   \* the job failed before its duplicate check
     "misread"}        \* the page's words belied what the shop did

\* "armed" is the stretch between mark_started and the duplicate check,
\* "leaving" the start of the `finally` block.
Handling == {"cart", "checkout", "pay", "clicked", "waiting"}
Armed == {"armed", "failing", "leaving"} \cup Handling
WorkerStates == {"idle", "got", "finishing", "dead"} \cup Armed

Init ==
    /\ status = [k \in Keys |-> "none"]
    /\ queue = <<>>
    /\ pending = {}
    /\ running = {}
    /\ pc = "idle"
    /\ hand = NoKey
    /\ watchdog = "armed"
    /\ accepted = FALSE
    /\ dying = FALSE
    /\ scan = NoKey
    /\ clearing = FALSE
    /\ touched = {}
    /\ charged = [k \in Keys |-> 0]
    /\ exposed = [k \in Keys |-> {}]
    /\ orphaned = {}

\* update_purchase_state: whatever the row says, it now says s.
Record(k, s) ==
    /\ status' = [status EXCEPT ![k] = s]
    /\ touched' = touched \cup {k}
    /\ UNCHANGED clearing

\* reserve_purchase_state: check and write under the storage lock.
Reserve(k, s, blocking) ==
    /\ status[k] \notin blocking
    /\ Record(k, s)

Expose(k, event) ==
    /\ exposed' = [exposed EXCEPT ![k] = @ \cup {event}]
    /\ UNCHANGED <<charged, orphaned>>

NoExposure == UNCHANGED histVars

QueuedRows == {k \in Keys : status[k] = "queued"}

-----------------------------------------------------------------------------
(* The submitters, on the event loop's thread.                             *)

\* The scan reserves the product.  A row that blocks ends the scan's handling
\* of it, in the advisory check or in the reservation itself.
ScanReserve(k) ==
    /\ scan = NoKey
    /\ Reserve(k, "queued", BLOCKING_PURCHASE_STATUSES)
    /\ scan' = k
    /\ orphaned' = orphaned \ {k}
    /\ UNCHANGED <<dispVars, pc, jobVars, charged, exposed>>

\* Mutant: the key is noted as pending and the job never queued.
Submit_KeyOnly(k) ==
    IF k \in running \cup pending
      THEN UNCHANGED dispVars
      ELSE /\ pending' = pending \cup {k}
           /\ UNCHANGED <<queue, running>>

\* SeleniumDispatcher.submit.
Submit(k) ==
    IF k \in running \cup pending
      THEN UNCHANGED dispVars
      ELSE /\ Len(queue) < MaxQueue
           /\ queue' = Append(queue, k)
           /\ pending' = pending \cup {k}
           /\ UNCHANGED running

\* The answer is only logged: a reservation whose job is refused because one
\* of the same product is still running stays behind without a job.
ScanSubmit ==
    /\ scan # NoKey
    /\ Submit(scan)
    /\ orphaned' = IF scan \in running THEN orphaned \cup {scan} ELSE orphaned
    /\ scan' = NoKey
    /\ UNCHANGED <<status, pc, jobVars, clearVars, charged, exposed>>

\* The watchlist submits without a reservation.
WatchlistSubmit(k) ==
    /\ "watchlist" \in Faults
    /\ scan = NoKey
    /\ k \notin running \cup pending
    /\ Submit(k)
    /\ UNCHANGED <<status, pc, jobVars, scan, clearVars, histVars>>

-----------------------------------------------------------------------------
(* The worker thread.                                                      *)

Take ==
    /\ pc = "idle"
    /\ queue # <<>>
    /\ hand' = Head(queue)
    /\ queue' = Tail(queue)
    /\ pc' = "got"
    /\ watchdog' = "armed"
    /\ accepted' = FALSE
    /\ dying' = FALSE
    /\ UNCHANGED <<status, pending, running, scan, clearVars, histVars>>

\* mark_started, and the watchdog timer is started.
MarkStarted ==
    /\ pc = "got"
    /\ pending' = pending \ {hand}
    /\ running' = running \cup {hand}
    /\ pc' = "armed"
    /\ UNCHANGED <<status, queue, jobVars, scan, clearVars, histVars>>

\* Mutant: the worker takes the reservation made for its job for another's.
WORKER_BLOCKING_Queued == BLOCKING_PURCHASE_STATUSES

\* Mutant: a row left for review does not stop the worker.
WORKER_BLOCKING_NoReview ==
    BLOCKING_PURCHASE_STATUSES \ {"queued", "unknown_needs_review"}

\* The worker's own reservation: a queued row is the one made for this job.
WORKER_BLOCKING == BLOCKING_PURCHASE_STATUSES \ {"queued"}

\* _prepare_pocketgames_purchase, after ensure_driver.
PrepareReserve ==
    /\ pc = "armed"
    /\ Reserve(hand, "running", WORKER_BLOCKING)
    /\ pc' = "cart"
    /\ UNCHANGED <<dispVars, jobVars, scan, histVars>>

\* Mutant: the skip's own status is written into the row.
PrepareSkip_Recorded ==
    /\ pc = "armed"
    /\ status[hand] \in WORKER_BLOCKING
    /\ Record(hand, "duplicate_skipped")
    /\ pc' = "leaving"
    /\ UNCHANGED <<dispVars, jobVars, scan, histVars>>

PrepareSkip ==
    /\ pc = "armed"
    /\ status[hand] \in WORKER_BLOCKING
    /\ pc' = "leaving"
    /\ UNCHANGED <<status, dispVars, jobVars, scan, clearVars, histVars>>

\* The browser part of the step succeeded and its state is recorded.
HandlerStep(from, s, to) ==
    /\ pc = from
    /\ Record(hand, s)
    /\ pc' = to
    /\ UNCHANGED <<dispVars, jobVars, scan, histVars>>

BrowserOpen == watchdog # "closed"

AddToCart == BrowserOpen /\ HandlerStep("cart", "added_to_cart", "checkout")
Checkout == BrowserOpen /\ HandlerStep("checkout", "checkout_started", "pay")

\* The click: the shop accepts the payment or declines it, nothing is
\* recorded yet, and the driver call may raise although the click was made.
ClickPay ==
    /\ pc = "pay"
    /\ BrowserOpen
    /\ \/ /\ charged[hand] < MaxCharges
          /\ accepted' = TRUE
          /\ charged' = [charged EXCEPT ![hand] = @ + 1]
       \/ /\ accepted' = FALSE
          /\ UNCHANGED charged
    /\ \/ /\ pc' = "clicked"
          /\ UNCHANGED exposed
       \/ /\ "click_lost" \in Faults
          /\ pc' = "failing"
          /\ exposed' = [exposed EXCEPT ![hand] = @ \cup {"unrecorded"}]
    /\ UNCHANGED <<status, dispVars, hand, watchdog, dying, scan, clearVars,
                   orphaned>>

RecordSubmitted == HandlerStep("clicked", "payment_submitted", "waiting")

\* What _detect_purchase_result looks for in the page's text, source and
\* address: one of its failure phrases, and one of the selectors, phrases and
\* addresses of its list of confirmations ("bedankt" anywhere is one).
Markers == {"failure", "thanks"}

\* Mutant: the confirmations are looked for first.
DetectPurchaseResult_ThanksFirst(page) ==
    IF "thanks" \in page THEN "purchase_confirmed"
    ELSE IF "failure" \in page THEN "failed" ELSE "unknown_needs_review"

\* A failure phrase anywhere decides, before any confirmation.
DetectPurchaseResult(page) ==
    IF "failure" \in page THEN "failed"
    ELSE IF "thanks" \in page THEN "purchase_confirmed" ELSE "unknown_needs_review"

\* The shop's page says what the shop did: it never speaks of a failure after
\* an accepted payment, and gives no thanks without one for a declined payment.
Truthful(page) ==
    IF accepted THEN "failure" \notin page ELSE "thanks" \in page => "failure" \in page

\* Mutant: a page that shows no failure counts as a confirmation.
RecordOutcome_Optimistic ==
    \E page \in SUBSET Markers :
        LET verdict == IF "failure" \in page THEN "failed" ELSE "purchase_confirmed"
        IN  /\ pc = "waiting"
            /\ page # {} => BrowserOpen
            /\ Truthful(page)
            /\ Record(hand, verdict)
            /\ pc' = IF verdict = "failed" THEN "failing" ELSE "leaving"
            /\ UNCHANGED <<dispVars, jobVars, scan, histVars>>

\* _wait_for_purchase_result, from the click on: the first page that decides,
\* or none until the time is up or the waiting room is back (a closed browser
\* shows no page: page errors are swallowed).  Only a failure is raised.
RecordOutcome ==
    \E page \in SUBSET Markers :
        LET verdict == DetectPurchaseResult(page)
        IN  /\ pc = "waiting"
            /\ page # {} => BrowserOpen
            /\ Truthful(page) \/ "misread" \in Faults
            /\ Record(hand, verdict)
            /\ pc' = IF verdict = "failed" THEN "failing" ELSE "leaving"
            /\ IF Truthful(page) THEN NoExposure ELSE Expose(hand, "misread")
            /\ UNCHANGED <<dispVars, jobVars, scan>>

\* An exception before the outcome is recorded: no driver, a page that does
\* not come, a browser closed by the watchdog, a write that fails.
HandlerRaises ==
    /\ pc \in {"armed"} \cup Handling
    /\ "raise" \in Faults \/ (~BrowserOpen /\ pc \in {"cart", "checkout", "pay"})
    /\ pc' = "failing"
    /\ \/ pc = "armed" /\ Expose(hand, "before_check")
       \/ pc = "clicked" /\ Expose(hand, "unrecorded")
       \/ pc \notin {"armed", "clicked"} /\ NoExposure
    /\ UNCHANGED <<status, dispVars, jobVars, scan, clearVars>>

\* Mutant: every exception makes the purchase a failed one.
FailureStatus_AlwaysFailed(s) == "failed"

\* _record_pocketgames_worker_failure.  Its read and its write are one step:
\* the scan and the clear may write the row in between, but neither enters nor
\* leaves payment_submitted, all that the read is for.
FailureStatus(s) ==
    IF s = "payment_submitted" THEN "unknown_needs_review" ELSE "failed"

\* The `except` block.
RecordFailure ==
    /\ pc = "failing"
    /\ pc' = "leaving"
    /\ \/ /\ Record(hand, FailureStatus(status[hand]))
          /\ UNCHANGED <<dying, orphaned>>
       \/ /\ "write_lost" \in Faults
          /\ dying' = TRUE
          /\ orphaned' = orphaned \cup ({hand} \cap QueuedRows)
          /\ UNCHANGED <<status, clearVars>>
    /\ UNCHANGED <<dispVars, hand, watchdog, accepted, scan, charged, exposed>>

\* The `finally` block cancels the timer; a job that timed out has its
\* failure recorded here, once more if the `except` block already did.  A
\* write that raises here, this one or the action log's after it, ends the
\* thread with the job still running.
Leave ==
    /\ pc = "leaving"
    /\ \/ pc' = "finishing"
       \/ "write_lost" \in Faults /\ pc' = "dead"
    /\ \/ /\ watchdog = "armed" \/ pc' = "dead"
          /\ UNCHANGED <<status, clearVars>>
       \/ /\ watchdog # "armed"
          /\ Record(hand, FailureStatus(status[hand]))
    /\ UNCHANGED <<dispVars, jobVars, scan, histVars>>

\* mark_finished and task_done.
Finish ==
    /\ pc = "finishing"
    /\ running' = running \ {hand}
    /\ hand' = NoKey
    /\ pc' = IF dying THEN "dead" ELSE "idle"
    /\ UNCHANGED <<status, queue, pending, watchdog, accepted, dying, scan,
                   clearVars, histVars>>

\* The timer fires while it is armed: the flag is set ...
WatchdogFires ==
    /\ "watchdog" \in Faults
    /\ pc \in Armed
    /\ watchdog = "armed"
    /\ watchdog' = "fired"
    /\ Expose(hand, "timeout")
    /\ UNCHANGED <<status, dispVars, pc, hand, accepted, dying, scan, clearVars>>

\* ... and then the browser is closed.  A browser closed before ensure_driver
\* has returned is replaced by it, so only later closings reach the handler.
WatchdogCloses ==
    /\ watchdog = "fired"
    /\ pc \in Handling
    /\ watchdog' = "closed"
    /\ UNCHANGED <<status, dispVars, pc, hand, accepted, dying, scan, clearVars,
                   histVars>>

-----------------------------------------------------------------------------
(* The operator and the process.                                           *)

\* clear_stale_actions drops the waiting jobs first ...
ClearJobs ==
    /\ "clear" \in Faults
    /\ ~clearing
    /\ clearing' = TRUE
    /\ touched' = {}
    /\ queue' = <<>>
    /\ pending' = {}
    /\ orphaned' = orphaned \cup (QueuedRows \cap ToSet(queue))
    /\ UNCHANGED <<status, running, pc, jobVars, scan, charged, exposed>>

\* Mutant: everything but a confirmed purchase is given up.
ClearRows_AllButConfirmed ==
    /\ clearing
    /\ \E old \in SUBSET (Keys \ touched) :
          status' = [k \in Keys |->
                       IF k \in old /\ status[k] \notin {"none", "purchase_confirmed"}
                         THEN "failed" ELSE status[k]]
    /\ clearing' = FALSE
    /\ touched' = {}
    /\ UNCHANGED <<dispVars, pc, jobVars, scan, histVars>>

\* ... and then gives up the reservations older than the cutoff, any set of
\* rows not written since (`days` may be zero).
ClearRows ==
    /\ clearing
    /\ \E old \in SUBSET (Keys \ touched) :
          status' = [k \in Keys |->
                       IF k \in old /\ status[k] \in {"queued", "running"}
                         THEN "failed" ELSE status[k]]
    /\ clearing' = FALSE
    /\ touched' = {}
    /\ UNCHANGED <<dispVars, pc, jobVars, scan, histVars>>

\* The rows survive, the queue and the worker do not.  A payment the shop has
\* accepted and nobody has recorded is exposed.
Crash ==
    /\ "crash" \in Faults
    /\ queue' = <<>>
    /\ pending' = {}
    /\ running' = {}
    /\ pc' = "idle"
    /\ hand' = NoKey
    /\ watchdog' = "armed"
    /\ accepted' = FALSE
    /\ dying' = FALSE
    /\ scan' = NoKey
    /\ clearing' = FALSE
    /\ touched' = {}
    /\ exposed' = IF pc = "clicked"
                    THEN [exposed EXCEPT ![hand] = @ \cup {"unrecorded"}]
                    ELSE exposed
    /\ orphaned' = orphaned \cup QueuedRows
    /\ UNCHANGED <<status, charged>>

-----------------------------------------------------------------------------
WorkerStep ==
    \/ Take \/ MarkStarted \/ PrepareReserve \/ PrepareSkip
    \/ AddToCart \/ Checkout \/ ClickPay \/ RecordSubmitted \/ RecordOutcome
    \/ HandlerRaises \/ RecordFailure \/ Leave \/ Finish

Next ==
    \/ \E k \in Keys : ScanReserve(k) \/ WatchlistSubmit(k)
    \/ ScanSubmit
    \/ WorkerStep
    \/ WatchdogFires
    \/ WatchdogCloses
    \/ ClearJobs
    \/ ClearRows
    \/ Crash

Spec == Init /\ [][Next]_vars

\* The worker thread runs (the handler's waits are bounded) and the event
\* loop goes on from the reservation to the submit.
FairSpec == Spec /\ WF_vars(WorkerStep) /\ WF_vars(ScanSubmit)

-----------------------------------------------------------------------------
(* Properties.                                                             *)

\* Type invariant of the purchase rows and of their writers.
TypeOK ==
    /\ status \in [Keys -> Statuses]
    /\ queue \in Seq(Keys)
    /\ pending \subseteq Keys
    /\ running \subseteq Keys
    /\ pc \in WorkerStates
    /\ hand \in Keys \cup {NoKey}
    /\ watchdog \in {"armed", "fired", "closed"}
    /\ accepted \in BOOLEAN
    /\ dying \in BOOLEAN
    /\ scan \in Keys \cup {NoKey}
    /\ clearing \in BOOLEAN
    /\ touched \subseteq Keys
    /\ charged \in [Keys -> Nat]
    /\ exposed \in [Keys -> SUBSET Exposures]
    /\ orphaned \subseteq Keys

\* What the purchase rows are for: a product is paid for twice only if one of
\* four events hit a job of it.  Neither repeated scans, the watchlist,
\* duplicate submissions, restarts, failed writes nor an operator's clear at
\* any moment buy a product twice.
ChargedOnce == \A k \in Keys : charged[k] <= 1 \/ exposed[k] # {}

Settled == {"payment_submitted", "purchase_confirmed", "unknown_needs_review"}

\* A payment that none of those events hit is remembered by the row, from the
\* click on, in a status that blocks the next attempt.
PaymentRemembered ==
    \A k \in Keys :
        charged[k] > 0 /\ exposed[k] = {}
          => status[k] \in Settled \/ (hand = k /\ pc = "clicked")

\* A confirmed purchase, or one left for review, is final unless one of the
\* events hit its product.
SettledIsFinal ==
    [][ \A k \in Keys :
          status[k] \in {"purchase_confirmed", "unknown_needs_review"}
            /\ exposed'[k] = {}
          => status'[k] = status[k] ]_vars

\* What a product's row and the worker that has it in hand say of its payment.
Entry(k) ==
    IF exposed[k] # {} THEN "void"
    ELSE IF hand = k /\ pc \in {"cart", "checkout", "pay"} THEN "claimed"
    ELSE IF hand = k /\ pc \in {"clicked", "waiting"}
         THEN IF accepted THEN "paid" ELSE "declined"
    ELSE IF status[k] = "purchase_confirmed" THEN "bought"
    ELSE IF status[k] \in Settled THEN "review" ELSE "open"

Ledger == INSTANCE PurchaseLedger WITH entry <- [k \in Keys |-> Entry(k)]

\* Rows, queue, worker, watchdog, clears and restarts together are a ledger: a
\* purchase starts from a product nobody has paid for, one at a time, what may
\* have been paid for is never given up, and what is confirmed was paid for; all
\* this until an exposing event hits the product.
KeepsLedger == Ledger!Spec

\* A reservation blocks its product only as long as a job for it is on its
\* way, except when the job was refused, cleared or lost in a crash.
QueuedIsBacked ==
    \A k \in Keys :
        status[k] = "queued" /\ k \notin orphaned
          => \/ k \in ToSet(queue)
             \/ hand = k /\ pc \in {"got", "armed", "failing"}
             \/ scan = k

\* Such a reservation is taken up by the worker, unless its thread died.
QueuedResolves ==
    \A k \in Keys :
        (status[k] = "queued" /\ k \notin orphaned)
          ~> (status[k] # "queued" \/ k \in orphaned \/ pc = "dead")

\* The worker's own message: "PocketGames result unknown after final submit.
\* Manual review required. Auto-retry blocked."
AutoRetryBlocked ==
    [][ \A k \in Keys : status[k] = "unknown_needs_review"
          => status'[k] \in BLOCKING_PURCHASE_STATUSES ]_vars
=============================================================================
