# Formal model of the Pokémon product monitor

TLA+ modules, TLC configurations and TLAPS proofs for the Python program under
`src/superparser_modular/src/pokemon_parser` (paths below are relative to it).
The modules are translated from the code; tests and documents were read for what
the code is meant to do.

- [The system](#the-system) – components, state, interactions, hard behaviours
- [The modules](#the-modules) – what each one models, and how
- [Runs](#runs) – what TLC checks, with which bounds
- [Proofs](#proofs) – what TLAPS proves, from what, and how
- [Findings](#findings) – where code and documentation disagree
- [Not modelled](#not-modelled) and [Plan](#plan)

## The system

One process. A FastAPI server owns a **runtime manager**, which starts and stops
*runtimes*. A runtime is one asyncio task on an event loop in a thread of its
own; it runs the scan loop of every retailer and the watchlist loop. Purchases
are browser automation, and blocking, so they run in one **Selenium worker**
thread, fed through a FIFO queue by the **dispatcher**. Everything that is to
survive a restart is in one SQLite file, behind a lock.

```
 operator ──HTTP──▶ RuntimeManager ──start/stop──▶ event loop: scans, watchlist
     │                   │                             │ allow / mark / report
     │ clear stale       │ start/stop/join             ▼
     │ actions           ▼                          AntiBanManager
     └──────────▶ SeleniumDispatcher ◀── submit ──────┘      ▲
                         │ queue.Queue                       │ report
                         ▼                                   │
                  SeleniumWorker thread ── checkout ─────────┘
                     ▲   │    │
      watchdog timer ┘   │    └── purchase_state rows (SQLite)
                         ▼
        one Chrome: warm tabs, a basket at each shop
```

| component | state | operations | what makes it correct |
|---|---|---|---|
| Selenium dispatcher (`engine/selenium_dispatcher.py`) | queue and its `unfinished_tasks`, pending and running keys, lifecycle, the worker | submit, start, stop, prewarm, mark_started/finished, clear_pending | every job counted done once; no key twice; "stopped" is true; nobody refused for ever |
| Selenium worker (`workers/selenium_worker.py`) | job in hand, stop event, driver, action lock, warm tabs, one watchdog timer per job | job loop, except and finally paths, timeout, driver and tab management | a job ends in exactly one recorded outcome, and the loop goes on |
| PocketGames purchase safety (`workers/pocketgames_worker.py`, `workers/purchase_safety.py`, `storage/sqlite.py`) | a `purchase_state` row per product | reserve, update; written by scan, worker, handler, failure paths, clear | a product is paid for at most once; a payment is never forgotten; no dead reservation |
| Anti-ban (`engine/antiban.py`) | per site and layer: cooldown, last operation, denies, breaker, probes used | allow, mark_op, use_half_open_probe, report_success, report_deny | traffic stops after N denies, probes are bounded, half open ends |
| Worker's browser (`workers/selenium_worker.py`) | the Chrome processes, the driver, two locks, warm tabs, a source's access state | ensure, init, close, rebuild; prewarm, preload, refresh; watchdog; shutdown | one Chrome; a job keeps its browser; every job ends |
| Checkout handlers (`workers/mediamarkt_worker.py`, `dreamland_worker.py`, `bol_worker.py`, `queue.py`) | the page shown; at the shop the basket and the orders | add to cart, the rounds of the checkout, the click that pays | one order per job; a failed job ordered nothing |
| Scan pipeline (`engine/pipeline.py`), parsers | products rows, the listing read | fetch, upsert, transition, alert, enqueue | a transition leads to one alert and one action, and is not lost |
| Watchlist (`engine/watchlist.py`) | a row per product with its status, a cooldown per shop, the queue log | cycle, check, alert, trigger; edits by the API | a restock is alerted on once and queued once |
| Runtime manager (`api/services/runtime_manager.py`) | runtime task, once/timer state | start, stop, restart, once, clear stale actions | at most one runtime; resources closed after their users |
| Filters, settings, migrations, API, dashboard | see `PROJECT.json` | | |

What is hard here, and hardly reached by the tests: the worker thread, the timer
thread, the event loop and the API threads interleave between any two lock
sections; a browser call may take effect and raise; any database write may raise
`locked`; the process may die between a click and its record; the operator's
clear runs in the middle of all that; and a job may report to the anti-ban
manager long after the state it was admitted under is gone; four writers compare a
product's row with an answer that was true a while ago; and a shop may show any
page at any time, or take a click whose answer never arrives. `PROJECT.json` lists
each hazard at its line, with the properties that would catch it.

## The modules

### SeleniumDispatcher

The dispatcher, its worker's loop, the lifecycle calls, a "once" run's `join`
and "clear stale actions". A job is its key `site|case|external_id`.

- `_lock` is held throughout a clear (`clearing # NotClearing`), which is three
  actions: `ClearBegin`, one `ClearTake` per `get_nowait`, `ClearFinish`. The
  queue has a mutex of its own, so `WorkerGet` may fall in between; `mark_started`
  needs `_lock` and may not.
- `submit` enqueues under `_lock` and starts the worker after releasing it:
  `SubmitEnqueue`, then `SubmitStart`. A refused submit changes nothing and starts
  nothing, so it has no action.
- `Start` has one disjunct per outcome: refused, started, refused by another live
  worker, the factory raises, the thread's start raises.
- `stop` sets the event (`StopRequest`) and joins with a timeout: `StopJoined` or
  `StopTimedOut`.
- the worker thread is a program counter: `check`, `idle`, `got`, `started`,
  `finished`, `exiting`, `dead`. It dies when the finally block's log write raises
  (`WorkerDies`, before mark_finished and task_done); recording a failure may raise
  inside the except block (`WorkerRaises`): the finally block still settles the
  job, then the thread ends.
- `raced` is a history variable: a clear dropped the key of a job taken and not
  yet marked started.

`MCSeleniumDispatcher` gives it three keys on two sites.

### PocketGamesPurchase

The same queue, reduced (a clear's drain is one step, which is enough when all
jobs are of one site), and the persistent purchase rows with every writer:

- `ScanReserve`, then `ScanSubmit` (reservation and submit are separate);
  `WatchlistSubmit` submits without a reservation, as the code does;
- the worker: `Take`, `MarkStarted` (arms the watchdog), `PrepareReserve` or
  `PrepareSkip`, `AddToCart`, `Checkout`, `ClickPay`, `RecordSubmitted`,
  `RecordOutcome`, `Leave`, `Finish`; from any step it may go to `HandlerRaises`
  and `RecordFailure`;
- the watchdog: `WatchdogFires` sets `timed_out`, `WatchdogCloses` closes the
  browser later; `Leave` is the finally block, which records a timed-out job's
  failure again;
- `ClearJobs`, then `ClearRows` (memory first, then rows older than the cutoff);
  `Crash` loses everything but the rows.

The shop is external: `ClickPay` may be accepted, refused, or accepted with the
call raising. The page behind the click is external too, and the code knows the
outcome only from it: `DetectPurchaseResult` looks for phrases anywhere in the page's
text or source, those of a failure first. `Markers` are the two kinds of phrase a page
may carry, a page is any set of them, and it is `Truthful` when a failure phrase is there
only if the shop declined, and no thanks if it did. The fault `misread` admits the others.

`charged`, `exposed` and `orphaned` are history variables. `exposed`
records, per product, four events after which the code may forget a payment:
`unrecorded` (nothing recorded the submit), `timeout` (the watchdog fired while
the job ran), `before_check` (a job failed before its duplicate check and the
failure path overwrote the row) and `misread` (the words of the page belied what the
shop did). The safety properties say that *nothing else* leads to a second payment:
that the shop's pages are truthful is a hypothesis of theirs, not a fact about the code.

`PurchaseLedger` is what the rows promise the operator, without queue, threads or
exceptions: one entry per product, at most one purchase in flight, which starts from an
open entry and never returns a paid one to it; confirmed is only what was paid for, and
what nobody knows goes to review. An entry is void once an exposing event has hit its
product. `Entry(k)` reads the ledger off the model: while the worker handles the product
its place decides (before the click `claimed`; after it `paid` or `declined`, as the shop
decided), otherwise the row does. Reservations and queued jobs are open entries: they
bind nobody yet. `KeepsLedger` is the refinement.

A dead worker thread stays dead in this module; reviving workers is
SeleniumDispatcher's subject.

### AntiBan

One layer of one site; layers and sites share no state, and the worker and parser
layers are both covered by the choice of `layer` in `Init`. Asking is
`Allow`, `MarkOp`, `UseHalfOpenProbe`, then `Fetch` (parser), `Submit` or
`SubmitRefused` (worker). The coroutine does not await in between, but the worker
thread may report. Jobs wait and run as in the dispatcher; they end with
`ReportSuccess`, `ReportDeny` or, where the code says so, without a report
(`EndUnreported`, `Clear`, `SubmitRefused`: the set `Drops`). `DenySeconds` covers the backoff,
its jitter and `Retry-After`. Time is relative: `cooldown` and `interval` count
down. A layer asks from one coroutine only, so `admission` is one value.

### RuntimeManager

Several runtimes, the requests that stop, restart and shut down, and the one
worker slot of the process. A runtime has four parts that end at different times,
and the module keeps them apart: its concurrent `future`, the `phase` of its
coroutine, its dispatcher's `lifecycle` and that dispatcher's `worker` thread.

- `Schedule` is `_schedule_runtime`, for `start`, once runs and the timer (no
  thread of the timer is modelled: it may call whenever it likes).
- The coroutine: `Boot` to its first await (registers the context), the prewarm in
  a pool thread (`PrewarmStart`, which a cancellation does not recall), scans that
  submit, then the finally block: await the heartbeat, `CleanupStop`,
  `CleanupStopped` (the loop is blocked in between, `LoopFree`), `CleanupClose` or
  `CleanupRaises`. `CancelArrives` has the places where a cancellation skips that
  block: before the first step, in the prewarm, and in the block's own await.
- A request takes a snapshot of future and context under the lock (`Snapshot`), then cancels
  (the future is done at once), runs the done callback in its own thread, stops
  the dispatcher twice, and only then does `restart` look at `status()`. A
  shutdown sets its flag before and stops the loop after.
- A stop of a dispatcher is three steps under its lifecycle lock. `StopBegin` tells the
  worker; then `worker.shutdown()` waits for the driver lock and quits the browser
  (`lifecycle` is "stopping"), until `BrowserCloses`; only then comes the join with its
  timeout ("joining", `StopEnd`). The close has no timeout in the code
  (`selenium_dispatcher.py:133-139`, `selenium_worker.py:521`) and no fairness here.
- A manual watchlist scan (`Borrow`) keeps the dispatcher it asked for.

The dispatcher is SeleniumDispatcher's, reduced to what start and stop do to the
lifecycle and the thread; `told` folds the stop event into the thread's state.
`Runtimes` are numbered in the order of scheduling; the loop boots them in that
order, which `ContextIsCurrent` depends on.

### WorkerBrowser

The one Chrome of the worker and the threads that share it: the worker's loop,
the pool thread that prewarms and preloads, the watchdog of every job, the loop's
thread that reconfigures the warm tabs, and the thread that stops the worker.

- Who drives the browser holds `_action_lock`, who starts or ends it holds
  `_driver_lock`; a close takes only the latter, so it happens under whoever drives.
  Starting and quitting Chrome take seconds, so each is two actions with the lock
  held in between (`CloseBegins`/`CloseEnds`, `EnsureDriver`/`InitDriver`).
- `browsers` are the processes alive, `driver` and `chromePid` what the worker
  knows of them. `CloseOldAppDriverProcesses` is the set the clean-up kills: every
  marked Chrome when there is no driver, else the ones that do not count as the
  driver's. `RefreshProcessTracking` may adopt a half-started one.
- A job: `TakeJob` arms its timer, then `LockForJob`, `StartAction`, the handler,
  `Settle` (cancels the timer, judges a time-out), `RebuildDriver`, `MarkFinished`.
  The timer is `DogFires`, `DogCloses`, `DogEnds`, in a thread of its own.
- Warm tabs: `ConfigureWarmTabs` replaces them at any time, `IdleTick` refreshes
  one, `LoadBegins`, `LoadOpens`, `LoadEnds`, `LoadFails` are a load and the access
  controller's cooldown, probe and recovery.

Events of the environment (a crash of Chrome, a kill or a start that fails, a
start that fails halfway, a stop, a challenge page) are bounded by `MaxEvents`.
`hist` records the named causes the properties except.

### ShopAnswers and StockTracking

`ShopAnswers` is pure: for a product that is in or out of stock, the statuses
each shop's listing parser and watch check can draw from an honest page, with the
order of their tests (what is a positive phrase, a negative one that contains it,
an HTTP class, a challenge). Statuses the code treats alike are one label, and
`pdp` and `listed` are two names for available, because that is what makes two
writers disagree. A 404 is `missing`: the check stores it, and because it is none of the
unsuccessful statuses of `update_watchlist_check` (`sqlite.py:875-885`) it is a
conclusive negative, which re-arms the alert. A page of Bol that says "niet op
voorraad" is available, as the code's substring test has it.

`StockTracking` has the rows and everyone who reads and writes them. An action is
the code between two awaits.

- The scan: `ScanFetches`, `ScanUpserts` (all rows in one transaction),
  then item by item `ScanItem`, `ScanSent`; it may fail after the upsert.
- A tracker (the loop's, a manual scan's): `LoopCycle`/`ManualScan` read the rows
  once, then per product `CheckSkips`, `CheckUnsafe` (an address that is not the
  shop's: the status read at the start of the cycle is written back) or `CheckAnswers`,
  `CheckSent` (the alert is
  out, in every mode), `CheckSubmits`; `CheckFails` when sending raises. The bound of 0.9
  on the confidence has no action: every available answer of the four checks has 0.97
  or more, and a target.
- `BuildFetches`/`BuildUpserts`, `AddManual`, `Archive`, `Pause`, `Resume`,
  `ToggleFilter` are the API's threads; `Restart` ends the coroutines where they are;
  `Flip` is the shop's stock, `WindowEnds` the ten minutes of the queue log.

`hist` counts the alerts and jobs of the current availability and records why one
may be missing or doubled.

### Ordering and Checkout

`Ordering` is the abstract promise of the handlers of MediaMarkt, Dreamland and Bol:
a worker runs the jobs of a shop one after another; a job puts its product into the
basket, on top of what earlier jobs left there, orders the whole basket at most once, and
ends. A second unit or a second order is allowed only to a job that lost an answer of the
shop, and so is a failure after an order; a job that is timed out may have ordered.
Several jobs may be for one product, because it is asked for again when a job of it has
ended. `Baskets` has the jobs, their products and the quantities both modules use.

What the promise is worth for a retry: a job that put its unit and failed, and the retry
that puts another and orders both, buy two units with every answer received. The code
does that, and `BoughtPerJob` says it exactly: no more units of a product than there were
jobs for it, unless one of them, or a later job, lost an answer.

`Checkout` is the three handlers. `at` is the place in the code; a definition
holds for all shops unless a guard names one, and the differences are
data: `Steps` (what each handler recognises), `InCheckout`, `Gates` (where each calls
`wait_if_queue`), `LedTo` (the pages that confirm a click).

- Adding: `OpenProduct`, `CheckProducts`, `PressAdd`, `ConfirmAdd`, `CartCheck`;
  `WarmAdd`/`WarmConfirm` on MediaMarkt's warm tab; `AddByUrl` at Bol.
- The checkout: `First`, `Recheck`, then at most `MaxRounds` rounds of `Look` (the
  step recognised) and an `ActOn...` for that step, which may by then meet another
  page; `Led`, `Posted` are the waits behind a click, `ActOnUnknown` the recovery.
  Bol has no rounds: `LeaveBasket`, `LogIn`.
- Paying: `PayAnswered`, `PayUnanswered` (the shop took it, the call raised),
  `NoPayButton`, `Paid`, `AnswerUnread`.
- The shop is external: `Show` lets any page follow any click, `PageChanges` changes
  it unasked, `SellsOut` changes the stock; the basket is emptied by an order and
  outlives the job. Two things are assumed of it: what a pay button orders is what
  the basket held when its page was shown, and the page behind an order stays.

Clicks that are tried by text, by locator and by script are one click that is
repeated while it raises. A job may end after adding (the case `add_to_cart`).
However a handler ends, its watchdog may have fired before, and the job is then
`timed_out` (`Leave`), an order it made notwithstanding. With `queue_check_enabled` off the
waiting room is not looked for (`InRoom`).
`Promise == INSTANCE Ordering WITH running <- (at # "idle")` is the refinement
mapping; the other variables have the same names.

### JobQueueFacts

Lemmas about `Append` and `Tail`, shared by the proofs.

## Runs

| run | question | bounds | distinct states |
|---|---|---|---|
| `dispatcher` | accounting, duplicates, stop verdict, join; accepted jobs are taken up | 3 keys, 2 sites, queue of 3, one worker death, all events | 271,662 |
| `purchase_safety` | one payment, payments remembered, reservations backed; do the rows implement PurchaseLedger? | 1 product, queue of 2, 3 payments, all faults | 266,844 |
| `purchase_retry` | is auto-retry blocked after an unknown outcome? (no) | 1 product, the watchdog only | violated |
| `antiban` | breaker, probes, cooldown, half open ends | 2 denies open, 1 probe, backoff 1·2ⁿ capped at 3, jitter 1, Retry-After 5, 2 waiting jobs | 9,205 |
| `antiban_stuck` | does half open always end? (no) | as above, only unreported outcomes | violated |
| `runtime` | wanted runtime, context, one worker, quiet after close, shutdown | 2 callers, 2 runtimes, boots, logs and workers that fail | 6,564,624 |
| `runtime_live` | cancelled runtimes end, requests are answered | 1 caller, 2 runtimes, a manual scan | 484,907 |
| `browser` | a job keeps its browser, no Chrome is left over, jobs end | 2 jobs, 1 warm tab, 5 sessions, one event of any kind | 766,696 |
| `stock` | one alert and one job per restock, none missed | 1 product, 4 shops, 2 changes of stock, one fault or request | 1,491,447 |
| `stock_requeue` | is unchanged stock quiet? (no) | 1 product at PocketGames, no fault | violated |
| `stock_soldout` | is a sold-out product never alerted on? (no) | 1 product at MediaMarkt, no change, no fault | violated |
| `checkout` | do the handlers implement Ordering? | 3 shops, 2 jobs, 2 products (symmetric), 6 rounds, 2 surprises | 6,898,186 |

Why the bounds are enough. *Keys and sites*: a clear treats jobs of its site and
of others differently and a duplicate needs two jobs of one key; two keys of one
site and one of another show both at once. *Queue length* 3 holds a cleared, a
kept and a racing job together. *One product*: rows do not interact; only the
queue order couples products, and the proofs hold for any number. *Three payments*
allow a second and one more. *MaxDenies* is one above the threshold, so
that the breaker opens, reopens from half open and stays open; `Compute` is monotone and
takes an uncapped and a capped value. *MaxDeaths* 1: a second death needs a
second thread and repeats the first one's accounting. *Two runtimes* are an old
one still ending and the wanted one; the proofs cover any number. *Two callers* let
a shutdown meet a restart, and two stops meet at one dispatcher; the timer and
`start` come on top. The manual scan is in the run with one caller, where its
interleavings fit. *Two jobs in the browser*, one with a warm tab: a late watchdog
meets the next job. Five sessions are more than can be alive at once, so a name is
never missing. *One product in the stock run*: rows do not interact, but for the
shop's cooldown, which one product sees as an interruption. Two changes of stock
are an outage and a restock on top of either start. *Two jobs at checkout*: the first leaves a basket, the
second orders it; with two products they are of one or of different ones. Six rounds is
the code's number. Two surprises are, for instance, an add and an order whose answers are
lost, or one of them and a page that changes under the handler; pages that follow a click
or leave the waiting room do not count. The run makes the products symmetric, which is
sound because no definition names one and its properties are about safety.

**Properties.** Each passing run has its type invariant and the
properties in `PROJECT.json`, stated with comments in the modules. The ones a
reader should look at first: `TasksBalance`, `AtMostOneJobPerKey`,
`PendingKeysAreJobs`, `JoinWaitsForJobs`; `ChargedOnce`, `PaymentRemembered`,
`QueuedIsBacked`, `KeepsLedger`; `ProbeBudget`, `HalfOpenResolves`; `WantedIsCurrent`,
`ContextIsCurrent`, `ShutdownIsFinal`; `JobKeepsBrowser`, `JobEnds`; `AlertsOnce`,
`NoSilentRestock`; `ImplementsOrdering`, `OrdersKept`. Each
property has a mutant: a definition named after the one it would replace
(`ReportDeny_Replaces` for `ReportDeny`), a plausible bug under which TLC finds the
property violated.

**Deadlock.** Checked where it is not said otherwise: `purchase_retry` has a
bounded number of payments and no crash and may come to rest; in the runs of
RuntimeManager a system that is shut down rests, and that its requests do not
wait for each other is `CallsReturn`; in `browser` a stopped worker rests, and that
no job waits for ever is `JobEnds`; in `checkout` the jobs run out, and each place of
a handler has a step for every page.

**Fairness.** Weak fairness only, and only for threads that are under way: the
worker's loop, the tail of a submit, a clear once begun, a waiting `join()`, and not a
stop, which closes a browser first; in AntiBan the coroutine after `allow()` answered, the
worker, and the end of an operation (fetches and jobs have timeouts); in
RuntimeManager the event loop while the manager is open and the threads with a
request, and nothing of the worker, the pool or the scans. The join of a stop returns
because it has a timeout, but the close of the browser before it has none, so
`BrowserCloses` is not fair: `CancelledEnds` is stated for behaviours in which no stop is
for ever in a close (`BrowsersClose`), `CallsReturn` for a request whose own dispatcher's
close ends, whatever else blocks the loop. In WorkerBrowser the steps of threads that hold
or wait for a lock, the timer, and a handler whose browser is gone (its next call raises);
a handler whose browser lives may hang, and it is the watchdog that must end it. That
Chrome starts, quits and loads a page in bounded time is an assumption there: the code
sets a timeout for page loads, and none around `driver.quit()` or the start. In StockTracking the
watchlist loop's next cycle, the answer to a check of its own, and the end of its
cooldown: it alone brings the alert about, so scans and manual checks need not go on. Checkout states no fairness and no
liveness: its handlers are sequential, and JobEnds bounds them from outside.
That somebody submits, asks, clears, stops, crashes or dies is never assumed.
The liveness properties of `dispatcher` are stated for behaviours in which the
operator's clears end (`ClearsEnd`: each clear may win the race with the worker) and
no worker that was started ends (`Undisturbed`), because a dead worker *does* leave
jobs waiting and `join()` hanging: see `selenium_dispatcher.py:72` and
`runtime_manager.py:492`.

## Proofs

TLAPS, for every value of the constants that satisfies the named assumptions.

| module | theorems |
|---|---|
| `SeleniumDispatcherProofs` | TypeCorrect, TasksBalanced, OneJobPerKey, PendingKeysTrue, StoppedIsStopped, JoinIsSound, ExactWithoutClears |
| `PocketGamesPurchaseProofs` | TypeCorrect, NoDoubleCharge, PaymentsRemembered, ReservationsBacked, SettledStays, PaidOnceUndisturbed, RowsAreALedger, LedgerPaysOnce, LedgerKept |
| `AntiBanProofs` | TypeCorrect, BreakerIsRight, ProbesBounded, ProbesOutstanding, DenyKeepsCooldown |
| `RuntimeManagerProofs` | TypeCorrect, WantedRuntimeIsCurrent, CurrentContext, SingleWorker, QuietAfterClose, FinalShutdown |
| `CheckoutProofs` | OrderingKept, TypeCorrect, HandlersOrder, CheckoutKept |
| `WorkerBrowserProofs` | TypeCorrect, BrowserKept, NoOrphans, DriversChromeOnly |
| `StockTrackingProofs` | StockTypes, AlertedOnce, NoneMissed, OneJobPerWindow, CandidScans |

`JobQueueFacts` has the lemmas about queues that the dispatcher, the purchase and the
anti-ban share. Each other module has an inductive invariant `IInv`, a lemma per action (or
small group) that preserves it, and from these the theorem that it holds throughout
(`Invariance`, `BrowserInvariant`, `StockInvariant`); the others follow.
Every invariant and every action property that a passing run checks is stated by one
of these theorems.

- **Dispatcher.** `AtMostOneJobPerKey` is not inductive: nothing in it says that
  the key of the job being run is in `running`, that jobs are held back only
  inside a clear, or that a clear's held-back jobs are of other sites. `KeptInv`
  and `RaceFree` say so. `TasksBalance` and `StoppedMeansNoThread` hold
  whether or not the race happened; `RaceFree` only when it did not, and the proof
  shows that the race window is the *only* way to a duplicate.
- **Purchase.** The proof follows the payment: before the click the row is not a
  settled one (`UnpaidInv`); between click and record the job remembers
  (`ClickInv`); afterwards the row does (`PaymentRemembered`); the failure paths
  meet a paid row only as `payment_submitted`, which they turn into a review
  (`FailingInv`), unless the watchdog fired (`WatchdogInv`).
- **Ledger.** The refinement, from the same invariant. An entry is in flight only for
  the product in hand (`EntryFacts`), so a claim finds no other: with one product the run
  cannot show this, the theorem does for any number. Scans, watchlist, queue, clears and
  the failure paths leave every entry as it is (`AroundStays`): a failure meets an unpaid
  row, keeps a review (`FailingInv`), or finds the entry void (`WatchdogInv`). An exception
  or a crash before the click opens the entry again, because the row is not a settled one
  (`UnpaidInv`); after the submit is recorded it leaves a review (`WaitingInv`).
  `RowsAreALedger` is `Spec => Ledger!Spec`; `LedgerPaysOnce` is about the ledger
  alone, and `LedgerKept` puts them together.
- **Anti-ban.** The budget is read by `allow()` and used two calls later.
  `AskingInv` says that while the breaker is half open the answer under way is a
  probe and its budget is still there: a report in between leaves half open, and
  only the one asker brings it back. `BudgetInv` then counts.
- **Runtimes.** `FutureInv` says that the current runtime is the latest scheduled
  and that a callback under way belongs to a cancelled future; then no callback can
  lose the wanted one. `BootInv` says that the loop boots in the order of
  scheduling, so a context registered late is that of an earlier runtime and is
  overwritten. `SlotInv` ties the running thread to the slot. `QuietInv` follows
  who may still start a worker once the finally block has stopped it.
  `ShutdownInv` says, for each point of a shutdown request, which future may still
  be pending; it holds because the flag is set before the snapshot is taken.

- **Browser.** `Control` says where each thread can be with which errand, `Locks`
  that the driver lock and the action lock are held by whoever is inside their
  blocks. `Timers` carries `JobKeepsBrowser`: a timer that can still fire is the
  current job's or that of a job that had overrun, because once a job has settled
  its own is cancelled, or had fired. `OneChrome` is `NoOrphanBrowser`
  made inductive: the browser alive is the one the pid names, and there is none
  while the driver lock is held, so a start never finds another.
- **Stock.** The invariant goes product by product, over the alerts that are out and
  those still on their way. `ScanOnce`: the scan's alert is out or under way, never
  both, and once it is out the row says "in", so that no listing is a transition.
  `WatchOnce`: after the watchlist's alert the row says available, or will when
  the job is submitted, and the check that has read its row compares with an
  available status. `NoneSilent`: an available status was alerted on, or
  the scan's alert is under way. `OneJob`: a job of the window is in the action log, and
  nobody is past the look at it. The exceptions are marks in `hist` that the
  steps set themselves (`misread`, `rearmed`, `overlap`, `excused`, `raced`), and the proof
  shows that no other step breaks a promise. A step concerns one product, or the
  loop's or the scan's share of each; `UntouchedKept` settles the others. `IInv` was
  model-checked before it was proved.
- **Ordering.** `BoughtPerJob` counts units over several jobs. `PromiseUnits` counts those
  in the basket, those sold (an order only moves them) and the one the running job has yet
  to put (`Waiting`): together they are no more than the jobs of the product, unless an
  answer was lost since (`Lost`). A new job is one more on both sides. `PromiseFuture` says
  that a job to come has left no trace, and `PromiseOrder` that an order repeated by a job
  with a lost answer holds only what this job or an earlier one was for.
- **Checkout.** The refinement. `IInv` ties the page to the books: the pay button's
  offer is the basket, or, after an order whose answer was lost, that order again
  (`OfferInv`); once a job has ordered, the handler is at its last two places with an
  empty basket (`OrderedInv`); before the click that adds, a unit of the product is there
  only over a lost answer (`AddingInv`). Most actions only look at pages: `BrowseStep` says
  what such a step may do, one lemma shows that it keeps the invariant and maps to a
  stutter or to `End`, and each action is shown to be one. The four others map to
  `Begin`, `Put`, `Place` and `Repeat`. `HandlersOrder` is then
  `Spec => Promise!Spec`, and `CheckoutKept` carries `OrderingKept` over to the handlers.

Four theorems say where the exceptions of the others come from, by proving the
promise without them. `ExactWithoutClears`: with no clear, the
dispatcher's duplicate check has no gap. `PaidOnceUndisturbed`: with no timeout, raise,
lost click, misread page or crash, nobody pays twice, whatever clears, lost writes and the
watchlist do. `DriversChromeOnly`: with no failed kill and no half start, the one
Chrome is the driver's, across crashes, timers and refreshes. `CandidScans`: where a listing
never denies what the shop has (`PocketGamesCandid`: PocketGames' JSON is one), the
scan alerts once, because an "out" that is upserted over an available product was fetched before
it came back.

Assumptions: sentinels differ from keys, and jobs from the names of threads; bounds
are naturals; `SiteOf` maps keys to sites and `TargetOf` jobs to products; events,
faults, drops, shops and modes are among the named ones; the anti-ban policy
is of natural numbers with a threshold of at least one, the number of runtimes, jobs,
rounds and surprises is a natural, and `BackoffAssumption`
says that its backoffs are too (seconds are integers here). TLC evaluates them.

The bounds are part of the specifications, so the theorems hold for each value of
them, which is for every finite number of jobs, payments and denies.

Only model-checked: liveness (`PendingKeysSettle`, `JoinReturns`, `QueuedResolves`,
`HalfOpenResolves`, `CancelledEnds`, `CallsReturn`, `JobEnds`, `RestockTold`), which is
beyond this prover, as is `ENABLED`. The four properties that are violated have
their counterexamples in the runs.

## Findings

1. **Unknown outcome becomes failed** (`purchase_retry`). A watchdog that fires
   after the handler recorded `unknown_needs_review` (or `purchase_confirmed`) and
   before `timer.cancel()` has the finally block overwrite it by `failed`, which
   no longer blocks a retry, against "Auto-retry blocked"
   (`pocketgames_worker.py:669`).
2. **Half open for ever** (`antiban_stuck`). A half-open probe whose job ends
   without a report leaves the breaker half open with its budget used; no timer
   ends that. Documented is "OPEN -> HALF_OPEN -> CLOSED" (`antiban.py:97`).
   Only a success or deny of another job – the watchlist's, which do not ask –
   gets the layer out of it.
3. **Unchanged stock alerts again** (`stock_requeue`). The scan's upsert and the watch
   check store different words for the same stock in the same column, so the next
   check sees a change, alerts, and after ten minutes queues the job again.
4. **Sold out is available** (`stock_soldout`). `_extract_stock` tests for
   "available" and "leverbaar" before it tests for "unavailable" and "niet leverbaar".

Seen while modelling; the properties name these cases as their exceptions, or they
are outside every property:

- The outcome of a PocketGames payment is read from phrases anywhere in the page's text or
  source, those of a failure first, from the first poll after the click
  (`pocketgames_worker.py:309-405`, `:330`): a shop whose accepting page carries one, in a
  footer or a script, has its payment recorded as `failed` (`:634`), which blocks no
  retry, and any page that says "bedankt" confirms a declined one (`misread`).
- `dispatcher.stop()` closes the browser before its bounded join
  (`selenium_dispatcher.py:133-139`): it waits for the driver lock and in `driver.quit()`
  without a timeout (`selenium_worker.py:521`), so `stop(timeout=5)` may never return, and
  with it the event loop that calls it.
- A 404 is stored as a negative (`sqlite.py:875-885`, and
  `tests/test_watchlist_priority.py:580-604` asks for it): a product page that is missing
  for a moment has the same stock alerted on again (`rearmed`).
- Bol's check takes "niet op voorraad" on a product page for available
  (`watchlist.py:812-814`: "op voorraad" is a part of it). `AlertsOnce` does not mind;
  which alerts are wrong is asked of the scan only (`SoldOutIsSilent`).
- Two jobs of one product, the first of which put its unit and failed, buy two units of
  it although no answer was lost; and a job reported `timed_out` may have ordered
  (`selenium_worker.py:3548-3590`).
- A clear that drops the pending key of a job taken and not yet marked started lets
  the same key be queued a second time (`selenium_dispatcher.py:313`; `raced`). The
  purchase rows still prevent a double payment for PocketGames.
- `future.cancel()` completes the future at once, so `restart()` starts the next
  runtime while the old one still cleans up (`runtime_manager.py:148`). What keeps this
  from doing harm is what the `runtime` properties say.
- A cancellation during the prewarm or in the finally block's own await leaves the
  connection open (`runtime_manager.py:465` and `:498`); a worker started by a late
  prewarm then holds the slot, and the next runtime's worker is refused; the prewarm and
  the preload look at no stop event, and may start a Chrome after the worker's end.
- A watchdog starts before the action lock is waited for, and closes whatever browser is
  current when it fires (`selenium_worker.py:3242-3246`): a handler may run unguarded,
  or lose its browser to the previous job's timer.
- A start of Chrome that fails halfway (`selenium_worker.py:3090`) leaves a process that
  a snapshot may adopt as the driver's.
- An alert that cannot be sent raises (`telegram.py:55`): a watch check's row is not
  written, and the scan drops its remaining items, whose upserts are committed.
- Blocked and throttled answers replace the last known status (`watchlist.py:889`).
- The watchlist alerts before it looks at `action_mode` (`watchlist.py:984`).
- Dreamland and Bol repeat a click that raised, the one that pays included; the basket of a
  failed or add-only job is ordered by the next one (`cart_contains_target` is computed,
  not required: `dreamland_worker.py:634`); Bol asks for the browser's address behind the
  payment outside any try (`bol_worker.py:218`), so an order may end as a failure.
- MediaMarkt reports success once the payment method is chosen, with nothing ordered
  (`mediamarkt_worker.py:2182`), and swallows what its pay click raises. `OrdersKept`
  speaks of failures, not of successes.

## Not modelled

- Formatting, logging, texts of alerts, HTTP handlers, extraction of titles, prices and
  sellers: no state the properties speak of. Runtime logging swallows its errors,
  except where noted. Alerts of a price or a seller are left out.
- The fields a checkout page asks for; the parts of MediaMarkt's warm path that measure time.
- Filters (text matching on one item), archiving rules, exports, the settings backup's
  order of writes, migrations and their lock, endpoint circuits and token refresh
  of the access controller, the dashboard.
- Dispatcher snapshots and the forwarding of warm-tab calls only read.
- Sub-second time, and the exact lengths of cooldowns.

## Plan

What would come next, in this order:

1. `MigrationLock`: takeover of a stale lock, backup before migrate, and the order of
   the settings restore.
2. `AccessControl`: endpoint circuits and the token refresh of MediaMarkt's requests.
