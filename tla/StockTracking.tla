---------------------------- MODULE StockTracking ----------------------------
(***************************************************************************)
(* How a restock is noticed: the listing scan, the watchlist loop, a       *)
(* manual watchlist scan and build_from_filters share two tables, products *)
(* and priority_watchlist, and decide from the change between a row and    *)
(* what a shop answers whether to alert and to queue a job.                *)
(*                                                                         *)
(* The scan and the loop are coroutines of the runtime; manual scans,      *)
(* builds and the operator's edits run in threads of the API.  An action   *)
(* is the code between two awaits.  All products are of one shop: shops    *)
(* share no row, no cooldown and no scan.                                  *)
(*                                                                         *)
(* What the shops answer, and the labels of the inventory statuses, are in *)
(* ShopAnswers.                                                            *)
(***************************************************************************)
EXTENDS Naturals, FiniteSets, ShopAnswers

CONSTANTS
    Products,
    NoProduct,
    Shops,         \* the shops to look at, one of them per behaviour
    Modes,         \* ACTION_MODE values to look at
    MaxFlips,      \* bound on the changes of stock per product
    MaxEvents      \* bound on failed or wrong answers, failed sends, crashes
                   \* and requests of the operator, together

Trackers == {"loop", "manual"}

\* Statuses a row can have (the labels of ShopAnswers), and a product that is
\* not on the pages a scan reads.
Absent == "absent"
Statuses == Available \cup {"unknown", "out", "blocked", "missing"}

ASSUME StockAssumption ==
    /\ NoProduct \notin Products
    /\ Shops \subseteq Retailers
    /\ Modes \subseteq {"off", "notify_only", "selenium"}
    /\ MaxFlips \in Nat /\ MaxEvents \in Nat

VARIABLES
    shop, mode,    \* fixed by the configuration
    stock,         \* what the shop really has: "in" or "out"
    filtered,      \* an enabled filter matches the product
    product,       \* products: "none", or is_available as "in" / "out"
    watch,         \* priority_watchlist, one row per product
    scan,          \* the listing scan under way
    check,         \* per tracker, the check of each product under way
    cooldown,      \* per tracker, the shop's cooldown is running
    build,         \* build_from_filters: a listing read and not yet stored
    recent,        \* a selenium_queue log row of the last ten minutes
    spent,         \* [flips, events] used of the bounds
    hist           \* history, see NoHistory

vars == <<shop, mode, stock, filtered, product, watch, scan, check, cooldown,
          build, recent, spent, hist>>

shopVars == <<shop, mode, stock, filtered>>

-----------------------------------------------------------------------------
(* The rows.                                                               *)

NoRow == [row |-> "none", status |-> "unknown", pinned |-> FALSE]

\* upsert_watchlist_entry: the status is replaced whatever it says, enabled
\* and archived_at are kept.
UpsertWatchlistEntry(p, status, pin) ==
    watch' = [watch EXCEPT ![p] =
                 [row |-> IF @.row = "none" THEN "live" ELSE @.row,
                  status |-> status,
                  pinned |-> @.pinned \/ pin]]

\* Mutants: the status of a failed check is stored as well; the status an
\* alert was sent for is not.
UpdateWatchlistCheckAlways(p, status) == watch' = [watch EXCEPT ![p].status = status]
UpdateWatchlistCheckNegative(p, status) ==
    watch' = IF status \in Available \cup {"failed"} THEN watch
             ELSE [watch EXCEPT ![p].status = status]

\* update_watchlist_check keeps the status only of an unsuccessful check.
UpdateWatchlistCheck(p, status) ==
    watch' = IF status = "failed" THEN watch
             ELSE [watch EXCEPT ![p].status = status]

\* upsert_items without reconcile_missing, which no parser asks for: the
\* products seen, and those whose availability is a purchase transition
\* (new_item or restock).
Seen(list) == {p \in Products : list[p] # Absent}
Fresh(list) == {p \in Seen(list) : list[p] \in Available /\ product[p] # "in"}

UpsertItems(list) ==
    product' = [p \in Products |->
                   IF p \notin Seen(list) THEN product[p]
                   ELSE IF list[p] \in Available THEN "in" ELSE "out"]

-----------------------------------------------------------------------------
(* History, per product, of the current availability.                      *)

\* scan, watch  alerts of the two sources (more than two are not told apart)
\* excused      the product may stay unreported: its row turned available in
\*              a way the code does not alert on (see NoSilentRestock)
\* rearmed      after an alert the row's status changed although the stock
\*              did not, so that the watchlist sees a new restock
\* misread      the same of the products row and the scan
\* overlap      both trackers had a check of the product under way
\* bought       jobs the watchlist queued in the last ten minutes
\* raced        both trackers found nothing queued in that time
NoHistory ==
    [scan |-> 0, watch |-> 0, excused |-> FALSE, rearmed |-> FALSE,
     misread |-> FALSE, overlap |-> FALSE, bought |-> 0, raced |-> FALSE]

Capped(n) == IF n < 2 THEN n + 1 ELSE n

Told(h) == h.scan + h.watch > 0

\* status is stored in p's row, and no alert goes with it.
Stored(h, p, status) ==
    IF stock[p] = "out" \/ status = "failed" THEN h
    ELSE [h EXCEPT !.rearmed = @ \/ (h.watch > 0 /\ status # watch[p].status),
                   !.excused = @ \/ (status \in Available /\ ~Told(h))]

\* The same, and an alert is to follow.
Reported(h, p, status) == [Stored(h, p, status) EXCEPT !.excused = h.excused]

ToldByScan(h, p) == IF stock[p] = "in" THEN [h EXCEPT !.scan = Capped(@)] ELSE h

ToldByWatch(h, p) == IF stock[p] = "in" THEN [h EXCEPT !.watch = Capped(@)] ELSE h

\* A watchlist alert after which the row was not written, or one for which a row
\* that was available has changed.
Rearmed(h, p) == IF stock[p] = "in" THEN [h EXCEPT !.rearmed = TRUE] ELSE h

\* A restock the scan committed and then did not report.
Dropped(h, p) == IF stock[p] = "in" /\ ~Told(h) THEN [h EXCEPT !.excused = TRUE] ELSE h

\* A listing takes back what was alerted on, although the stock did not change.
Misread(h, p) == IF stock[p] = "in" /\ h.scan > 0 THEN [h EXCEPT !.misread = TRUE] ELSE h

Overlapped(h, p) == IF stock[p] = "in" THEN [h EXCEPT !.overlap = TRUE] ELSE h

Raced(h) == [h EXCEPT !.raced = TRUE]

Bought(h) == [h EXCEPT !.bought = Capped(@)]

-----------------------------------------------------------------------------
NoScan == [at |-> "idle", list |-> [p \in Products |-> Absent], fresh |-> {},
           todo |-> {}, sending |-> NoProduct]
NoCheck == [at |-> "idle", prev |-> "unknown", pinned |-> FALSE, label |-> "pdp"]

Init ==
    /\ shop \in Shops
    /\ mode \in Modes
    /\ stock \in [Products -> {"in", "out"}]
    /\ filtered = [p \in Products |-> TRUE]
    /\ product = [p \in Products |-> "none"]
    /\ watch = [p \in Products |-> NoRow]
    /\ scan = NoScan
    /\ check = [t \in Trackers |-> [p \in Products |-> NoCheck]]
    /\ cooldown = [t \in Trackers |-> FALSE]
    /\ build = [p \in Products |-> Absent]
    /\ recent = [p \in Products |-> FALSE]
    /\ spent = [flips |-> 0, events |-> 0]
    /\ hist = [p \in Products |-> NoHistory]

\* Fault also bounds answers that say nothing of the stock.
Fault == spent.events < MaxEvents /\ spent' = [spent EXCEPT !.events = @ + 1]
Request == Fault
FaultUnless(fine) == IF fine THEN UNCHANGED spent ELSE Fault

\* Mutant: the submit is not logged.
SubmitUnlogged(p) == UNCHANGED recent

\* Every submit is logged, accepted by the dispatcher or not.
Submit(p) == recent' = [recent EXCEPT ![p] = TRUE]

-----------------------------------------------------------------------------
(* The listing scan: run_site from the fetch on.                           *)

ScanFetches ==
    /\ scan.at = "idle"
    /\ \E list \in [Products -> Statuses \cup {Absent}] :
        /\ \A p \in Products : list[p] \in Listing(shop, stock[p]) \cup {Absent}
        /\ FaultUnless(\A p \in Products : Conclusive(list[p]))
        /\ scan' = [NoScan EXCEPT !.at = "fetched", !.list = list]
    /\ UNCHANGED <<shopVars, product, watch, check, cooldown, build, recent, hist>>

ScanUpserts ==
    /\ scan.at = "fetched"
    /\ UpsertItems(scan.list)
    /\ scan' = [scan EXCEPT !.at = "items", !.fresh = Fresh(scan.list),
                            !.todo = Seen(scan.list)]
    /\ hist' = [p \in Products |->
                   IF scan.list[p] \in {"out", "blocked"} THEN Misread(hist[p], p) ELSE hist[p]]
    /\ UNCHANGED <<shopVars, watch, check, cooldown, build, recent, spent>>

\* One item, up to the alert: without a matching filter nothing happens,
\* otherwise the watchlist row is stored and a transition is reported unless
\* the mode is off.
ScanItem ==
    /\ scan.at = "items" /\ scan.sending = NoProduct
    /\ \E p \in scan.todo :
        LET reports == filtered[p] /\ p \in scan.fresh /\ mode # "off" IN
        /\ IF filtered[p] THEN UpsertWatchlistEntry(p, scan.list[p], FALSE)
           ELSE UNCHANGED watch
        /\ scan' = [scan EXCEPT !.todo = @ \ {p}, !.fresh = @ \ {p}, !.list[p] = Absent,
                                !.sending = IF reports THEN p ELSE NoProduct]
        /\ hist' = [hist EXCEPT ![p] =
                       LET stored == IF filtered[p] THEN Stored(@, p, scan.list[p]) ELSE @
                       IN  IF reports THEN Reported(@, p, scan.list[p])
                           ELSE IF p \in scan.fresh THEN Dropped(stored, p) ELSE stored]
    /\ UNCHANGED <<shopVars, product, check, cooldown, build, recent, spent>>

\* The alert is out; in mode selenium a job follows, or the anti-ban manager
\* refuses it, which is logged as a selenium_queue row too.
ScanSent ==
    /\ scan.sending # NoProduct
    /\ LET p == scan.sending IN
        /\ hist' = [hist EXCEPT ![p] = ToldByScan(@, p)]
        /\ IF mode = "selenium" THEN Submit(p) ELSE UNCHANGED recent
    /\ scan' = [scan EXCEPT !.sending = NoProduct]
    /\ UNCHANGED <<shopVars, product, watch, check, cooldown, build, spent>>

\* notifier.send raises, delivered or not, or another step of an item does:
\* the scan ends with processing_failed and the items left are not looked at.
ScanFails ==
    /\ scan.at = "items"
    /\ Fault
    /\ \E delivered \in BOOLEAN :
        /\ delivered => scan.sending # NoProduct
        /\ hist' = [p \in Products |->
               IF p = scan.sending /\ delivered THEN ToldByScan(hist[p], p)
               ELSE IF p = scan.sending \/ p \in scan.todo \cap scan.fresh
               THEN Dropped(hist[p], p) ELSE hist[p]]
    /\ scan' = NoScan
    /\ UNCHANGED <<shopVars, product, watch, check, cooldown, build, recent>>

ScanEnds ==
    /\ scan.at = "items" /\ scan.sending = NoProduct /\ scan.todo = {}
    /\ scan' = NoScan
    /\ UNCHANGED <<shopVars, product, watch, check, cooldown, build, recent, spent, hist>>

-----------------------------------------------------------------------------
(* A watchlist tracker: scan_once and _scan_one_guarded.                   *)

Due(p) == [at |-> "due", prev |-> watch[p].status, pinned |-> watch[p].pinned, label |-> "pdp"]

\* Once it has something to report, a check needs the new status only.
Sending(status) == [at |-> "sending", prev |-> "unknown", pinned |-> FALSE, label |-> status]

Resting(t) == \A p \in Products : check[t][p].at = "idle"

\* The rows are read once; each check compares with what was read then.
CycleOf(t, items) ==
    /\ Resting(t)
    /\ items # {}
    /\ check' = [check EXCEPT ![t] = [p \in Products |-> IF p \in items THEN Due(p) ELSE NoCheck]]
    /\ hist' = [p \in Products |->
                   IF p \in items /\ \E u \in Trackers \ {t} : check[u][p].at # "idle"
                   THEN Overlapped(hist[p], p) ELSE hist[p]]
    /\ UNCHANGED <<shopVars, product, watch, scan, build, recent>>

\* list_watchlist(enabled=True) leaves archived rows out.
LoopCycle ==
    /\ CycleOf("loop", {p \in Products : watch[p].row = "live"})
    /\ UNCHANGED <<cooldown, spent>>

\* A manual scan has a tracker of its own, without the loop's cooldowns; one
\* of a single item takes the row as it is, archived ones included.
ManualScan ==
    /\ \E items \in {{p \in Products : watch[p].row = "live"}} \cup
                    {{p} : p \in {q \in Products : watch[q].row # "none"}} :
           CycleOf("manual", items)
    /\ cooldown' = [cooldown EXCEPT !["manual"] = FALSE]
    /\ Request

SetCheck(t, p, c) == check' = [check EXCEPT ![t][p] = c]

\* In a cooldown the check is recorded as rate_limited_unknown.
CheckSkips(t, p) ==
    /\ check[t][p].at = "due" /\ cooldown[t]
    /\ UpdateWatchlistCheck(p, "failed")
    /\ SetCheck(t, p, NoCheck)
    /\ UNCHANGED <<shopVars, product, scan, cooldown, build, recent, spent, hist>>

\* The row's address is not one of the shop's: the status the cycle has read
\* is written back.
CheckUnsafe(t, p) ==
    LET c == check[t][p] IN
    /\ c.at = "due"
    /\ Fault
    /\ UpdateWatchlistCheck(p, c.prev)
    /\ hist' = [hist EXCEPT ![p] = Stored(@, p, c.prev)]
    /\ SetCheck(t, p, NoCheck)
    /\ UNCHANGED <<shopVars, product, scan, cooldown, build, recent>>

\* The shop answers.  A status that differs from the one read at the start
\* of the cycle and means available is reported, for a wanted product
\* (every check gives such a status with a target and a confidence of at
\* least 0.97, so the lower bound of 0.9 refuses none); anything else is
\* stored at once.
CheckAnswers(t, p) ==
    LET c == check[t][p] IN
    /\ c.at = "due" /\ ~cooldown[t]
    /\ \E answer \in CheckItem(shop, stock[p]) :
        LET changed == c.prev # answer.status
            reports == changed /\ answer.status \in Available /\ (filtered[p] \/ c.pinned)
        IN
        /\ FaultUnless(Conclusive(answer.status))
        /\ cooldown' = [cooldown EXCEPT ![t] = @ \/ answer.denied]
        /\ IF reports
           THEN /\ SetCheck(t, p, Sending(answer.status))
                /\ hist' = [hist EXCEPT ![p] = IF c.prev \in Available THEN Rearmed(@, p) ELSE @]
                /\ UNCHANGED watch
           ELSE /\ SetCheck(t, p, NoCheck)
                /\ UpdateWatchlistCheck(p, answer.status)
                /\ hist' = [hist EXCEPT ![p] = Stored(@, p, answer.status)]
    /\ UNCHANGED <<shopVars, product, scan, build, recent>>

\* The alert is out, whatever the mode.  A job follows in mode selenium
\* unless one was logged in the last ten minutes; it is submitted in a
\* further step, because another thread's tracker may have looked as well.
CheckSent(t, p) ==
    LET c == check[t][p] IN
    /\ c.at = "sending"
    /\ IF mode = "selenium" /\ ~recent[p]
       THEN /\ SetCheck(t, p, [c EXCEPT !.at = "submitting"])
            /\ hist' = [hist EXCEPT ![p] =
                   IF \E u \in Trackers : check[u][p].at = "submitting"
                   THEN Raced(ToldByWatch(@, p)) ELSE ToldByWatch(@, p)]
            /\ UNCHANGED watch
       ELSE /\ SetCheck(t, p, NoCheck)
            /\ hist' = [hist EXCEPT ![p] = ToldByWatch(@, p)]
            /\ UpdateWatchlistCheck(p, c.label)
    /\ UNCHANGED <<shopVars, product, scan, cooldown, build, recent, spent>>

CheckSubmits(t, p) ==
    LET c == check[t][p] IN
    /\ c.at = "submitting"
    /\ Submit(p)
    /\ hist' = [hist EXCEPT ![p] = Bought(@)]
    /\ SetCheck(t, p, NoCheck)
    /\ UpdateWatchlistCheck(p, c.label)
    /\ UNCHANGED <<shopVars, product, scan, cooldown, build, spent>>

\* Mutant: the row is written before the alert is sent.
CheckFailsWritten(t, p) ==
    /\ check[t][p].at = "sending"
    /\ Fault
    /\ SetCheck(t, p, NoCheck)
    /\ UpdateWatchlistCheck(p, check[t][p].label)
    /\ UNCHANGED <<shopVars, product, scan, cooldown, build, recent, hist>>

\* notifier.send raises, delivered or not, out of _scan_one_guarded: the
\* row keeps its old status.
CheckFails(t, p) ==
    /\ check[t][p].at = "sending"
    /\ Fault
    /\ SetCheck(t, p, NoCheck)
    /\ \E delivered \in BOOLEAN :
           hist' = IF delivered
                   THEN [hist EXCEPT ![p] = Rearmed(ToldByWatch(@, p), p)]
                   ELSE hist
    /\ UNCHANGED <<shopVars, product, watch, scan, cooldown, build, recent>>

\* Mutant: a cooldown lasts.
CooldownLasts(t) == cooldown[t] /\ UNCHANGED vars

CooldownEnds(t) ==
    /\ cooldown[t]
    /\ cooldown' = [cooldown EXCEPT ![t] = FALSE]
    /\ UNCHANGED <<shopVars, product, watch, scan, check, build, recent, spent, hist>>

\* The runtime is stopped or dies: its coroutines end where they are, and a
\* tracker under way may have sent its alert.
Restart ==
    /\ Fault
    /\ \E sent \in SUBSET {p \in Products : check["loop"][p].at = "sending"} :
           hist' = [p \in Products |->
               IF p \in sent THEN Rearmed(ToldByWatch(hist[p], p), p)
               ELSE IF check["loop"][p].at = "submitting" THEN Rearmed(hist[p], p)
               ELSE IF p = scan.sending \/ p \in scan.todo \cap scan.fresh
               THEN Dropped(hist[p], p) ELSE hist[p]]
    /\ scan' = NoScan
    /\ check' = [check EXCEPT !["loop"] = [p \in Products |-> NoCheck]]
    /\ cooldown' = [cooldown EXCEPT !["loop"] = FALSE]
    /\ UNCHANGED <<shopVars, product, watch, build, recent>>

-----------------------------------------------------------------------------
(* The API's threads.                                                      *)

\* build_from_filters reads a listing and stores every match; it reports
\* nothing.
BuildFetches(p) ==
    /\ build[p] = Absent
    /\ Request
    /\ \E label \in Listing(shop, stock[p]) : build' = [build EXCEPT ![p] = label]
    /\ UNCHANGED <<shopVars, product, watch, scan, check, cooldown, recent, hist>>

BuildUpserts(p) ==
    /\ build[p] # Absent
    /\ build' = [build EXCEPT ![p] = Absent]
    /\ IF filtered[p]
       THEN /\ UpsertWatchlistEntry(p, build[p], FALSE)
            /\ hist' = [hist EXCEPT ![p] = Stored(@, p, build[p])]
       ELSE UNCHANGED <<watch, hist>>
    /\ UNCHANGED <<shopVars, product, scan, check, cooldown, recent, spent>>

\* add_manual stores the status unknown, over a known row as well, and leaves
\* an archived row archived.
AddManual(p) ==
    /\ Request
    /\ UpsertWatchlistEntry(p, "unknown", TRUE)
    /\ hist' = [hist EXCEPT ![p] = Stored(@, p, "unknown")]
    /\ UNCHANGED <<shopVars, product, scan, check, cooldown, build, recent>>

SetRow(p, from, to) ==
    /\ watch[p].row \in from
    /\ Request
    /\ watch' = [watch EXCEPT ![p].row = to]
    /\ UNCHANGED <<shopVars, product, scan, check, cooldown, build, recent, hist>>

\* delete_watchlist_item
Archive(p) == SetRow(p, {"live", "paused"}, "archived")

\* update_watchlist_item with enabled; an archived row stays hidden.
Pause(p) == SetRow(p, {"live"}, "paused")
Resume(p) == SetRow(p, {"paused"}, "live")

ToggleFilter(p) ==
    /\ Request
    /\ filtered' = [filtered EXCEPT ![p] = ~@]
    /\ UNCHANGED <<shop, mode, stock, product, watch, scan, check, cooldown, build, recent,
                   hist>>

-----------------------------------------------------------------------------
(* The world.                                                              *)

\* A row that says available when the product comes back, or is about to,
\* never showed that it was gone.
Unseen(p) ==
    \/ watch[p].status \in Available
    \/ \E t \in Trackers : check[t][p].at = "submitting"

Both(p, places) == \A t \in Trackers : check[t][p].at \in places

NewEpisode(h, p) ==
    [scan |-> 0, watch |-> 0, rearmed |-> FALSE, misread |-> FALSE,
     excused |-> stock[p] = "out" /\ Unseen(p),
     overlap |-> stock[p] = "out" /\ Both(p, {"due", "sending", "submitting"}),
     bought |-> h.bought, raced |-> h.raced]

Flip(p) ==
    /\ spent.flips < MaxFlips
    /\ spent' = [spent EXCEPT !.flips = @ + 1]
    /\ stock' = [stock EXCEPT ![p] = IF @ = "in" THEN "out" ELSE "in"]
    /\ hist' = [hist EXCEPT ![p] = NewEpisode(@, p)]
    /\ UNCHANGED <<shop, mode, filtered, product, watch, scan, check, cooldown, build, recent>>

NewWindow(h, p) == [h EXCEPT !.bought = 0, !.raced = Both(p, {"submitting"})]

\* Ten minutes pass after the last selenium_queue row.
WindowEnds(p) ==
    /\ recent[p]
    /\ recent' = [recent EXCEPT ![p] = FALSE]
    /\ hist' = [hist EXCEPT ![p] = NewWindow(@, p)]
    /\ UNCHANGED <<shopVars, product, watch, scan, check, cooldown, build, spent>>

-----------------------------------------------------------------------------
ScanStep == ScanFetches \/ ScanUpserts \/ ScanItem \/ ScanSent \/ ScanFails \/ ScanEnds

CheckStep(t, p) ==
    \/ CheckSkips(t, p) \/ CheckUnsafe(t, p) \/ CheckAnswers(t, p) \/ CheckSent(t, p)
    \/ CheckSubmits(t, p) \/ CheckFails(t, p)

OperatorStep(p) ==
    \/ BuildFetches(p) \/ BuildUpserts(p) \/ AddManual(p)
    \/ Archive(p) \/ Pause(p) \/ Resume(p) \/ ToggleFilter(p)

Next ==
    \/ ScanStep
    \/ LoopCycle \/ ManualScan \/ Restart
    \/ \E t \in Trackers : CooldownEnds(t)
    \/ \E t \in Trackers, p \in Products : CheckStep(t, p)
    \/ \E p \in Products : OperatorStep(p) \/ Flip(p) \/ WindowEnds(p)

Spec == Init /\ [][Next]_vars

\* The watchlist's loop runs on, its checks are answered or time out, and its
\* cooldown ends.  Nothing is assumed of the scan, of a manual scan's thread or
\* of the operator.
Fairness ==
    /\ WF_vars(LoopCycle)
    /\ WF_vars(CooldownEnds("loop"))
    /\ \A p \in Products : WF_vars(CheckSkips("loop", p) \/ CheckAnswers("loop", p)
                                   \/ CheckSent("loop", p) \/ CheckSubmits("loop", p))

FairSpec == Spec /\ Fairness

-----------------------------------------------------------------------------
(* Properties.                                                             *)

\* Every variable has its type.
Labels == Statuses \cup {Absent}
TypeOK ==
    /\ shop \in Shops /\ mode \in Modes
    /\ stock \in [Products -> {"in", "out"}]
    /\ filtered \in [Products -> BOOLEAN]
    /\ product \in [Products -> {"none", "in", "out"}]
    /\ watch \in [Products -> [row : {"none", "live", "paused", "archived"},
                               status : Statuses, pinned : BOOLEAN]]
    /\ scan \in [at : {"idle", "fetched", "items"}, list : [Products -> Labels],
                 fresh : SUBSET Products, todo : SUBSET Products,
                 sending : Products \cup {NoProduct}]
    /\ check \in [Trackers -> [Products ->
                     [at : {"idle", "due", "sending", "submitting"}, prev : Statuses,
                      pinned : BOOLEAN, label : Available]]]
    /\ cooldown \in [Trackers -> BOOLEAN]
    /\ build \in [Products -> Labels]
    /\ recent \in [Products -> BOOLEAN]
    /\ spent \in [flips : 0..MaxFlips, events : 0..MaxEvents]
    /\ hist \in [Products -> [scan : 0..2, watch : 0..2, excused : BOOLEAN, rearmed : BOOLEAN,
                              misread : BOOLEAN, overlap : BOOLEAN, bought : 0..2,
                              raced : BOOLEAN]]

\* An availability is alerted on once by the scan and once by the watchlist.
\* More alerts need a listing that misread the stock (scan), or (watchlist) a
\* row that was changed in between although the stock was not, an alert whose
\* row was not written, or two trackers on the product at once.
AlertsOnce == \A p \in Products :
    /\ hist[p].scan <= 1 \/ hist[p].misread
    /\ hist[p].watch <= 1 \/ hist[p].rearmed \/ hist[p].overlap

\* Nobody is at p.
Quiet(p) ==
    /\ \A t \in Trackers : check[t][p].at \notin {"sending", "submitting"}
    /\ scan.sending # p /\ p \notin scan.todo

\* A product whose row says available, and is, was alerted on; it may only
\* go unreported if its row never showed the outage, if a listing turned the
\* row available without a transition of the products row, if a check
\* compared with a status read before another writer changed it, if nobody
\* wanted it, or if the scan failed after it committed the transition.
NoSilentRestock == \A p \in Products :
    stock[p] = "in" /\ watch[p].status \in Available /\ Quiet(p)
        => Told(hist[p]) \/ hist[p].excused

\* However often the watchlist is re-armed, it queues one job for a product
\* in ten minutes, unless two trackers look for the last one together.
BuysOncePerWindow == \A p \in Products : hist[p].bought <= 1 \/ hist[p].raced

\* What the test of that name says of the pipeline, of the running system:
\* an available product whose stock does not change is not alerted on again.
UnchangedIsQuiet ==
    [][\A p \in Products : stock[p] = stock'[p] => hist'[p].watch <= 1]_vars

\* What MediaMarkt's _extract_stock says of itself: a product whose stock is
\* not proved counts as unavailable, so a shop that says it is sold out, and
\* whose stock does not change, causes no alert of the scan.
SoldOutIsSilent == \A p \in Products : scan.sending = p => stock[p] = "in"

\* As long as the product stays and is watched and wanted, somebody is told,
\* or it is one of the cases above.
RestockTold == \A p \in Products :
    stock[p] = "in" /\ watch[p].row = "live"
        ~> \/ Told(hist[p]) \/ hist[p].excused
           \/ stock[p] = "out" \/ watch[p].row # "live" \/ ~filtered[p]
=============================================================================
