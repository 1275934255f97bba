------------------------- MODULE StockTrackingProofs -------------------------
(***************************************************************************)
(* Theorems about StockTracking, for any number of products, changes of    *)
(* stock, faults and requests: nobody is told of a restock more often than *)
(* once by each source, none goes unreported, and one job is queued for it *)
(* in ten minutes, but for the cases the properties name.                  *)
(*                                                                         *)
(* The inductive invariant says, product by product, what the alerts that  *)
(* are out and those on their way have to do with the rows of the two      *)
(* tables.  A step concerns one product, or the loop's or the scan's share *)
(* of each: the products it leaves alone keep the invariant by             *)
(* UntouchedKept, and a part of the invariant that a step has nothing to   *)
(* do with is kept by that part's lemma.                                   *)
(***************************************************************************)
EXTENDS StockTracking, TLAPS

\* The types of the records.
Histories == [scan : 0..2, watch : 0..2, excused : BOOLEAN, rearmed : BOOLEAN,
              misread : BOOLEAN, overlap : BOOLEAN, bought : 0..2, raced : BOOLEAN]
Rows == [row : {"none", "live", "paused", "archived"}, status : Statuses, pinned : BOOLEAN]
Checks == [at : {"idle", "due", "sending", "submitting"}, prev : Statuses,
           pinned : BOOLEAN, label : Available]
Scans == [at : {"idle", "fetched", "items"}, list : [Products -> Labels],
          fresh : SUBSET Products, todo : SUBSET Products,
          sending : Products \cup {NoProduct}]

\* An alert of the scan is on its way: the row of products has changed.  No
\* listing says that it does not know or find, and the items left are on it.
Pending(p) == scan.sending = p \/ p \in scan.fresh

ScanInv ==
    /\ scan.at # "items" => scan.sending = NoProduct /\ scan.fresh = {}
    /\ \A p \in Products :
          /\ Pending(p) => product[p] = "in"
          /\ scan.sending = p => p \notin scan.fresh
          /\ scan.list[p] \notin {"unknown", "missing"}
          /\ p \in scan.todo => scan.list[p] # Absent

\* After the scan's alert the row says "in", so that no listing is a transition.
ScanOnce(p) ==
    /\ stock[p] = "out" => hist[p].scan = 0
    /\ stock[p] = "in" /\ ~hist[p].misread =>
          /\ hist[p].scan <= 1
          /\ hist[p].scan > 0 => product[p] = "in" /\ ~Pending(p)

\* After the watchlist's alert the row says available, or will when the job is
\* submitted, and the check under way compares with an available status.
Active(t, p) == check[t][p].at # "idle"
Submitting(p) == \E t \in Trackers : check[t][p].at = "submitting"
WatchOnce(p) ==
    /\ stock[p] = "out" => hist[p].watch = 0
    /\ stock[p] = "in" /\ ~hist[p].overlap =>
          /\ \E t \in Trackers : ~Active(t, p)
          /\ ~hist[p].rearmed =>
                /\ hist[p].watch <= 1
                /\ hist[p].watch > 0 =>
                      /\ \A t \in Trackers :
                            /\ check[t][p].at # "sending"
                            /\ check[t][p].at = "due" => check[t][p].prev \in Available
                      /\ watch[p].status \in Available \/ Submitting(p)

\* An available status was alerted on, or is about to be; a job is submitted
\* after the alert.
Answered(p) == Told(hist[p]) \/ hist[p].excused
NoneSilent(p) ==
    stock[p] = "in" =>
        /\ watch[p].status \in Available => Answered(p) \/ scan.sending = p
        /\ Submitting(p) => Answered(p)

\* A job of the window is logged, and only one is queued or about to be.
OneJob(p) ==
    /\ hist[p].bought > 0 => recent[p]
    /\ ~hist[p].raced =>
          /\ hist[p].bought <= 1
          /\ \E t \in Trackers : check[t][p].at # "submitting"
          /\ hist[p].bought > 0 => ~Submitting(p)

ProductInv(p) == ScanOnce(p) /\ WatchOnce(p) /\ NoneSilent(p) /\ OneJob(p)

\* TypeOK, with names for the types.
WorldTypes ==
    /\ shop \in Shops /\ mode \in Modes
    /\ stock \in [Products -> {"in", "out"}]
    /\ filtered \in [Products -> BOOLEAN]
    /\ product \in [Products -> {"none", "in", "out"}]
    /\ cooldown \in [Trackers -> BOOLEAN]
    /\ build \in [Products -> Labels]
    /\ recent \in [Products -> BOOLEAN]
    /\ spent \in [flips : 0..MaxFlips, events : 0..MaxEvents]
Types ==
    /\ WorldTypes
    /\ watch \in [Products -> Rows]
    /\ scan \in Scans
    /\ check \in [Trackers -> [Products -> Checks]]
    /\ hist \in [Products -> Histories]

\* The inductive invariant.
IInv ==
    /\ Types
    /\ ScanInv
    /\ \A p \in Products : ProductInv(p)

-----------------------------------------------------------------------------
\* What a listing says: never that it does not know, or that it failed.
LEMMA ListingFacts ==
  ASSUME NEW s \in Stock, NEW seller \in Retailers
  PROVE  Listing(seller, s) \subseteq Available \cup {"out", "blocked"}
  <1>1. MediaMarktListing[s] \subseteq Available \cup {"out", "blocked"}
    <2>1. \A inStock, cart, softDeny :
              ClassifyProductAvailability(inStock, cart, softDeny)
                  \in Available \cup {"out", "blocked"}
      BY DEF ClassifyProductAvailability, Available
    <2>2. \A source : BuildPageItems(s, source) \subseteq Available \cup {"out", "blocked"}
      BY <2>1 DEF BuildPageItems
    <2> QED
      BY <2>2 DEF MediaMarktListing
  <1>2. DreamlandListing[s] \subseteq Available \cup {"out", "blocked"}
    BY DEF DreamlandListing, EnrichOne, BuildListingItem, DreamlandLabel, Available
  <1>3. BolListing[s] \subseteq Available \cup {"out", "blocked"}
    BY DEF BolListing, Available
  <1>4. PocketGamesListing[s] \subseteq Available \cup {"out", "blocked"}
    BY DEF PocketGamesListing, Available
  <1> QED
    BY <1>1, <1>2, <1>3, <1>4 DEF Listing, Retailers

\* A check has an answer that is a status, or none.
LEMMA CheckFacts ==
  ASSUME NEW s \in Stock, NEW seller \in Retailers, NEW answer \in CheckItem(seller, s)
  PROVE  answer.status \in Statuses \cup {"failed"}
  <1> DEFINE Labeled(x) == x.status \in Available \cup {"out", "blocked", "missing", "failed"}
  <1>1. \A status, denied : Answer(status, denied).status = status
    BY DEF Answer
  <1>2. \A x \in MediaMarktCheck[s] : Labeled(x)
    <2>1. \A page : ClassifyPdpSignals(page) \in Available \cup {"out", "blocked", "failed"}
      BY DEF ClassifyPdpSignals, Available
    <2> QED
      BY <2>1 DEF MediaMarktCheck, ParsePdpHtml, Answer
  <1>3. \A x \in DreamlandCheck[s] : Labeled(x)
    <2>1. \A status : DreamlandLabel(status) \in Available \cup {"out", "blocked"}
      BY DEF DreamlandLabel, Available
    <2>2. \A fetched, code, status : Labeled(DreamlandAnswer(fetched, code, status))
      <3> TAKE fetched, code, status
      <3> DEFINE label == CASE fetched = "deny"  -> "failed"
                            [] fetched = "error" -> IF code = "404" THEN "missing" ELSE "failed"
                            [] OTHER -> IF status = "purchasable" THEN "pdp"
                                        ELSE DreamlandLabel(status)
      <3>1. label \in Available \cup {"out", "blocked", "missing", "failed"}
        BY <2>1 DEF Available
      <3>2. DreamlandAnswer(fetched, code, status).status = label
        <4>1. CASE fetched = "deny"
          BY <4>1 DEF DreamlandAnswer, Answer
        <4>2. CASE fetched = "error" /\ code = "404"
          BY <4>2 DEF DreamlandAnswer, Answer
        <4>3. CASE fetched = "error" /\ code # "404"
          BY <4>3 DEF DreamlandAnswer, Answer
        <4>4. CASE fetched \notin {"deny", "error"}
          BY <4>4 DEF DreamlandAnswer, Answer
        <4> QED
          BY <4>1, <4>2, <4>3, <4>4
      <3> QED
        BY <3>1, <3>2
    <2> QED
      BY <2>2 DEF DreamlandCheck
  <1>4. \A x \in BolCheck[s] : Labeled(x)
    <2>1. \A text, offer : BolPage(text, offer) \in Available \cup {"out", "failed"}
      BY DEF BolPage, Available
    <2> QED
      BY <2>1 DEF BolCheck, Answer
  <1>5. \A x \in PocketGamesCheck[s] : Labeled(x)
    <2>1. \A code : Labeled(PocketGamesAnswer(s, code))
      BY <1>1 DEF PocketGamesAnswer, Available
    <2> QED
      BY <2>1 DEF PocketGamesCheck
  <1>6. Labeled(answer)
    BY <1>2, <1>3, <1>4, <1>5 DEF CheckItem, Retailers
  <1> QED
    BY <1>6 DEF Statuses

\* What each operator on the history does to the fields of one.
LEMMA StoredFacts ==
  ASSUME NEW h \in Histories, NEW p, NEW status
  PROVE  /\ Stored(h, p, status) \in Histories
         /\ \A f \in {"scan", "watch", "misread", "overlap", "bought", "raced"} :
                Stored(h, p, status)[f] = h[f]
         /\ h.excused => Stored(h, p, status).excused
         /\ h.rearmed => Stored(h, p, status).rearmed
         /\ stock[p] # "out" /\ status # "failed" =>
               /\ h.watch > 0 /\ status # watch[p].status => Stored(h, p, status).rearmed
               /\ status \in Available => Told(h) \/ Stored(h, p, status).excused
  BY DEF Stored, Histories

LEMMA ReportedFacts ==
  ASSUME NEW h \in Histories, NEW p, NEW status
  PROVE  /\ Reported(h, p, status) \in Histories
         /\ \A f \in {"scan", "watch", "excused", "misread", "overlap", "bought", "raced"} :
                Reported(h, p, status)[f] = h[f]
         /\ h.rearmed => Reported(h, p, status).rearmed
         /\ stock[p] # "out" /\ status # "failed" /\ h.watch > 0 /\ status # watch[p].status =>
               Reported(h, p, status).rearmed
  BY DEF Reported, Stored, Histories

LEMMA ToldByScanFacts ==
  ASSUME NEW h \in Histories, NEW p
  PROVE  /\ ToldByScan(h, p) \in Histories
         /\ \A f \in {"watch", "excused", "rearmed", "misread", "overlap", "bought", "raced"} :
                ToldByScan(h, p)[f] = h[f]
         /\ ToldByScan(h, p).scan = IF stock[p] = "in" THEN Capped(h.scan) ELSE h.scan
  BY DEF ToldByScan, Capped, Histories

LEMMA ToldByWatchFacts ==
  ASSUME NEW h \in Histories, NEW p
  PROVE  /\ ToldByWatch(h, p) \in Histories
         /\ \A f \in {"scan", "excused", "rearmed", "misread", "overlap", "bought", "raced"} :
                ToldByWatch(h, p)[f] = h[f]
         /\ ToldByWatch(h, p).watch = IF stock[p] = "in" THEN Capped(h.watch) ELSE h.watch
  BY DEF ToldByWatch, Capped, Histories

LEMMA RearmedFacts ==
  ASSUME NEW h \in Histories, NEW p
  PROVE  /\ Rearmed(h, p) \in Histories
         /\ \A f \in {"scan", "watch", "excused", "misread", "overlap", "bought", "raced"} :
                Rearmed(h, p)[f] = h[f]
         /\ h.rearmed => Rearmed(h, p).rearmed
         /\ stock[p] = "in" => Rearmed(h, p).rearmed
  BY DEF Rearmed, Histories

LEMMA DroppedFacts ==
  ASSUME NEW h \in Histories, NEW p
  PROVE  /\ Dropped(h, p) \in Histories
         /\ \A f \in {"scan", "watch", "rearmed", "misread", "overlap", "bought", "raced"} :
                Dropped(h, p)[f] = h[f]
         /\ h.excused => Dropped(h, p).excused
         /\ stock[p] = "in" => Told(h) \/ Dropped(h, p).excused
  BY DEF Dropped, Histories

LEMMA MisreadFacts ==
  ASSUME NEW h \in Histories, NEW p
  PROVE  /\ Misread(h, p) \in Histories
         /\ \A f \in {"scan", "watch", "excused", "rearmed", "overlap", "bought", "raced"} :
                Misread(h, p)[f] = h[f]
         /\ h.misread => Misread(h, p).misread
         /\ stock[p] = "in" /\ h.scan > 0 => Misread(h, p).misread
  BY DEF Misread, Histories

LEMMA OverlappedFacts ==
  ASSUME NEW h \in Histories, NEW p
  PROVE  /\ Overlapped(h, p) \in Histories
         /\ \A f \in {"scan", "watch", "excused", "rearmed", "misread", "bought", "raced"} :
                Overlapped(h, p)[f] = h[f]
         /\ h.overlap => Overlapped(h, p).overlap
         /\ stock[p] = "in" => Overlapped(h, p).overlap
  BY DEF Overlapped, Histories

LEMMA RacedFacts ==
  ASSUME NEW h \in Histories
  PROVE  /\ Raced(h) \in Histories
         /\ \A f \in {"scan", "watch", "excused", "rearmed", "misread", "overlap", "bought"} :
                Raced(h)[f] = h[f]
         /\ Raced(h).raced
  BY DEF Raced, Histories

LEMMA BoughtFacts ==
  ASSUME NEW h \in Histories
  PROVE  /\ Bought(h) \in Histories
         /\ \A f \in {"scan", "watch", "excused", "rearmed", "misread", "overlap", "raced"} :
                Bought(h)[f] = h[f]
         /\ Bought(h).bought = Capped(h.bought)
  BY DEF Bought, Capped, Histories

\* A new availability starts without alerts.
LEMMA NewEpisodeFacts ==
  ASSUME NEW h \in Histories, NEW p
  PROVE  LET new == NewEpisode(h, p)
         IN  /\ new \in Histories
             /\ new.scan = 0 /\ new.watch = 0
             /\ new.bought = h.bought /\ new.raced = h.raced
             /\ stock[p] = "out" /\ Unseen(p) => new.excused
             /\ stock[p] = "out" /\ Both(p, {"due", "sending", "submitting"}) => new.overlap
  <1>1. Both(p, {"due", "sending", "submitting"}) \in BOOLEAN /\ Unseen(p) \in BOOLEAN
    BY DEF Both, Unseen
  <1> QED
    BY <1>1 DEF NewEpisode, NoHistory, Histories

\* A new window starts without jobs.
LEMMA NewWindowFacts ==
  ASSUME NEW h \in Histories, NEW p
  PROVE  LET new == NewWindow(h, p)
         IN  /\ new \in Histories
             /\ \A f \in {"scan", "watch", "excused", "rearmed", "misread", "overlap"} :
                    new[f] = h[f]
             /\ new.bought = 0
             /\ Both(p, {"submitting"}) => new.raced
  <1> DEFINE counted == [h EXCEPT !.bought = 0]
  <1>1. /\ counted \in Histories
        /\ \A f \in {"scan", "watch", "excused", "rearmed", "misread", "overlap"} :
               counted[f] = h[f]
        /\ counted.bought = 0
    BY DEF Histories
  <1>2. Both(p, {"submitting"}) \in BOOLEAN
    BY DEF Both
  <1>3. NewWindow(h, p) = [counted EXCEPT !.raced = Both(p, {"submitting"})]
    BY DEF NewWindow
  <1> HIDE DEF counted
  <1> QED
    BY <1>1, <1>2, <1>3 DEF Histories

\* No product has a history at first.
LEMMA NoHistoryFacts == NoHistory \in Histories
  BY DEF NoHistory, Histories

-----------------------------------------------------------------------------
\* What each operator on the rows and on the checks does, product by product.
LEMMA UpsertFacts ==
  ASSUME Types, NEW p \in Products, NEW status \in Statuses, NEW pin \in BOOLEAN,
         UpsertWatchlistEntry(p, status, pin)
  PROVE  /\ watch' \in [Products -> Rows]
         /\ watch'[p].status = status
         /\ \A q \in Products : q # p => watch'[q] = watch[q]
  <1> DEFINE row == [row |-> IF watch[p].row = "none" THEN "live" ELSE watch[p].row,
                     status |-> status, pinned |-> watch[p].pinned \/ pin]
  <1>1. watch[p].row \in {"none", "live", "paused", "archived"} /\ watch[p].pinned \in BOOLEAN
    BY DEF Types, Rows
  <1>2. (watch[p].pinned \/ pin) \in BOOLEAN
    OBVIOUS
  <1>3. row \in Rows /\ row.status = status
    BY <1>1, <1>2 DEF Rows
  <1>4. watch' = [watch EXCEPT ![p] = row]
    BY DEF UpsertWatchlistEntry
  <1> HIDE DEF row
  <1> QED
    BY <1>3, <1>4 DEF Types

LEMMA UpdateFacts ==
  ASSUME Types, NEW p \in Products, NEW status \in Statuses \cup {"failed"},
         UpdateWatchlistCheck(p, status)
  PROVE  /\ watch' \in [Products -> Rows]
         /\ watch'[p].status = IF status = "failed" THEN watch[p].status ELSE status
         /\ \A q \in Products : q # p => watch'[q] = watch[q]
  <1>1. CASE status = "failed"
    BY <1>1 DEF UpdateWatchlistCheck, Types
  <1>2. CASE status # "failed"
    <2> DEFINE row == [watch[p] EXCEPT !.status = status]
    <2>1. row \in Rows /\ row.status = status
      BY <1>2 DEF Types, Rows
    <2>2. watch' = [watch EXCEPT ![p] = row]
      BY <1>2 DEF UpdateWatchlistCheck
    <2> HIDE DEF row
    <2> QED
      BY <1>2, <2>1, <2>2 DEF Types
  <1> QED
    BY <1>1, <1>2

LEMMA SetRowFacts ==
  ASSUME Types, NEW p \in Products, NEW from, NEW to \in {"live", "paused", "archived"},
         SetRow(p, from, to)
  PROVE  /\ watch' \in [Products -> Rows]
         /\ \A q \in Products : watch'[q].status = watch[q].status
         /\ spent' \in [flips : 0..MaxFlips, events : 0..MaxEvents]
  <1> DEFINE row == [watch[p] EXCEPT !.row = to]
  <1>1. row \in Rows /\ row.status = watch[p].status
    BY DEF Types, Rows
  <1>2. watch' = [watch EXCEPT ![p] = row]
    BY DEF SetRow
  <1>3. spent' \in [flips : 0..MaxFlips, events : 0..MaxEvents]
    BY StockAssumption DEF SetRow, Request, Fault, Types, WorldTypes
  <1> HIDE DEF row
  <1> QED
    BY <1>1, <1>2, <1>3 DEF Types

LEMMA FaultFacts ==
  ASSUME Types, Fault
  PROVE  spent' \in [flips : 0..MaxFlips, events : 0..MaxEvents]
  BY StockAssumption DEF Fault, Types, WorldTypes

LEMMA SetCheckFacts ==
  ASSUME Types, NEW t \in Trackers, NEW p \in Products, NEW c \in Checks, SetCheck(t, p, c)
  PROVE  /\ check' \in [Trackers -> [Products -> Checks]]
         /\ check'[t][p] = c
         /\ \A u \in Trackers, q \in Products : u # t \/ q # p => check'[u][q] = check[u][q]
  BY DEF SetCheck, Types

LEMMA NoCheckFacts == NoCheck \in Checks /\ NoCheck.at = "idle"
  BY DEF NoCheck, Checks, Statuses, Available

LEMMA DueFacts ==
  ASSUME Types, NEW p \in Products
  PROVE  Due(p) \in Checks /\ Due(p).at = "due" /\ Due(p).prev = watch[p].status
  BY DEF Due, Types, Rows, Checks, Available

LEMMA SendingFacts ==
  ASSUME NEW status \in Available
  PROVE  /\ Sending(status) \in Checks
         /\ Sending(status).at = "sending" /\ Sending(status).label = status
  BY DEF Sending, Checks, Statuses, Available

\* A cycle starts when its tracker rests, and marks the products that the other
\* tracker is at.
LEMMA CycleFacts ==
  ASSUME Types, NEW t \in Trackers, NEW items \in SUBSET Products, CycleOf(t, items)
  PROVE  /\ check' \in [Trackers -> [Products -> Checks]]
         /\ hist' \in [Products -> Histories]
         /\ \A q \in Products :
               /\ ~Active(t, q)
               /\ check'[t][q] = IF q \in items THEN Due(q) ELSE NoCheck
               /\ \A u \in Trackers \ {t} : check'[u][q] = check[u][q]
               /\ hist'[q] = hist[q] \/ hist'[q] = Overlapped(hist[q], q)
               /\ q \in items /\ (\E u \in Trackers \ {t} : Active(u, q))
                     => hist'[q] = Overlapped(hist[q], q)
  <1>1. \A q \in Products : ~Active(t, q)
    BY DEF CycleOf, Resting, Active
  <1>2. /\ check' \in [Trackers -> [Products -> Checks]]
        /\ \A q \in Products :
              /\ check'[t][q] = IF q \in items THEN Due(q) ELSE NoCheck
              /\ \A u \in Trackers \ {t} : check'[u][q] = check[u][q]
    <2> DEFINE cycle == [q \in Products |-> IF q \in items THEN Due(q) ELSE NoCheck]
    <2>1. /\ cycle \in [Products -> Checks]
          /\ \A q \in Products : cycle[q] = IF q \in items THEN Due(q) ELSE NoCheck
      BY DueFacts, NoCheckFacts
    <2>2. check' = [check EXCEPT ![t] = cycle]
      BY DEF CycleOf
    <2> HIDE DEF cycle
    <2> QED
      BY <2>1, <2>2 DEF Types
  <1>3. hist' = [q \in Products |->
                   IF q \in items /\ \E u \in Trackers \ {t} : check[u][q].at # "idle"
                   THEN Overlapped(hist[q], q) ELSE hist[q]]
    BY DEF CycleOf
  <1>4. \A q \in Products : Overlapped(hist[q], q) \in Histories /\ hist[q] \in Histories
    BY OverlappedFacts DEF Types
  <1>5. hist' \in [Products -> Histories]
    BY <1>3, <1>4
  <1> QED
    BY <1>1, <1>2, <1>3, <1>5 DEF Active

-----------------------------------------------------------------------------
\* When each part of the invariant is kept for a product: what a step may do
\* without disturbing it.
LEMMA ScanOnceKept ==
  ASSUME Types, Types', NEW p \in Products, ScanOnce(p),
         stock'[p] = stock[p], product'[p] = product[p], Pending(p)' => Pending(p),
         hist'[p].scan = hist[p].scan, hist[p].misread => hist'[p].misread
  PROVE  ScanOnce(p)'
  BY DEF ScanOnce

LEMMA WatchOnceKept ==
  ASSUME Types, Types', NEW p \in Products, WatchOnce(p), stock'[p] = stock[p],
         \A t \in Trackers : check'[t][p] = check[t][p],
         hist'[p].watch = hist[p].watch,
         hist[p].overlap => hist'[p].overlap, hist[p].rearmed => hist'[p].rearmed,
         \/ watch'[p].status = watch[p].status
         \/ stock[p] = "in" /\ hist[p].watch > 0 => hist'[p].rearmed
  PROVE  WatchOnce(p)'
  BY DEF WatchOnce, Active, Submitting

LEMMA NoneSilentKept ==
  ASSUME Types, Types', NEW p \in Products, NoneSilent(p), stock'[p] = stock[p],
         stock[p] = "in" /\ Answered(p) => Answered(p)',
         stock[p] = "in" /\ watch'[p].status \in Available =>
             watch[p].status \in Available \/ Answered(p)' \/ scan'.sending = p,
         stock[p] = "in" /\ scan.sending = p => scan'.sending = p \/ Answered(p)',
         Submitting(p)' => Submitting(p)
  PROVE  NoneSilent(p)'
  BY DEF NoneSilent

LEMMA OneJobKept ==
  ASSUME Types, Types', NEW p \in Products, OneJob(p), recent[p] => recent'[p],
         hist'[p].bought = hist[p].bought, hist[p].raced => hist'[p].raced,
         \A t \in Trackers : check'[t][p].at = "submitting" => check[t][p].at = "submitting"
  PROVE  OneJob(p)'
  BY DEF OneJob, Submitting

\* A product that a step has nothing to do with.
Untouched(p) ==
    /\ stock'[p] = stock[p] /\ product'[p] = product[p] /\ recent'[p] = recent[p]
    /\ watch'[p].status = watch[p].status /\ hist'[p] = hist[p]
    /\ \A t \in Trackers : check'[t][p] = check[t][p]
    /\ Pending(p)' => Pending(p)
    /\ scan.sending = p => scan'.sending = p

LEMMA UntouchedKept ==
  ASSUME Types, Types', NEW p \in Products, ProductInv(p), Untouched(p)
  PROVE  ProductInv(p)'
  <1>1. ScanOnce(p)'
    BY ScanOnceKept DEF ProductInv, Untouched
  <1>2. WatchOnce(p)'
    BY WatchOnceKept DEF ProductInv, Untouched
  <1>3. Answered(p) => Answered(p)'
    BY DEF Untouched, Answered, Told
  <1>4. Submitting(p)' => Submitting(p)
    BY DEF Untouched, Submitting
  <1>5. NoneSilent(p)'
    BY <1>3, <1>4, NoneSilentKept DEF ProductInv, Untouched
  <1>6. OneJob(p)'
    BY OneJobKept DEF ProductInv, Untouched
  <1> QED
    BY <1>1, <1>2, <1>5, <1>6 DEF ProductInv

-----------------------------------------------------------------------------
(* The scan's steps.                                                       *)

LEMMA ScanFetchesKept == IInv /\ ScanFetches => IInv'
  <1> SUFFICES ASSUME Types, ScanInv, \A p \in Products : ProductInv(p), ScanFetches
               PROVE  IInv'
    BY DEF IInv
  <1>1. scan' \in Scans /\ spent' \in [flips : 0..MaxFlips, events : 0..MaxEvents]
    <2>1. PICK list \in [Products -> Statuses \cup {Absent}] :
              /\ FaultUnless(\A p \in Products : Conclusive(list[p]))
              /\ scan' = [NoScan EXCEPT !.at = "fetched", !.list = list]
      BY DEF ScanFetches
    <2>2. scan' \in Scans
      BY <2>1 DEF NoScan, Scans, Labels
    <2>3. spent' \in [flips : 0..MaxFlips, events : 0..MaxEvents]
      BY <2>1, FaultFacts DEF FaultUnless, Types, WorldTypes
    <2> QED
      BY <2>2, <2>3
  <1>2. Types'
    BY <1>1 DEF ScanFetches, shopVars, Types, WorldTypes
  <1>3. \A p \in Products : scan'.list[p] \notin {"unknown", "missing"}
    <2>1. PICK list \in [Products -> Statuses \cup {Absent}] :
              /\ \A p \in Products : list[p] \in Listing(shop, stock[p]) \cup {Absent}
              /\ scan' = [NoScan EXCEPT !.at = "fetched", !.list = list]
      BY DEF ScanFetches
    <2>2. shop \in Retailers /\ \A p \in Products : stock[p] \in Stock
      BY StockAssumption DEF Types, WorldTypes, Stock
    <2>3. \A p \in Products : list[p] \notin {"unknown", "missing"}
      BY <2>1, <2>2, ListingFacts DEF Available, Absent
    <2> QED
      BY <2>1, <2>3 DEF NoScan
  <1>4. ScanInv' /\ \A p \in Products : Pending(p)' => Pending(p)
    BY <1>3, StockAssumption DEF ScanFetches, NoScan, shopVars, ScanInv, Pending
  <1>5. \A p \in Products : Untouched(p)
    BY <1>4 DEF ScanFetches, NoScan, shopVars, ScanInv, Untouched
  <1> QED
    BY <1>2, <1>4, <1>5, UntouchedKept DEF IInv

\* A product that turns available on the listing is on its way to an alert; one
\* that the listing takes back was reported although it did not go.
LEMMA ScanUpsertsKept == IInv /\ ScanUpserts => IInv'
  <1> SUFFICES ASSUME Types, ScanInv, \A p \in Products : ProductInv(p), ScanUpserts
               PROVE  IInv'
    BY DEF IInv
  <1>1. \A p \in Products :
           /\ hist'[p] \in Histories
           /\ hist'[p] = IF scan.list[p] \in {"out", "blocked"} THEN Misread(hist[p], p)
                         ELSE hist[p]
    BY MisreadFacts DEF ScanUpserts, Types
  <1>2. hist' \in [Products -> Histories]
    BY <1>1 DEF ScanUpserts
  <1>3. scan' \in Scans /\ scan'.at = "items" /\ scan'.sending = scan.sending
        /\ scan'.fresh = Fresh(scan.list) /\ scan'.todo = Seen(scan.list)
        /\ scan'.list = scan.list
    <2>1. Fresh(scan.list) \in SUBSET Products /\ Seen(scan.list) \in SUBSET Products
      BY DEF Fresh, Seen
    <2>2. scan' = [at |-> "items", list |-> scan.list, fresh |-> Fresh(scan.list),
                   todo |-> Seen(scan.list), sending |-> scan.sending]
      BY DEF ScanUpserts, Types, Scans
    <2> QED
      BY <2>1, <2>2 DEF Types, Scans
  <1>4. Types'
    BY <1>2, <1>3 DEF ScanUpserts, UpsertItems, shopVars, Types, WorldTypes
  <1>5. \A p \in Products :
           /\ product'[p] = IF scan.list[p] = Absent THEN product[p]
                            ELSE IF scan.list[p] \in Available THEN "in" ELSE "out"
           /\ p \in scan'.fresh <=> scan.list[p] \in Available /\ product[p] # "in"
    BY <1>3 DEF ScanUpserts, UpsertItems, Fresh, Seen, Absent, Available
  <1>6. scan.sending = NoProduct /\ \A p \in Products : scan.sending # p
    BY StockAssumption DEF ScanUpserts, ScanInv
  <1>7. ScanInv'
    BY <1>3, <1>5, <1>6 DEF ScanInv, Pending, Absent, Available, Seen
  <1>8. ASSUME NEW p \in Products PROVE ProductInv(p)'
    <2>1. hist[p] \in Histories
      BY DEF Types
    <2>2. ScanOnce(p)'
      BY <1>1, <1>3, <1>5, <1>6, <2>1, MisreadFacts
         DEF ScanUpserts, shopVars, ProductInv, ScanInv, ScanOnce, Pending, Types, Scans, Labels,
            Statuses, Absent
    <2>3. hist'[p].watch = hist[p].watch /\ hist'[p].scan = hist[p].scan
          /\ hist'[p].excused = hist[p].excused
          /\ hist'[p].rearmed = hist[p].rearmed /\ hist'[p].overlap = hist[p].overlap
          /\ hist'[p].bought = hist[p].bought /\ hist'[p].raced = hist[p].raced
      BY <1>1, <2>1, MisreadFacts
    <2>4. WatchOnce(p)'
      BY <1>4, <2>3, WatchOnceKept DEF ScanUpserts, shopVars, ProductInv
    <2>5. NoneSilent(p)'
      BY <1>4, <1>6, <2>3 DEF ScanUpserts, shopVars, ProductInv, NoneSilent, Submitting,
         Answered, Told
    <2>6. OneJob(p)'
      BY <1>4, <2>3, OneJobKept DEF ScanUpserts, ProductInv
    <2> QED
      BY <2>2, <2>4, <2>5, <2>6 DEF ProductInv
  <1> QED
    BY <1>4, <1>7, <1>8 DEF IInv

\* What the item's row and history become.  An item that is not reported although
\* it is a transition is excused, and so is one whose row turns available.
ItemHistory(p, reports) ==
    LET stored == IF filtered[p] THEN Stored(hist[p], p, scan.list[p]) ELSE hist[p]
    IN  IF reports THEN Reported(hist[p], p, scan.list[p])
        ELSE IF p \in scan.fresh THEN Dropped(stored, p) ELSE stored

LEMMA ItemFacts ==
  ASSUME Types, NEW p \in Products, scan.list[p] \in Statuses,
         NEW reports \in BOOLEAN, reports => filtered[p] /\ p \in scan.fresh
  PROVE  LET h == ItemHistory(p, reports) IN
         /\ h \in Histories
         /\ \A f \in {"scan", "watch", "misread", "overlap", "bought", "raced"} :
                h[f] = hist[p][f]
         /\ hist[p].rearmed => h.rearmed
         /\ hist[p].excused => h.excused
         /\ filtered[p] /\ stock[p] = "in" /\ hist[p].watch > 0
               /\ scan.list[p] # watch[p].status => h.rearmed
         /\ ~reports /\ stock[p] = "in" =>
               /\ p \in scan.fresh => Told(h) \/ h.excused
               /\ filtered[p] /\ scan.list[p] \in Available => Told(h) \/ h.excused
  <1>1. hist[p] \in Histories /\ stock[p] \in {"in", "out"} /\ scan.list[p] # "failed"
    BY DEF Types, WorldTypes, Statuses, Available
  <1> DEFINE stored == IF filtered[p] THEN Stored(hist[p], p, scan.list[p]) ELSE hist[p]
  <1>2. /\ stored \in Histories
        /\ \A f \in {"scan", "watch", "misread", "overlap", "bought", "raced"} :
               stored[f] = hist[p][f]
        /\ hist[p].rearmed => stored.rearmed
        /\ hist[p].excused => stored.excused
        /\ filtered[p] /\ stock[p] = "in" /\ hist[p].watch > 0
              /\ scan.list[p] # watch[p].status => stored.rearmed
        /\ filtered[p] /\ stock[p] = "in" /\ scan.list[p] \in Available
              => Told(hist[p]) \/ stored.excused
    BY <1>1, StoredFacts
  <1>3. ItemHistory(p, reports) =
            IF reports THEN Reported(hist[p], p, scan.list[p])
            ELSE IF p \in scan.fresh THEN Dropped(stored, p) ELSE stored
    BY DEF ItemHistory
  <1> HIDE DEF stored
  <1>4. CASE reports
    BY <1>1, <1>3, <1>4, ReportedFacts
  <1>5. CASE ~reports /\ p \in scan.fresh
    BY <1>1, <1>2, <1>3, <1>5, DroppedFacts DEF Told
  <1>6. CASE ~reports /\ p \notin scan.fresh
    BY <1>1, <1>2, <1>3, <1>6 DEF Told
  <1> QED
    BY <1>4, <1>5, <1>6

LEMMA ScanItemKept == IInv /\ ScanItem => IInv'
  <1> SUFFICES ASSUME Types, ScanInv, \A q \in Products : ProductInv(q), ScanItem
               PROVE  IInv'
    BY DEF IInv
  <1>1. scan.at = "items" /\ scan.sending = NoProduct /\ \A q \in Products : scan.sending # q
    BY StockAssumption DEF ScanItem
  <1>2. PICK p \in scan.todo :
           LET reports == filtered[p] /\ p \in scan.fresh /\ mode # "off" IN
           /\ IF filtered[p] THEN UpsertWatchlistEntry(p, scan.list[p], FALSE)
              ELSE UNCHANGED watch
           /\ scan' = [scan EXCEPT !.todo = @ \ {p}, !.fresh = @ \ {p}, !.list[p] = Absent,
                                   !.sending = IF reports THEN p ELSE NoProduct]
           /\ hist' = [hist EXCEPT ![p] =
                          LET stored == IF filtered[p] THEN Stored(@, p, scan.list[p]) ELSE @
                          IN  IF reports THEN Reported(@, p, scan.list[p])
                              ELSE IF p \in scan.fresh THEN Dropped(stored, p) ELSE stored]
    BY DEF ScanItem
  <1> DEFINE reports == filtered[p] /\ p \in scan.fresh /\ mode # "off"
             h == ItemHistory(p, reports)
  <1>3. p \in Products /\ scan.list[p] \in Statuses
    BY DEF Types, Scans, ScanInv, Labels
  <1>4. reports \in BOOLEAN /\ (reports => filtered[p] /\ p \in scan.fresh)
    BY <1>3 DEF Types, WorldTypes
  <1>5. /\ h \in Histories
        /\ \A f \in {"scan", "watch", "misread", "overlap", "bought", "raced"} :
               h[f] = hist[p][f]
        /\ hist[p].rearmed => h.rearmed
        /\ hist[p].excused => h.excused
        /\ filtered[p] /\ stock[p] = "in" /\ hist[p].watch > 0
              /\ scan.list[p] # watch[p].status => h.rearmed
        /\ ~reports /\ stock[p] = "in" =>
              /\ p \in scan.fresh => Told(h) \/ h.excused
              /\ filtered[p] /\ scan.list[p] \in Available => Told(h) \/ h.excused
    BY <1>3, <1>4, ItemFacts
  <1>6. hist' = [hist EXCEPT ![p] = h]
    BY <1>2 DEF ItemHistory
  <1>7. scan' = [at |-> "items", list |-> [scan.list EXCEPT ![p] = Absent],
                 fresh |-> scan.fresh \ {p}, todo |-> scan.todo \ {p},
                 sending |-> IF reports THEN p ELSE NoProduct]
    BY <1>1, <1>2 DEF Types, Scans
  <1>8. filtered[p] \in BOOLEAN /\ (reports => filtered[p] /\ p \in scan.fresh)
    BY <1>3, <1>4 DEF Types, WorldTypes
  <1> HIDE DEF reports, h
  <1>9. /\ hist' \in [Products -> Histories] /\ hist'[p] = h
        /\ \A q \in Products : q # p => hist'[q] = hist[q]
    BY <1>3, <1>5, <1>6 DEF Types
  <1>10. /\ watch' \in [Products -> Rows]
         /\ watch'[p].status = IF filtered[p] THEN scan.list[p] ELSE watch[p].status
         /\ \A q \in Products : q # p => watch'[q] = watch[q]
    BY <1>2, <1>3, <1>8, UpsertFacts DEF Types
  <1>11. scan' \in Scans
    BY <1>3, <1>7 DEF Types, Scans, Labels
  <1>12. Types'
    BY <1>9, <1>10, <1>11 DEF ScanItem, shopVars, Types, WorldTypes
  <1>13. /\ \A q \in Products : Pending(q)' => Pending(q)
         /\ (scan.sending = p \/ p \in scan.fresh) /\ ~reports => ~Pending(p)'
         /\ reports => scan'.sending = p
    BY <1>1, <1>3, <1>7, <1>8, StockAssumption DEF Pending
  <1>14. ScanInv'
    BY <1>1, <1>3, <1>7, <1>13, StockAssumption
       DEF ScanItem, shopVars, ScanInv, Pending, Types, Scans, Absent
  <1>15. \A q \in Products : q # p => Untouched(q)
    BY <1>1, <1>9, <1>10, <1>13 DEF ScanItem, shopVars, Untouched
  <1>16. ProductInv(p)'
    <2>1. ScanOnce(p)'
      BY <1>3, <1>5, <1>9, <1>12, <1>13, ScanOnceKept DEF ScanItem, shopVars, ProductInv
    <2>2. WatchOnce(p)'
      BY <1>3, <1>5, <1>9, <1>10, <1>12, WatchOnceKept DEF ScanItem, shopVars, ProductInv
    <2>3. NoneSilent(p)'
      <3>1. Answered(p) => Answered(p)'
        BY <1>5, <1>9 DEF Answered, Told
      <3>2. stock[p] = "in" /\ watch'[p].status \in Available =>
                watch[p].status \in Available \/ Answered(p)' \/ scan'.sending = p
        BY <1>5, <1>9, <1>10, <1>13 DEF Answered, Told
      <3>3. Submitting(p)' => Submitting(p)
        BY DEF ScanItem, Submitting
      <3> QED
        BY <1>1, <1>3, <1>12, <3>1, <3>2, <3>3, NoneSilentKept
           DEF ScanItem, shopVars, ProductInv
    <2>4. OneJob(p)'
      BY <1>3, <1>5, <1>9, <1>12, OneJobKept DEF ScanItem, ProductInv
    <2> QED
      BY <2>1, <2>2, <2>3, <2>4 DEF ProductInv
  <1> QED
    BY <1>12, <1>14, <1>15, <1>16, UntouchedKept DEF IInv

\* The alert is out: what was on its way has been told.
LEMMA ScanSentKept == IInv /\ ScanSent => IInv'
  <1> SUFFICES ASSUME Types, ScanInv, \A q \in Products : ProductInv(q), ScanSent
               PROVE  IInv'
    BY DEF IInv
  <1>1. PICK p \in Products : p = scan.sending
    BY DEF ScanSent, Types, Scans
  <1>2. hist[p] \in Histories
    BY DEF Types
  <1>3. /\ hist' = [hist EXCEPT ![p] = ToldByScan(hist[p], p)]
        /\ scan' = [scan EXCEPT !.sending = NoProduct]
        /\ IF mode = "selenium" THEN Submit(p) ELSE UNCHANGED recent
    BY <1>1 DEF ScanSent
  <1>4. /\ scan' \in Scans /\ scan'.sending = NoProduct
        /\ scan'.fresh = scan.fresh /\ scan'.todo = scan.todo
        /\ scan'.list = scan.list /\ scan'.at = scan.at
    BY <1>3 DEF Types, Scans
  <1>5. p \notin scan.fresh /\ product[p] = "in" /\ scan.at = "items" /\ p = scan.sending
    BY <1>1, StockAssumption DEF ScanInv, Pending
  <1>6. /\ hist' \in [Products -> Histories] /\ hist'[p] = ToldByScan(hist[p], p)
        /\ \A q \in Products : q # p => hist'[q] = hist[q]
    BY <1>2, <1>3, ToldByScanFacts DEF Types
  <1>7. /\ recent' \in [Products -> BOOLEAN]
        /\ \A q \in Products : (recent[q] => recent'[q]) /\ (q # p => recent'[q] = recent[q])
    BY <1>2, <1>3 DEF Submit, Types, WorldTypes
  <1>8. Types'
    BY <1>4, <1>6, <1>7 DEF ScanSent, shopVars, Types, WorldTypes
  <1>9. \A q \in Products : (Pending(q)' => Pending(q)) /\ ~Pending(p)'
    BY <1>2, <1>4, <1>5, StockAssumption DEF Pending
  <1>10. ScanInv'
    BY <1>4, <1>5, <1>9, StockAssumption DEF ScanSent, shopVars, ScanInv
  <1>11. \A q \in Products : q # p => Untouched(q)
    BY <1>5, <1>6, <1>7, <1>9 DEF ScanSent, shopVars, Untouched
  <1>12. ProductInv(p)'
    <2>1. /\ \A f \in {"watch", "excused", "rearmed", "misread", "overlap", "bought", "raced"} :
                 hist'[p][f] = hist[p][f]
          /\ hist'[p].scan = IF stock[p] = "in" THEN Capped(hist[p].scan) ELSE hist[p].scan
      BY <1>2, <1>6, ToldByScanFacts
    <2>2. ScanOnce(p)'
      <3>1. stock[p] = "in" /\ ~hist[p].misread => hist[p].scan = 0
        BY <1>2, <1>5 DEF ProductInv, ScanOnce, Pending, Histories
      <3> QED
        BY <1>5, <1>9, <2>1, <3>1 DEF ScanSent, shopVars, ProductInv, ScanOnce, Capped
    <2>3. WatchOnce(p)'
      BY <1>2, <1>8, <2>1, WatchOnceKept DEF ScanSent, shopVars, ProductInv
    <2>4. NoneSilent(p)'
      <3>1. stock[p] = "in" => hist'[p].scan > 0
        BY <1>2, <2>1 DEF Capped, Histories
      <3>2. stock[p] = "in" => Answered(p)'
        <4>1. hist'[p] \in Histories
          BY <1>8 DEF Types
        <4>2. Told(hist'[p]) \/ stock[p] # "in"
          BY <3>1, <4>1 DEF Told, Histories
        <4> QED
          BY <4>2 DEF Answered
      <3> QED
        BY <3>2 DEF ScanSent, shopVars, NoneSilent
    <2>5. OneJob(p)'
      BY <1>2, <1>7, <1>8, <2>1, OneJobKept DEF ScanSent, ProductInv
    <2> QED
      BY <2>2, <2>3, <2>4, <2>5 DEF ProductInv
  <1> QED
    BY <1>8, <1>10, <1>11, <1>12, UntouchedKept DEF IInv

\* A scan that ends early: what was on its way is told or excused.  h is the
\* history a product then has.
LEMMA ScanDroppedKept ==
  ASSUME Types, Types', ScanInv, NEW p \in Products, ProductInv(p),
         stock'[p] = stock[p], product'[p] = product[p], recent'[p] = recent[p],
         watch'[p] = watch[p], scan' = NoScan,
         \A t \in Trackers : check'[t][p] = check[t][p],
         \/ hist'[p] = hist[p] /\ scan.sending # p
         \/ hist'[p] = Dropped(hist[p], p)
         \/ hist'[p] = ToldByScan(hist[p], p) /\ scan.sending = p
  PROVE  ProductInv(p)'
  <1>1. hist[p] \in Histories /\ hist'[p] \in Histories
    BY DEF Types
  <1>2. ~Pending(p)' /\ scan'.sending # p
    BY StockAssumption DEF NoScan, Pending
  <1>3. /\ \A f \in {"watch", "rearmed", "misread", "overlap", "bought", "raced"} :
                hist'[p][f] = hist[p][f]
        /\ hist'[p].scan = hist[p].scan \/
               /\ scan.sending = p
               /\ hist'[p].scan = IF stock[p] = "in" THEN Capped(hist[p].scan) ELSE hist[p].scan
        /\ hist[p].excused => hist'[p].excused
    BY <1>1, DroppedFacts, ToldByScanFacts
  <1>4. ScanOnce(p)'
    BY <1>1, <1>2, <1>3 DEF ScanInv, ProductInv, ScanOnce, Pending, Capped, Histories
  <1>5. WatchOnce(p)'
    BY <1>3, WatchOnceKept DEF ProductInv
  <1>6. NoneSilent(p)'
    <2>1. stock[p] = "in" /\ Answered(p) => Answered(p)'
      BY <1>1, <1>3 DEF Answered, Told, Capped, Histories
    <2>2. stock[p] = "in" /\ scan.sending = p => Answered(p)'
      <3>1. CASE hist'[p] = Dropped(hist[p], p)
        BY <1>1, <1>3, <3>1, DroppedFacts DEF Answered, Told
      <3>2. CASE hist'[p] = ToldByScan(hist[p], p)
        <4>1. hist'[p].scan = IF stock[p] = "in" THEN Capped(hist[p].scan) ELSE hist[p].scan
          BY <1>1, <3>2, ToldByScanFacts
        <4>2. stock[p] = "in" => hist'[p].scan + hist'[p].watch > 0
          BY <1>1, <4>1 DEF Capped, Histories
        <4> QED
          BY <4>2 DEF Answered, Told
      <3> QED
        BY <3>1, <3>2
    <2>3. Submitting(p)' => Submitting(p)
      BY DEF Submitting
    <2> QED
      BY <2>1, <2>2, <2>3, NoneSilentKept DEF ProductInv
  <1>7. OneJob(p)'
    BY <1>3, OneJobKept DEF ProductInv
  <1> QED
    BY <1>4, <1>5, <1>6, <1>7 DEF ProductInv

LEMMA NoScanFacts == NoScan \in Scans /\ (scan' = NoScan => ScanInv')
  <1>1. NoScan \in Scans
    BY DEF NoScan, Scans, Labels
  <1>2. scan' = NoScan => ScanInv'
    BY StockAssumption DEF NoScan, ScanInv, Pending, Absent
  <1> QED
    BY <1>1, <1>2

LEMMA ScanFailsKept == IInv /\ ScanFails => IInv'
  <1> SUFFICES ASSUME Types, ScanInv, \A q \in Products : ProductInv(q), ScanFails
               PROVE  IInv'
    BY DEF IInv
  <1>1. PICK delivered \in BOOLEAN :
           hist' = [p \in Products |->
               IF p = scan.sending /\ delivered THEN ToldByScan(hist[p], p)
               ELSE IF p = scan.sending \/ p \in scan.todo \cap scan.fresh
               THEN Dropped(hist[p], p) ELSE hist[p]]
    BY DEF ScanFails
  <1>2. \A p \in Products :
           \/ hist'[p] = hist[p] /\ scan.sending # p
           \/ hist'[p] = Dropped(hist[p], p)
           \/ hist'[p] = ToldByScan(hist[p], p) /\ scan.sending = p
    BY <1>1
  <1>3. \A p \in Products : hist'[p] \in Histories
    BY <1>2, DroppedFacts, ToldByScanFacts DEF Types
  <1>4. hist' \in [Products -> Histories]
    BY <1>1, <1>3
  <1>5. Types' /\ ScanInv'
    BY <1>4, FaultFacts, NoScanFacts DEF ScanFails, shopVars, Types, WorldTypes
  <1>6. \A p \in Products : ProductInv(p)'
    BY <1>2, <1>5, ScanDroppedKept DEF ScanFails, shopVars
  <1> QED
    BY <1>5, <1>6 DEF IInv

LEMMA ScanEndsKept == IInv /\ ScanEnds => IInv'
  <1> SUFFICES ASSUME Types, ScanInv, \A q \in Products : ProductInv(q), ScanEnds
               PROVE  IInv'
    BY DEF IInv
  <1>1. Types' /\ ScanInv'
    BY NoScanFacts DEF ScanEnds, shopVars, Types, WorldTypes
  <1>2. \A p \in Products : scan.sending # p
    BY StockAssumption DEF ScanEnds
  <1>3. \A p \in Products : ProductInv(p)'
    BY <1>1, <1>2, ScanDroppedKept DEF ScanEnds, shopVars
  <1> QED
    BY <1>1, <1>3 DEF IInv

LEMMA ScanKept == IInv /\ ScanStep => IInv'
  BY ScanFetchesKept, ScanUpsertsKept, ScanItemKept, ScanSentKept, ScanFailsKept, ScanEndsKept
     DEF ScanStep

-----------------------------------------------------------------------------
(* The watchlist's steps.                                                  *)

\* A cycle compares with the rows as they are; a product that the other tracker is
\* at is marked.
LEMMA CycleKept ==
  ASSUME Types, Types', NEW t \in Trackers, NEW items \in SUBSET Products,
         CycleOf(t, items), NEW p \in Products, ProductInv(p)
  PROVE  ProductInv(p)'
  <1>1. /\ ~Active(t, p)
        /\ check'[t][p] = IF p \in items THEN Due(p) ELSE NoCheck
        /\ \A u \in Trackers \ {t} : check'[u][p] = check[u][p]
        /\ hist'[p] = hist[p] \/ hist'[p] = Overlapped(hist[p], p)
        /\ p \in items /\ (\E u \in Trackers \ {t} : Active(u, p))
              => hist'[p] = Overlapped(hist[p], p)
    BY CycleFacts
  <1>2. hist[p] \in Histories
    BY DEF Types
  <1>3. /\ \A f \in {"scan", "watch", "excused", "rearmed", "misread", "bought", "raced"} :
               hist'[p][f] = hist[p][f]
        /\ hist[p].overlap => hist'[p].overlap
        /\ p \in items /\ (\E u \in Trackers \ {t} : Active(u, p)) /\ stock[p] = "in"
              => hist'[p].overlap
    BY <1>1, <1>2, OverlappedFacts
  <1>4. /\ check'[t][p].at = IF p \in items THEN "due" ELSE "idle"
        /\ p \in items => check'[t][p].prev = watch[p].status
    BY <1>1, DueFacts, NoCheckFacts
  <1>5. Submitting(p)' <=> Submitting(p)
    BY <1>1, <1>4 DEF Submitting, Active
  <1>6. ScanOnce(p)'
    BY <1>3, ScanOnceKept DEF CycleOf, shopVars, ProductInv, Pending
  <1>7. WatchOnce(p)'
    <2> SUFFICES ASSUME stock[p] = "in", ~hist'[p].overlap
                 PROVE  /\ \E u \in Trackers : ~Active(u, p)'
                        /\ ~hist'[p].rearmed =>
                              /\ hist'[p].watch <= 1
                              /\ hist'[p].watch > 0 =>
                                    /\ \A u \in Trackers :
                                          /\ check'[u][p].at # "sending"
                                          /\ check'[u][p].at = "due"
                                                => check'[u][p].prev \in Available
                                    /\ watch'[p].status \in Available \/ Submitting(p)'
      BY <1>3 DEF ProductInv, WatchOnce, CycleOf, shopVars
    <2>1. watch'[p] = watch[p] /\ WatchOnce(p) /\ ~hist[p].overlap
      BY <1>3 DEF CycleOf, ProductInv
    <2>2. CASE p \in items
      <3>1. \A u \in Trackers \ {t} : ~Active(u, p)
        BY <1>3, <2>2
      <3>2. \A u \in Trackers \ {t} : check'[u][p].at = "idle"
        BY <1>1, <3>1 DEF Active
      <3>3. ~Submitting(p)
        BY <1>1, <3>1 DEF Submitting, Active
      <3>4. \E u \in Trackers : ~Active(u, p)'
        BY <3>2 DEF Active, Trackers
      <3> QED
        BY <1>3, <1>4, <1>5, <2>1, <2>2, <3>2, <3>3, <3>4 DEF WatchOnce
    <2>3. CASE p \notin items
      BY <1>1, <1>3, <1>4, <1>5, <2>1, <2>3 DEF WatchOnce, Active
    <2> QED
      BY <2>2, <2>3
  <1>8. NoneSilent(p)'
    <2>1. Answered(p) => Answered(p)'
      BY <1>3 DEF Answered, Told
    <2> QED
      BY <1>5, <2>1, NoneSilentKept DEF CycleOf, shopVars, ProductInv
  <1>9. OneJob(p)'
    <2>1. \A u \in Trackers : check'[u][p].at = "submitting" => check[u][p].at = "submitting"
      BY <1>1, <1>4
    <2> QED
      BY <1>3, <2>1, OneJobKept DEF CycleOf, ProductInv
  <1> QED
    BY <1>6, <1>7, <1>8, <1>9 DEF ProductInv

LEMMA LoopCycleKept == IInv /\ LoopCycle => IInv'
  <1> SUFFICES ASSUME Types, ScanInv, \A q \in Products : ProductInv(q), LoopCycle
               PROVE  IInv'
    BY DEF IInv
  <1> DEFINE items == {p \in Products : watch[p].row = "live"}
  <1>1. CycleOf("loop", items) /\ "loop" \in Trackers /\ items \in SUBSET Products
    BY DEF LoopCycle, Trackers
  <1> HIDE DEF items
  <1>2. Types'
    BY <1>1, CycleFacts DEF LoopCycle, CycleOf, shopVars, Types, WorldTypes
  <1>3. ScanInv'
    BY <1>1 DEF CycleOf, ScanInv, Pending
  <1> QED
    BY <1>1, <1>2, <1>3, CycleKept DEF IInv

LEMMA ManualScanKept == IInv /\ ManualScan => IInv'
  <1> SUFFICES ASSUME Types, ScanInv, \A q \in Products : ProductInv(q), ManualScan
               PROVE  IInv'
    BY DEF IInv
  <1>1. PICK items \in SUBSET Products : CycleOf("manual", items)
    BY DEF ManualScan
  <1>2. "manual" \in Trackers
    BY DEF Trackers
  <1>3. Types'
    <2>1. spent' \in [flips : 0..MaxFlips, events : 0..MaxEvents]
      BY FaultFacts DEF ManualScan, Request
    <2> QED
      BY <1>1, <1>2, <2>1, CycleFacts DEF ManualScan, CycleOf, shopVars, Types, WorldTypes
  <1>4. ScanInv'
    BY <1>1 DEF CycleOf, ScanInv, Pending
  <1> QED
    BY <1>1, <1>2, <1>3, <1>4, CycleKept DEF IInv

\* The loop and the scan end where they are.  An alert that got out without its row
\* re-arms the watchlist.
LEMMA RestartKept == IInv /\ Restart => IInv'
  <1> SUFFICES ASSUME Types, ScanInv, \A q \in Products : ProductInv(q), Restart
               PROVE  IInv'
    BY DEF IInv
  <1>1. PICK sent \in SUBSET {p \in Products : check["loop"][p].at = "sending"} :
           hist' = [p \in Products |->
               IF p \in sent THEN Rearmed(ToldByWatch(hist[p], p), p)
               ELSE IF check["loop"][p].at = "submitting" THEN Rearmed(hist[p], p)
               ELSE IF p = scan.sending \/ p \in scan.todo \cap scan.fresh
               THEN Dropped(hist[p], p) ELSE hist[p]]
    BY DEF Restart
  <1>2. \A p \in Products :
           /\ p \in sent =>
                 /\ hist'[p] = Rearmed(ToldByWatch(hist[p], p), p)
                 /\ check["loop"][p].at = "sending"
           /\ p \notin sent /\ check["loop"][p].at = "submitting" => hist'[p] = Rearmed(hist[p], p)
           /\ p \notin sent /\ check["loop"][p].at # "submitting" =>
                 hist'[p] = Dropped(hist[p], p) \/ (hist'[p] = hist[p] /\ scan.sending # p)
    BY <1>1
  <1>3. hist' \in [Products -> Histories]
    <2>1. \A p \in Products : hist'[p] \in Histories
      BY <1>2, RearmedFacts, ToldByWatchFacts, DroppedFacts DEF Types
    <2> QED
      BY <1>1, <2>1
  <1>4. check' \in [Trackers -> [Products -> Checks]]
        /\ \A p \in Products : check'["loop"][p] = NoCheck /\ check'["manual"][p] = check["manual"][p]
    BY NoCheckFacts DEF Restart, Types, Trackers
  <1>5. Types' /\ ScanInv'
    BY <1>3, <1>4, FaultFacts, NoScanFacts DEF Restart, shopVars, Types, WorldTypes
  <1>6. ASSUME NEW p \in Products PROVE ProductInv(p)'
    <2>1. hist[p] \in Histories /\ hist'[p] \in Histories
      BY <1>3 DEF Types
    <2>2. \A t \in Trackers : check'[t][p].at = "idle" \/ check'[t][p] = check[t][p]
      BY <1>4, NoCheckFacts DEF Trackers
    <2>3. /\ \A f \in {"scan", "misread", "overlap", "bought", "raced"} : hist'[p][f] = hist[p][f]
          /\ hist[p].excused => hist'[p].excused
          /\ hist[p].rearmed => hist'[p].rearmed
          /\ hist[p].watch > 0 => hist'[p].watch > 0
      <3>1. CASE p \in sent
        <4> DEFINE told == ToldByWatch(hist[p], p)
        <4>1. /\ told \in Histories
              /\ \A f \in {"scan", "excused", "rearmed", "misread", "overlap", "bought", "raced"} :
                     told[f] = hist[p][f]
              /\ hist[p].watch > 0 => told.watch > 0
          BY <2>1, ToldByWatchFacts DEF Capped, Histories
        <4> HIDE DEF told
        <4>2. hist'[p] = Rearmed(told, p)
          BY <1>2, <3>1 DEF told
        <4> QED
          BY <4>1, <4>2, RearmedFacts
      <3>2. CASE p \notin sent
        BY <1>2, <2>1, <3>2, RearmedFacts, DroppedFacts
      <3> QED
        BY <3>1, <3>2
    <2>4. p \in sent /\ stock[p] = "in" => hist'[p].rearmed /\ hist'[p].watch > 0
      <3>1. ToldByWatch(hist[p], p) \in Histories
            /\ (stock[p] = "in" => ToldByWatch(hist[p], p).watch > 0)
        BY <2>1, ToldByWatchFacts DEF Capped, Histories
      <3> QED
        BY <1>2, <3>1, RearmedFacts
    <2>5. p \notin sent /\ check["loop"][p].at = "submitting" =>
             /\ stock[p] = "in" => hist'[p].rearmed
             /\ Answered(p) => Answered(p)'
      BY <1>2, <2>1, RearmedFacts DEF Answered, Told
    <2>6. p \notin sent /\ check["loop"][p].at # "submitting" =>
             /\ hist'[p].watch = hist[p].watch /\ hist'[p].rearmed = hist[p].rearmed
             /\ stock[p] = "in" => Answered(p)' \/ (scan.sending # p /\ hist'[p] = hist[p])
      BY <1>2, <2>1, DroppedFacts DEF Answered, Told
    <2>7. Submitting(p)' => Submitting(p)
      BY <2>2 DEF Submitting
    <2>8. ~Pending(p)'
      BY StockAssumption DEF Restart, NoScan, Pending
    <2>9. ScanOnce(p)'
      BY <1>5, <2>3, <2>8, ScanOnceKept DEF Restart, shopVars, ProductInv
    <2>10. WatchOnce(p)'
      <3>1. \E t \in Trackers : ~Active(t, p)'
        BY <1>4, NoCheckFacts DEF Active, Trackers
      <3>2. CASE p \in sent \/ check["loop"][p].at = "submitting"
        <4>1. stock[p] = "out" => hist'[p].watch = 0
          <5>1. stock[p] = "out" => ToldByWatch(hist[p], p).watch = hist[p].watch
            BY <2>1, ToldByWatchFacts
          <5>2. stock[p] = "out" => hist'[p].watch = hist[p].watch
            BY <1>2, <2>1, <3>2, <5>1, ToldByWatchFacts, RearmedFacts
          <5> QED
            BY <5>2 DEF ProductInv, WatchOnce
        <4> QED
          BY <2>4, <2>5, <3>1, <3>2, <4>1 DEF Restart, shopVars, WatchOnce
      <3>3. CASE p \notin sent /\ check["loop"][p].at # "submitting"
        <4>1. Submitting(p) => Submitting(p)'
          BY <1>4, <3>3 DEF Submitting, Trackers
        <4> QED
          BY <2>2, <2>3, <2>6, <3>1, <3>3, <4>1
             DEF Restart, shopVars, ProductInv, WatchOnce
      <3> QED
        BY <3>2, <3>3
    <2>11. NoneSilent(p)'
      <3>1. stock[p] = "in" /\ p \in sent => Answered(p)'
        BY <2>1, <2>4 DEF Answered, Told, Histories
      <3>2. stock[p] = "in" /\ p \notin sent /\ check["loop"][p].at = "submitting" => Answered(p)'
        BY <2>5 DEF ProductInv, NoneSilent, Submitting, Trackers
      <3>3. hist'[p] = hist[p] => (Answered(p) => Answered(p)')
        BY DEF Answered, Told
      <3> QED
        BY <2>6, <2>7, <3>1, <3>2, <3>3 DEF Restart, shopVars, ProductInv, NoneSilent
    <2>12. OneJob(p)'
      BY <1>5, <2>2, <2>3, OneJobKept DEF Restart, ProductInv
    <2> QED
      BY <2>9, <2>10, <2>11, <2>12 DEF ProductInv
  <1> QED
    BY <1>5, <1>6 DEF IInv

\* A step of tracker t makes c of the check of p and h of its history, and leaves
\* the other products alone.
CheckMoves(t, p, c, h) ==
    /\ UNCHANGED <<shopVars, product, scan, build>>
    /\ SetCheck(t, p, c)
    /\ hist' = [hist EXCEPT ![p] = h]
    /\ watch' \in [Products -> Rows]
    /\ \A q \in Products : q # p => watch'[q] = watch[q]
    /\ cooldown' \in [Trackers -> BOOLEAN]
    /\ recent' \in [Products -> BOOLEAN]
    /\ \A q \in Products : q # p => recent'[q] = recent[q]
    /\ spent' \in [flips : 0..MaxFlips, events : 0..MaxEvents]

\* With it the steps below only have to say what becomes of p.
LEMMA CheckKept ==
  ASSUME IInv, NEW t \in Trackers, NEW p \in Products, NEW c \in Checks, NEW h \in Histories,
         CheckMoves(t, p, c, h), h.scan = hist[p].scan, h.misread = hist[p].misread
  PROVE  /\ Types' /\ hist'[p] = h /\ stock'[p] = stock[p] /\ scan' = scan
         /\ check'[t][p] = c /\ \A u \in Trackers \ {t} : check'[u][p] = check[u][p]
         /\ WatchOnce(p)' /\ NoneSilent(p)' /\ OneJob(p)' => IInv'
  <1>1. /\ Types /\ ScanInv /\ \A q \in Products : ProductInv(q)
        /\ stock' = stock /\ product' = product /\ scan' = scan
    BY DEF IInv, CheckMoves, shopVars
  <1>2. /\ check' \in [Trackers -> [Products -> Checks]]
        /\ check'[t][p] = c
        /\ \A u \in Trackers, q \in Products : u # t \/ q # p => check'[u][q] = check[u][q]
    BY <1>1, SetCheckFacts DEF CheckMoves
  <1>3. /\ hist' \in [Products -> Histories] /\ hist'[p] = h
        /\ \A q \in Products : q # p => hist'[q] = hist[q]
    BY <1>1 DEF CheckMoves, Types
  <1>4. Types'
    BY <1>1, <1>2, <1>3 DEF CheckMoves, shopVars, Types, WorldTypes
  <1>5. ScanInv'
    BY <1>1 DEF ScanInv, Pending
  <1>6. \A q \in Products : q # p => Untouched(q)
    BY <1>1, <1>2, <1>3 DEF CheckMoves, Untouched, Pending
  <1>7. ScanOnce(p)'
    BY <1>1, <1>3, <1>4, ScanOnceKept DEF ProductInv, Pending
  <1>8. WatchOnce(p)' /\ NoneSilent(p)' /\ OneJob(p)' => ProductInv(p)'
    BY <1>7 DEF ProductInv
  <1> QED
    BY <1>1, <1>2, <1>3, <1>4, <1>5, <1>6, <1>8, UntouchedKept DEF IInv

LEMMA CheckSkipsKept ==
  ASSUME IInv, NEW t \in Trackers, NEW p \in Products, CheckSkips(t, p)
  PROVE  IInv'
  <1>1. Types /\ ProductInv(p) /\ hist[p] \in Histories
    BY DEF IInv, Types
  <1>2. watch' = watch
    BY DEF CheckSkips, UpdateWatchlistCheck
  <1>3. CheckMoves(t, p, NoCheck, hist[p])
    BY <1>1, <1>2 DEF CheckSkips, CheckMoves, Types, WorldTypes
  <1>4. check[t][p].at = "due" /\ NoCheck.at = "idle" /\ NoCheck \in Checks
    BY NoCheckFacts DEF CheckSkips
  <1>5. /\ Types' /\ hist'[p] = hist[p] /\ stock'[p] = stock[p] /\ scan' = scan
        /\ check'[t][p] = NoCheck /\ \A u \in Trackers \ {t} : check'[u][p] = check[u][p]
        /\ WatchOnce(p)' /\ NoneSilent(p)' /\ OneJob(p)' => IInv'
    BY <1>1, <1>3, <1>4, CheckKept
  <1>6. WatchOnce(p)'
    BY <1>1, <1>2, <1>4, <1>5 DEF ProductInv, WatchOnce, Active, Submitting
  <1>7. NoneSilent(p)'
    BY <1>1, <1>2, <1>4, <1>5 DEF ProductInv, NoneSilent, Submitting, Answered, Told
  <1>8. OneJob(p)'
    BY <1>1, <1>4, <1>5 DEF CheckSkips, ProductInv, OneJob, Submitting
  <1> QED
    BY <1>5, <1>6, <1>7, <1>8

\* An answer that is stored.  After an alert it either says what the row says, or
\* the row has changed.
LEMMA AnswerStored ==
  ASSUME IInv, NEW t \in Trackers, NEW p \in Products, check[t][p].at = "due",
         NEW status \in Statuses \cup {"failed"},
         CheckMoves(t, p, NoCheck, Stored(hist[p], p, status)),
         UpdateWatchlistCheck(p, status), recent' = recent
  PROVE  IInv'
  <1>1. Types /\ ProductInv(p) /\ hist[p] \in Histories /\ stock[p] \in {"in", "out"}
    BY DEF IInv, Types, WorldTypes
  <1>2. PICK h \in Histories : h = Stored(hist[p], p, status)
    BY <1>1, StoredFacts
  <1>3. /\ \A f \in {"scan", "watch", "misread", "overlap", "bought", "raced"} : h[f] = hist[p][f]
        /\ hist[p].excused => h.excused
        /\ hist[p].rearmed => h.rearmed
        /\ stock[p] # "out" /\ status # "failed" =>
              /\ hist[p].watch > 0 /\ status # watch[p].status => h.rearmed
              /\ status \in Available => Told(hist[p]) \/ h.excused
    BY <1>1, <1>2, StoredFacts
  <1>4. CheckMoves(t, p, NoCheck, h) /\ NoCheck.at = "idle" /\ NoCheck \in Checks
    BY <1>2, NoCheckFacts
  <1>5. h.scan = hist[p].scan /\ h.misread = hist[p].misread
    BY <1>3
  <1>6. /\ Types' /\ hist'[p] = h /\ stock'[p] = stock[p] /\ scan' = scan
        /\ check'[t][p] = NoCheck /\ \A u \in Trackers \ {t} : check'[u][p] = check[u][p]
        /\ WatchOnce(p)' /\ NoneSilent(p)' /\ OneJob(p)' => IInv'
    BY <1>4, <1>5, CheckKept
  <1>7. watch'[p].status = IF status = "failed" THEN watch[p].status ELSE status
    BY <1>1, UpdateFacts
  <1>8. WatchOnce(p)'
    BY <1>1, <1>3, <1>4, <1>6, <1>7 DEF ProductInv, WatchOnce, Active, Submitting
  <1>9. NoneSilent(p)'
    BY <1>1, <1>3, <1>4, <1>6, <1>7 DEF ProductInv, NoneSilent, Submitting, Answered, Told
  <1>10. OneJob(p)'
    BY <1>1, <1>3, <1>4, <1>6 DEF ProductInv, OneJob, Submitting
  <1> QED
    BY <1>6, <1>8, <1>9, <1>10

\* An answer that is to be reported: it differs from what the cycle read, which was
\* available if an alert is out already.
LEMMA AnswerReported ==
  ASSUME IInv, NEW t \in Trackers, NEW p \in Products, check[t][p].at = "due",
         NEW status \in Available, NEW h \in Histories,
         h = IF check[t][p].prev \in Available THEN Rearmed(hist[p], p) ELSE hist[p],
         CheckMoves(t, p, Sending(status), h), watch' = watch, recent' = recent
  PROVE  IInv'
  <1>1. Types /\ ProductInv(p) /\ hist[p] \in Histories
    BY DEF IInv, Types
  <1>2. /\ \A f \in {"scan", "watch", "excused", "misread", "overlap", "bought", "raced"} :
               h[f] = hist[p][f]
        /\ hist[p].rearmed => h.rearmed
        /\ check[t][p].prev \in Available /\ stock[p] = "in" => h.rearmed
    BY <1>1, RearmedFacts
  <1>3. Sending(status).at = "sending" /\ Sending(status) \in Checks
    BY SendingFacts
  <1>4. h.scan = hist[p].scan /\ h.misread = hist[p].misread
    BY <1>2
  <1>5. /\ Types' /\ hist'[p] = h /\ stock'[p] = stock[p] /\ scan' = scan
        /\ check'[t][p] = Sending(status) /\ \A u \in Trackers \ {t} : check'[u][p] = check[u][p]
        /\ WatchOnce(p)' /\ NoneSilent(p)' /\ OneJob(p)' => IInv'
    BY <1>3, <1>4, CheckKept
  <1>6. WatchOnce(p)'
    <2>1. stock[p] = "in" /\ ~hist[p].overlap /\ ~h.rearmed => ~(hist[p].watch > 0)
      BY <1>1, <1>2 DEF ProductInv, WatchOnce
    <2> QED
      BY <1>1, <1>2, <1>3, <1>5, <2>1 DEF ProductInv, WatchOnce, Active
  <1>7. NoneSilent(p)'
    BY <1>1, <1>2, <1>3, <1>5 DEF ProductInv, NoneSilent, Submitting, Answered, Told
  <1>8. OneJob(p)'
    BY <1>1, <1>2, <1>3, <1>5 DEF ProductInv, OneJob, Submitting
  <1> QED
    BY <1>5, <1>6, <1>7, <1>8

\* The row of an unsafe address is stored over, with what was read of it.
LEMMA CheckUnsafeKept ==
  ASSUME IInv, NEW t \in Trackers, NEW p \in Products, CheckUnsafe(t, p)
  PROVE  IInv'
  <1> DEFINE status == check[t][p].prev
  <1>1. Types /\ status \in Statuses /\ check[t][p].at = "due"
    BY DEF IInv, Types, Checks, CheckUnsafe
  <1>2. /\ UNCHANGED <<shopVars, product, scan, build>> /\ SetCheck(t, p, NoCheck)
        /\ hist' = [hist EXCEPT ![p] = Stored(hist[p], p, status)]
        /\ UpdateWatchlistCheck(p, status) /\ recent' = recent /\ cooldown' = cooldown
    BY DEF CheckUnsafe
  <1>3. spent' \in [flips : 0..MaxFlips, events : 0..MaxEvents]
    BY <1>1, FaultFacts DEF CheckUnsafe
  <1>4. /\ watch' \in [Products -> Rows]
        /\ \A q \in Products : q # p => watch'[q] = watch[q]
    BY <1>1, <1>2, UpdateFacts
  <1>5. CheckMoves(t, p, NoCheck, Stored(hist[p], p, status))
    BY <1>1, <1>2, <1>3, <1>4 DEF CheckMoves, Types, WorldTypes
  <1> QED
    BY <1>1, <1>2, <1>5, AnswerStored

LEMMA CheckAnswersKept ==
  ASSUME IInv, NEW t \in Trackers, NEW p \in Products, CheckAnswers(t, p)
  PROVE  IInv'
  <1>1. Types /\ hist[p] \in Histories
    BY DEF IInv, Types
  <1> DEFINE c == check[t][p]
  <1>2. /\ c \in Checks /\ c.at = "due"
        /\ UNCHANGED <<shopVars, product, scan, build>> /\ UNCHANGED recent
    BY <1>1 DEF CheckAnswers, Types
  <1>3. PICK answer \in CheckItem(shop, stock[p]) :
           LET reports == /\ c.prev # answer.status /\ answer.status \in Available
                          /\ filtered[p] \/ c.pinned
           IN  /\ FaultUnless(Conclusive(answer.status))
               /\ cooldown' = [cooldown EXCEPT ![t] = @ \/ answer.denied]
               /\ IF reports
                  THEN /\ SetCheck(t, p, Sending(answer.status))
                       /\ hist' = [hist EXCEPT ![p] =
                                      IF c.prev \in Available THEN Rearmed(@, p) ELSE @]
                       /\ UNCHANGED watch
                  ELSE /\ SetCheck(t, p, NoCheck)
                       /\ UpdateWatchlistCheck(p, answer.status)
                       /\ hist' = [hist EXCEPT ![p] = Stored(@, p, answer.status)]
    BY DEF CheckAnswers
  <1> DEFINE status == answer.status
             reports == c.prev # status /\ status \in Available /\ (filtered[p] \/ c.pinned)
  <1>4. status \in Statuses \cup {"failed"}
    <2>1. shop \in Retailers /\ stock[p] \in Stock
      BY <1>1, StockAssumption DEF Types, WorldTypes, Stock
    <2> QED
      BY <2>1, CheckFacts
  <1>5. spent' \in [flips : 0..MaxFlips, events : 0..MaxEvents]
    BY <1>1, <1>3, FaultFacts DEF FaultUnless, Types, WorldTypes
  <1>6. cooldown' \in [Trackers -> BOOLEAN]
    <2>1. (cooldown[t] \/ answer.denied) \in BOOLEAN
      OBVIOUS
    <2> QED
      BY <1>1, <1>3, <2>1 DEF Types, WorldTypes
  <1>7. /\ recent' \in [Products -> BOOLEAN]
        /\ \A q \in Products : q # p => recent'[q] = recent[q]
    BY <1>1, <1>2 DEF Types, WorldTypes
  <1>8. CASE reports
    <2>1. PICK h : h = IF c.prev \in Available THEN Rearmed(hist[p], p) ELSE hist[p]
      OBVIOUS
    <2>2. h \in Histories
      BY <1>1, <2>1, RearmedFacts
    <2>3. hist' = [hist EXCEPT ![p] = h] /\ SetCheck(t, p, Sending(status)) /\ watch' = watch
      BY <1>3, <1>8, <2>1
    <2>4. CheckMoves(t, p, Sending(status), h)
      BY <1>1, <1>2, <1>5, <1>6, <1>7, <2>3 DEF CheckMoves, Types
    <2> QED
      BY <1>2, <1>8, <2>1, <2>2, <2>3, <2>4, AnswerReported
  <1>9. CASE ~reports
    <2>1. /\ hist' = [hist EXCEPT ![p] = Stored(hist[p], p, status)]
          /\ SetCheck(t, p, NoCheck) /\ UpdateWatchlistCheck(p, status)
      BY <1>3, <1>9
    <2>2. /\ watch' \in [Products -> Rows]
          /\ \A q \in Products : q # p => watch'[q] = watch[q]
      BY <1>1, <1>4, <2>1, UpdateFacts
    <2>3. CheckMoves(t, p, NoCheck, Stored(hist[p], p, status))
      BY <1>2, <1>5, <1>6, <1>7, <2>1, <2>2 DEF CheckMoves
    <2> QED
      BY <1>2, <1>4, <2>1, <2>3, AnswerStored
  <1> QED
    BY <1>8, <1>9

\* The alert is out, and the check goes on to a job or writes the row.
LEMMA CheckTold ==
  ASSUME IInv, NEW t \in Trackers, NEW p \in Products, check[t][p].at = "sending",
         NEW c \in Checks, c.at \in {"idle", "submitting"},
         NEW h \in Histories, h = ToldByWatch(hist[p], p) \/ h = Raced(ToldByWatch(hist[p], p)),
         c.at = "submitting" =>
             /\ ~recent[p]
             /\ (\E u \in Trackers : check[u][p].at = "submitting") => h.raced,
         CheckMoves(t, p, c, h),
         watch'[p].status \in Available \/ c.at = "submitting", recent' = recent
  PROVE  IInv'
  <1>1. Types /\ ProductInv(p) /\ hist[p] \in Histories
    BY DEF IInv, Types
  <1>2. /\ \A f \in {"scan", "excused", "rearmed", "misread", "overlap", "bought"} :
               h[f] = hist[p][f]
        /\ hist[p].raced => h.raced
        /\ h.watch = IF stock[p] = "in" THEN Capped(hist[p].watch) ELSE hist[p].watch
    <2>1. PICK told \in Histories : told = ToldByWatch(hist[p], p)
      BY <1>1, ToldByWatchFacts
    <2>2. /\ \A f \in {"scan", "excused", "rearmed", "misread", "overlap", "bought", "raced"} :
                 told[f] = hist[p][f]
          /\ told.watch = IF stock[p] = "in" THEN Capped(hist[p].watch) ELSE hist[p].watch
      BY <1>1, <2>1, ToldByWatchFacts
    <2>3. h = told \/ h = Raced(told)
      BY <2>1
    <2> QED
      BY <2>2, <2>3, RacedFacts
  <1>3. h.scan = hist[p].scan /\ h.misread = hist[p].misread
    BY <1>2
  <1>4. /\ Types' /\ hist'[p] = h /\ stock'[p] = stock[p] /\ scan' = scan
        /\ check'[t][p] = c /\ \A u \in Trackers \ {t} : check'[u][p] = check[u][p]
        /\ WatchOnce(p)' /\ NoneSilent(p)' /\ OneJob(p)' => IInv'
    BY <1>3, CheckKept
  <1>5. stock[p] = "in" => h.watch > 0 /\ Told(h)
    BY <1>1, <1>2 DEF Capped, Told, Histories
  <1>6. WatchOnce(p)'
    <2> SUFFICES ASSUME stock[p] = "in", ~h.overlap
                 PROVE  /\ \E u \in Trackers : ~Active(u, p)'
                        /\ ~h.rearmed =>
                              /\ h.watch <= 1
                              /\ \A u \in Trackers :
                                    /\ check'[u][p].at # "sending"
                                    /\ check'[u][p].at = "due" => check'[u][p].prev \in Available
                              /\ watch'[p].status \in Available \/ Submitting(p)'
      BY <1>1, <1>2, <1>4 DEF ProductInv, WatchOnce
    <2>1. /\ \E u \in Trackers : ~Active(u, p)
          /\ ~h.rearmed => ~(hist[p].watch > 0)
      BY <1>1, <1>2 DEF ProductInv, WatchOnce
    <2>2. PICK u \in Trackers \ {t} : check[u][p].at = "idle"
      BY <2>1 DEF Active
    <2>3. \A v \in Trackers : v = t \/ v = u
      BY <2>2 DEF Trackers
    <2>4. check'[u][p].at = "idle" /\ check'[t][p] = c
      BY <1>4, <2>2
    <2>5. ~h.rearmed => h.watch <= 1
      BY <1>1, <1>2, <2>1 DEF Capped, Histories
    <2>6. watch'[p].status \in Available \/ Submitting(p)'
      BY <2>4 DEF Submitting
    <2>7. \E v \in Trackers : ~Active(v, p)'
      BY <2>4 DEF Active
    <2> QED
      BY <2>3, <2>4, <2>5, <2>6, <2>7
  <1>7. NoneSilent(p)'
    BY <1>4, <1>5 DEF NoneSilent, Answered
  <1>8. OneJob(p)'
    <2>1. CASE c.at = "idle"
      BY <1>1, <1>2, <1>4, <2>1 DEF ProductInv, OneJob, Submitting
    <2>2. CASE c.at = "submitting"
      <3>1. ~(h.bought > 0) /\ h.bought <= 1
        BY <1>1, <1>2, <2>2 DEF ProductInv, OneJob, Histories
      <3>2. ~h.raced => \E u \in Trackers : check'[u][p].at # "submitting"
        BY <1>4, <2>2 DEF Trackers
      <3> QED
        BY <1>4, <3>1, <3>2 DEF OneJob
    <2> QED
      BY <2>1, <2>2
  <1> QED
    BY <1>4, <1>6, <1>7, <1>8

LEMMA CheckSentKept ==
  ASSUME IInv, NEW t \in Trackers, NEW p \in Products, CheckSent(t, p)
  PROVE  IInv'
  <1> DEFINE c == check[t][p]
  <1>1. Types /\ hist[p] \in Histories /\ c \in Checks /\ c.at = "sending"
    BY DEF IInv, Types, CheckSent
  <1>2. /\ UNCHANGED <<shopVars, product, scan, build>>
        /\ cooldown' = cooldown /\ recent' = recent /\ spent' = spent
    BY DEF CheckSent
  <1>3. /\ cooldown' \in [Trackers -> BOOLEAN]
        /\ recent' \in [Products -> BOOLEAN]
        /\ \A q \in Products : q # p => recent'[q] = recent[q]
        /\ spent' \in [flips : 0..MaxFlips, events : 0..MaxEvents]
    BY <1>1, <1>2 DEF Types, WorldTypes
  <1>4. ToldByWatch(hist[p], p) \in Histories /\ Raced(ToldByWatch(hist[p], p)) \in Histories
        /\ Raced(ToldByWatch(hist[p], p)).raced
    BY <1>1, ToldByWatchFacts, RacedFacts
  <1>5. CASE mode = "selenium" /\ ~recent[p]
    <2>1. PICK d : d = [c EXCEPT !.at = "submitting"]
      OBVIOUS
    <2>2. d \in Checks /\ d.at = "submitting"
      BY <1>1, <2>1 DEF Checks
    <2>3. PICK h : h = IF \E u \in Trackers : check[u][p].at = "submitting"
                       THEN Raced(ToldByWatch(hist[p], p)) ELSE ToldByWatch(hist[p], p)
      OBVIOUS
    <2>4. SetCheck(t, p, d) /\ hist' = [hist EXCEPT ![p] = h] /\ watch' = watch
      BY <1>5, <2>1, <2>3 DEF CheckSent
    <2>5. CheckMoves(t, p, d, h)
      BY <1>1, <1>2, <1>3, <2>4 DEF CheckMoves, Types
    <2> QED
      BY <1>1, <1>2, <1>4, <1>5, <2>2, <2>3, <2>5, CheckTold
  <1>6. CASE ~(mode = "selenium" /\ ~recent[p])
    <2>1. /\ SetCheck(t, p, NoCheck)
          /\ hist' = [hist EXCEPT ![p] = ToldByWatch(hist[p], p)]
          /\ UpdateWatchlistCheck(p, c.label)
      BY <1>6 DEF CheckSent
    <2>2. c.label \in Available /\ c.label \in Statuses \cup {"failed"} /\ c.label # "failed"
      BY <1>1 DEF Checks, Statuses, Available
    <2>3. /\ watch' \in [Products -> Rows] /\ watch'[p].status = c.label
          /\ \A q \in Products : q # p => watch'[q] = watch[q]
      BY <1>1, <2>1, <2>2, UpdateFacts
    <2>4. CheckMoves(t, p, NoCheck, ToldByWatch(hist[p], p))
      BY <1>2, <1>3, <2>1, <2>3 DEF CheckMoves
    <2>5. PICK h \in Histories : h = ToldByWatch(hist[p], p)
      BY <1>4
    <2> QED
      BY <1>1, <1>2, <2>2, <2>3, <2>4, <2>5, NoCheckFacts, CheckTold
  <1> QED
    BY <1>5, <1>6

\* The job is submitted and the row written.
LEMMA CheckSubmitsKept ==
  ASSUME IInv, NEW t \in Trackers, NEW p \in Products, CheckSubmits(t, p)
  PROVE  IInv'
  <1> DEFINE c == check[t][p]
  <1>1. Types /\ ProductInv(p) /\ hist[p] \in Histories /\ c \in Checks /\ c.at = "submitting"
    BY DEF IInv, Types, CheckSubmits
  <1>2. PICK h \in Histories : h = Bought(hist[p])
    BY <1>1, BoughtFacts
  <1>3. /\ \A f \in {"scan", "watch", "excused", "rearmed", "misread", "overlap", "raced"} :
               h[f] = hist[p][f]
        /\ h.bought = Capped(hist[p].bought)
    BY <1>1, <1>2, BoughtFacts
  <1>4. c.label \in Available /\ c.label \in Statuses \cup {"failed"} /\ c.label # "failed"
    BY <1>1 DEF Checks, Statuses, Available
  <1>5. /\ watch' \in [Products -> Rows] /\ watch'[p].status = c.label
        /\ \A q \in Products : q # p => watch'[q] = watch[q]
    BY <1>1, <1>4, UpdateFacts DEF CheckSubmits
  <1>6. /\ recent' \in [Products -> BOOLEAN] /\ recent'[p]
        /\ \A q \in Products : q # p => recent'[q] = recent[q]
    BY <1>1 DEF CheckSubmits, Submit, Types, WorldTypes
  <1>7. CheckMoves(t, p, NoCheck, h)
    BY <1>1, <1>2, <1>5, <1>6 DEF CheckSubmits, CheckMoves, Types, WorldTypes
  <1>8. NoCheck.at = "idle" /\ NoCheck \in Checks
    BY NoCheckFacts
  <1>9. h.scan = hist[p].scan /\ h.misread = hist[p].misread
    BY <1>3
  <1>10. /\ Types' /\ hist'[p] = h /\ stock'[p] = stock[p] /\ scan' = scan
         /\ check'[t][p] = NoCheck /\ \A u \in Trackers \ {t} : check'[u][p] = check[u][p]
         /\ WatchOnce(p)' /\ NoneSilent(p)' /\ OneJob(p)' => IInv'
    BY <1>7, <1>8, <1>9, CheckKept
  <1>11. WatchOnce(p)'
    BY <1>1, <1>3, <1>4, <1>5, <1>8, <1>10 DEF ProductInv, WatchOnce, Active
  <1>12. NoneSilent(p)'
    <2>1. Submitting(p)
      BY <1>1 DEF Submitting
    <2>2. stock[p] = "in" => Answered(p)'
      BY <1>1, <1>3, <1>10, <2>1 DEF ProductInv, NoneSilent, Answered, Told
    <2> QED
      BY <1>10, <2>2 DEF NoneSilent
  <1>13. OneJob(p)'
    <2>1. Submitting(p)
      BY <1>1 DEF Submitting
    <2>2. ~h.raced => h.bought <= 1 /\ \E u \in Trackers : check[u][p].at # "submitting"
      BY <1>1, <1>3, <2>1 DEF ProductInv, OneJob, Capped, Histories
    <2>3. ~h.raced => \A u \in Trackers : check'[u][p].at # "submitting"
      BY <1>1, <1>8, <1>10, <2>2 DEF Trackers
    <2>4. \E u \in Trackers : check'[u][p].at # "submitting"
      BY <1>8, <1>10
    <2> QED
      BY <1>6, <1>10, <2>2, <2>3, <2>4 DEF OneJob, Submitting
  <1> QED
    BY <1>10, <1>11, <1>12, <1>13

\* The alert fails; one that got out nevertheless re-arms the watchlist.
LEMMA CheckFailsKept ==
  ASSUME IInv, NEW t \in Trackers, NEW p \in Products, CheckFails(t, p)
  PROVE  IInv'
  <1>1. Types /\ ProductInv(p) /\ hist[p] \in Histories /\ check[t][p].at = "sending"
    BY DEF IInv, Types, CheckFails
  <1>2. PICK h \in Histories :
           /\ hist' = [hist EXCEPT ![p] = h]
           /\ h = Rearmed(ToldByWatch(hist[p], p), p) \/ h = hist[p]
    <2>1. Rearmed(ToldByWatch(hist[p], p), p) \in Histories
      BY <1>1, ToldByWatchFacts, RearmedFacts
    <2>2. hist' = [hist EXCEPT ![p] = Rearmed(ToldByWatch(hist[p], p), p)] \/ hist' = hist
      BY DEF CheckFails
    <2>3. hist = [hist EXCEPT ![p] = hist[p]]
      BY <1>1 DEF Types
    <2> QED
      BY <1>1, <2>1, <2>2, <2>3
  <1>3. /\ \A f \in {"scan", "excused", "misread", "overlap", "bought", "raced"} :
               h[f] = hist[p][f]
        /\ hist[p].rearmed => h.rearmed
        /\ Told(hist[p]) => Told(h)
        /\ stock[p] = "in" => h.rearmed \/ h = hist[p]
        /\ stock[p] = "out" => h.watch = hist[p].watch
    <2>1. PICK told \in Histories : told = ToldByWatch(hist[p], p)
      BY <1>1, ToldByWatchFacts
    <2>2. /\ \A f \in {"scan", "excused", "rearmed", "misread", "overlap", "bought", "raced"} :
                 told[f] = hist[p][f]
          /\ told.watch = IF stock[p] = "in" THEN Capped(hist[p].watch) ELSE hist[p].watch
      BY <1>1, <2>1, ToldByWatchFacts
    <2>3. Told(hist[p]) => Told(told)
      BY <1>1, <2>1, <2>2 DEF Told, Capped, Histories
    <2>4. h = Rearmed(told, p) \/ h = hist[p]
      BY <1>2, <2>1
    <2> QED
      BY <2>1, <2>2, <2>3, <2>4, RearmedFacts DEF Told
  <1>4. CheckMoves(t, p, NoCheck, h)
    BY <1>1, <1>2, FaultFacts DEF CheckFails, CheckMoves, Types, WorldTypes
  <1>5. NoCheck.at = "idle" /\ NoCheck \in Checks
    BY NoCheckFacts
  <1>6. h.scan = hist[p].scan /\ h.misread = hist[p].misread
    BY <1>3
  <1>7. /\ Types' /\ hist'[p] = h /\ stock'[p] = stock[p] /\ scan' = scan
        /\ check'[t][p] = NoCheck /\ \A u \in Trackers \ {t} : check'[u][p] = check[u][p]
        /\ WatchOnce(p)' /\ NoneSilent(p)' /\ OneJob(p)' => IInv'
    BY <1>4, <1>5, <1>6, CheckKept
  <1>8. watch' = watch /\ recent' = recent
    BY DEF CheckFails
  <1>9. WatchOnce(p)'
    <2>1. stock[p] = "in" /\ ~hist[p].overlap /\ ~h.rearmed => ~(h.watch > 0) /\ h.watch <= 1
      BY <1>1, <1>3 DEF ProductInv, WatchOnce
    <2> QED
      BY <1>1, <1>3, <1>5, <1>7, <2>1 DEF ProductInv, WatchOnce, Active
  <1>10. NoneSilent(p)'
    BY <1>1, <1>3, <1>5, <1>7, <1>8 DEF ProductInv, NoneSilent, Submitting, Answered
  <1>11. OneJob(p)'
    BY <1>1, <1>3, <1>5, <1>7, <1>8 DEF ProductInv, OneJob, Submitting
  <1> QED
    BY <1>7, <1>9, <1>10, <1>11

LEMMA CheckStepKept ==
  ASSUME IInv, NEW t \in Trackers, NEW p \in Products, CheckStep(t, p)
  PROVE  IInv'
  BY CheckSkipsKept, CheckUnsafeKept, CheckAnswersKept, CheckSentKept, CheckSubmitsKept, CheckFailsKept
     DEF CheckStep

-----------------------------------------------------------------------------
(* The operator, the world and time.                                       *)

\* Nothing that the invariant is about changes.
LEMMA NothingKept ==
  ASSUME IInv, Types', stock' = stock, product' = product, scan' = scan, check' = check,
         recent' = recent, hist' = hist,
         \A p \in Products : watch'[p].status = watch[p].status
  PROVE  IInv'
  <1>1. ScanInv'
    BY DEF IInv, ScanInv, Pending
  <1>2. \A p \in Products : Untouched(p)
    BY DEF Untouched, Pending
  <1> QED
    BY <1>1, <1>2, UntouchedKept DEF IInv

LEMMA CooldownEndsKept ==
  ASSUME IInv, NEW t \in Trackers, CooldownEnds(t)
  PROVE  IInv'
  <1>1. Types'
    BY DEF IInv, CooldownEnds, shopVars, Types, WorldTypes
  <1> QED
    BY <1>1, NothingKept DEF CooldownEnds, shopVars

LEMMA BuildFetchesKept ==
  ASSUME IInv, NEW p \in Products, BuildFetches(p)
  PROVE  IInv'
  <1>1. Types /\ shop \in Retailers /\ stock[p] \in Stock
    BY StockAssumption DEF IInv, Types, WorldTypes, Stock
  <1>2. PICK label \in Listing(shop, stock[p]) : build' = [build EXCEPT ![p] = label]
    BY DEF BuildFetches
  <1>3. label \in Labels
    BY <1>1, <1>2, ListingFacts DEF Labels, Statuses
  <1>4. build' \in [Products -> Labels]
    BY <1>1, <1>2, <1>3 DEF Types, WorldTypes
  <1>5. Types'
    BY <1>1, <1>4, FaultFacts DEF BuildFetches, Request, shopVars, Types, WorldTypes
  <1> QED
    BY <1>5, NothingKept DEF BuildFetches, shopVars

\* A status is stored without an alert: one that says available is excused, one
\* that differs re-arms the watchlist.
LEMMA RowStored ==
  ASSUME IInv, NEW p \in Products, NEW status \in Statuses, NEW pin \in BOOLEAN,
         UpsertWatchlistEntry(p, status, pin),
         hist' = [hist EXCEPT ![p] = Stored(hist[p], p, status)],
         UNCHANGED <<shopVars, product, scan, check, cooldown, recent>>,
         build' \in [Products -> Labels],
         spent' \in [flips : 0..MaxFlips, events : 0..MaxEvents]
  PROVE  IInv'
  <1>1. Types /\ ScanInv /\ (\A q \in Products : ProductInv(q))
        /\ hist[p] \in Histories /\ stock[p] \in {"in", "out"} /\ status # "failed"
    BY DEF IInv, Types, WorldTypes, Statuses, Available
  <1>2. PICK h \in Histories : h = Stored(hist[p], p, status)
    BY <1>1, StoredFacts
  <1>3. /\ \A f \in {"scan", "watch", "misread", "overlap", "bought", "raced"} : h[f] = hist[p][f]
        /\ hist[p].excused => h.excused
        /\ hist[p].rearmed => h.rearmed
        /\ stock[p] = "in" /\ hist[p].watch > 0 /\ status # watch[p].status => h.rearmed
        /\ stock[p] = "in" /\ status \in Available => Told(hist[p]) \/ h.excused
    BY <1>1, <1>2, StoredFacts
  <1>4. /\ hist' \in [Products -> Histories] /\ hist'[p] = h
        /\ \A q \in Products : q # p => hist'[q] = hist[q]
    BY <1>1, <1>2 DEF Types
  <1>5. /\ watch' \in [Products -> Rows] /\ watch'[p].status = status
        /\ \A q \in Products : q # p => watch'[q] = watch[q]
    BY <1>1, UpsertFacts
  <1>6. /\ stock' = stock /\ product' = product /\ scan' = scan /\ check' = check
        /\ recent' = recent
    BY DEF shopVars
  <1>7. Types'
    BY <1>1, <1>4, <1>5 DEF shopVars, Types, WorldTypes
  <1>8. ScanInv'
    BY <1>1, <1>6 DEF ScanInv, Pending
  <1>9. \A q \in Products : q # p => Untouched(q)
    BY <1>4, <1>5, <1>6 DEF Untouched, Pending
  <1>10. ScanOnce(p)'
    BY <1>1, <1>3, <1>4, <1>6, <1>7, ScanOnceKept DEF ProductInv, Pending
  <1>11. WatchOnce(p)'
    BY <1>1, <1>3, <1>4, <1>5, <1>6, <1>7, WatchOnceKept DEF ProductInv
  <1>12. NoneSilent(p)'
    BY <1>1, <1>3, <1>4, <1>5, <1>6 DEF ProductInv, NoneSilent, Submitting, Answered, Told
  <1>13. OneJob(p)'
    BY <1>1, <1>3, <1>4, <1>6, <1>7, OneJobKept DEF ProductInv
  <1>14. ProductInv(p)'
    BY <1>10, <1>11, <1>12, <1>13 DEF ProductInv
  <1> QED
    BY <1>1, <1>7, <1>8, <1>9, <1>14, UntouchedKept DEF IInv

LEMMA BuildUpsertsKept ==
  ASSUME IInv, NEW p \in Products, BuildUpserts(p)
  PROVE  IInv'
  <1>1. Types /\ build[p] \in Statuses
    BY DEF IInv, BuildUpserts, Types, WorldTypes, Labels
  <1>2. /\ build' \in [Products -> Labels]
        /\ spent' \in [flips : 0..MaxFlips, events : 0..MaxEvents]
    BY <1>1 DEF BuildUpserts, Types, WorldTypes, Labels
  <1>3. CASE filtered[p]
    BY <1>1, <1>2, <1>3, RowStored DEF BuildUpserts
  <1>4. CASE ~filtered[p]
    <2>1. Types'
      BY <1>1, <1>2, <1>4 DEF BuildUpserts, shopVars, Types, WorldTypes
    <2> QED
      BY <1>4, <2>1, NothingKept DEF BuildUpserts, shopVars
  <1> QED
    BY <1>3, <1>4

LEMMA AddManualKept ==
  ASSUME IInv, NEW p \in Products, AddManual(p)
  PROVE  IInv'
  <1>1. Types /\ "unknown" \in Statuses
    BY DEF IInv, Statuses
  <1>2. /\ build' \in [Products -> Labels]
        /\ spent' \in [flips : 0..MaxFlips, events : 0..MaxEvents]
    BY <1>1, FaultFacts DEF AddManual, Request, Types, WorldTypes
  <1> QED
    BY <1>1, <1>2, RowStored DEF AddManual

LEMMA RowSetKept ==
  ASSUME IInv, NEW p \in Products, Archive(p) \/ Pause(p) \/ Resume(p)
  PROVE  IInv'
  <1>1. PICK from \in SUBSET {"live", "paused"}, to \in {"live", "paused", "archived"} :
           SetRow(p, from, to)
    BY DEF Archive, Pause, Resume
  <1>2. Types
    BY DEF IInv
  <1>3. /\ watch' \in [Products -> Rows]
        /\ \A q \in Products : watch'[q].status = watch[q].status
        /\ spent' \in [flips : 0..MaxFlips, events : 0..MaxEvents]
    BY <1>1, <1>2, SetRowFacts
  <1>4. Types'
    BY <1>1, <1>2, <1>3 DEF SetRow, shopVars, Types, WorldTypes
  <1> QED
    BY <1>1, <1>3, <1>4, NothingKept DEF SetRow, shopVars

LEMMA ToggleFilterKept ==
  ASSUME IInv, NEW p \in Products, ToggleFilter(p)
  PROVE  IInv'
  <1>1. Types'
    BY FaultFacts DEF IInv, ToggleFilter, Request, Types, WorldTypes
  <1> QED
    BY <1>1, NothingKept DEF ToggleFilter

LEMMA OperatorKept ==
  ASSUME IInv, NEW p \in Products, OperatorStep(p)
  PROVE  IInv'
  BY BuildFetchesKept, BuildUpsertsKept, AddManualKept, RowSetKept, ToggleFilterKept
     DEF OperatorStep

\* A new availability has no alert yet.  It is excused if its row, or a job about
\* to be submitted, did not see that the product was gone.
LEMMA FlipKept ==
  ASSUME IInv, NEW p \in Products, Flip(p)
  PROVE  IInv'
  <1>1. Types /\ ScanInv /\ (\A q \in Products : ProductInv(q))
        /\ hist[p] \in Histories /\ stock[p] \in {"in", "out"}
    BY DEF IInv, Types, WorldTypes
  <1>2. PICK h \in Histories :
           /\ hist' = [hist EXCEPT ![p] = h]
           /\ h.scan = 0 /\ h.watch = 0
           /\ h.bought = hist[p].bought /\ h.raced = hist[p].raced
           /\ stock[p] = "out" /\ Unseen(p) => h.excused
           /\ stock[p] = "out" /\ Both(p, {"due", "sending", "submitting"}) => h.overlap
    <2>1. hist' = [hist EXCEPT ![p] = NewEpisode(hist[p], p)]
      BY DEF Flip
    <2> QED
      BY <1>1, <2>1, NewEpisodeFacts
  <1>3. /\ hist' \in [Products -> Histories] /\ hist'[p] = h
        /\ \A q \in Products : q # p => hist'[q] = hist[q]
    BY <1>1, <1>2 DEF Types
  <1>4. /\ stock' \in [Products -> {"in", "out"}]
        /\ stock'[p] = IF stock[p] = "in" THEN "out" ELSE "in"
        /\ \A q \in Products : q # p => stock'[q] = stock[q]
    BY <1>1 DEF Flip, Types, WorldTypes
  <1>5. spent' \in [flips : 0..MaxFlips, events : 0..MaxEvents]
    BY <1>1, StockAssumption DEF Flip, Types, WorldTypes
  <1>6. /\ product' = product /\ scan' = scan /\ check' = check /\ recent' = recent
        /\ watch' = watch
    BY DEF Flip
  <1>7. Types'
    BY <1>1, <1>3, <1>4, <1>5 DEF Flip, Types, WorldTypes
  <1>8. ScanInv'
    BY <1>1, <1>6 DEF ScanInv, Pending
  <1>9. \A q \in Products : q # p => Untouched(q)
    BY <1>3, <1>4, <1>6 DEF Untouched, Pending
  <1>10. ScanOnce(p)'
    BY <1>2, <1>3 DEF ScanOnce
  <1>11. WatchOnce(p)'
    <2>1. stock[p] = "out" /\ ~h.overlap => \E t \in Trackers : ~Active(t, p)
      BY <1>1, <1>2 DEF Both, Active, Types, Checks
    <2> QED
      BY <1>1, <1>2, <1>3, <1>4, <1>6, <2>1 DEF WatchOnce, Active
  <1>12. NoneSilent(p)'
    BY <1>1, <1>2, <1>3, <1>4, <1>6 DEF NoneSilent, Unseen, Submitting, Answered
  <1>13. OneJob(p)'
    BY <1>1, <1>2, <1>3, <1>6 DEF ProductInv, OneJob, Submitting
  <1>14. ProductInv(p)'
    BY <1>10, <1>11, <1>12, <1>13 DEF ProductInv
  <1> QED
    BY <1>1, <1>7, <1>8, <1>9, <1>14, UntouchedKept DEF IInv

\* A new window has no job yet, unless both trackers are about to submit one.
LEMMA WindowEndsKept ==
  ASSUME IInv, NEW p \in Products, WindowEnds(p)
  PROVE  IInv'
  <1>1. Types /\ ScanInv /\ (\A q \in Products : ProductInv(q)) /\ hist[p] \in Histories
    BY DEF IInv, Types
  <1>2. PICK h \in Histories :
           /\ hist' = [hist EXCEPT ![p] = h]
           /\ \A f \in {"scan", "watch", "excused", "rearmed", "misread", "overlap"} :
                  h[f] = hist[p][f]
           /\ h.bought = 0
           /\ Both(p, {"submitting"}) => h.raced
    <2>1. hist' = [hist EXCEPT ![p] = NewWindow(hist[p], p)]
      BY DEF WindowEnds
    <2> QED
      BY <1>1, <2>1, NewWindowFacts
  <1>3. /\ hist' \in [Products -> Histories] /\ hist'[p] = h
        /\ \A q \in Products : q # p => hist'[q] = hist[q]
    BY <1>1, <1>2 DEF Types
  <1>4. /\ recent' \in [Products -> BOOLEAN]
        /\ \A q \in Products : q # p => recent'[q] = recent[q]
    BY <1>1 DEF WindowEnds, Types, WorldTypes
  <1>5. /\ stock' = stock /\ product' = product /\ scan' = scan /\ check' = check
        /\ watch' = watch
    BY DEF WindowEnds, shopVars
  <1>6. Types'
    BY <1>1, <1>3, <1>4 DEF WindowEnds, shopVars, Types, WorldTypes
  <1>7. ScanInv'
    BY <1>1, <1>5 DEF ScanInv, Pending
  <1>8. \A q \in Products : q # p => Untouched(q)
    BY <1>3, <1>4, <1>5 DEF Untouched, Pending
  <1>9. ScanOnce(p)'
    BY <1>1, <1>2, <1>3, <1>5, <1>6, ScanOnceKept DEF ProductInv, Pending
  <1>10. WatchOnce(p)'
    BY <1>1, <1>2, <1>3, <1>5, <1>6, WatchOnceKept DEF ProductInv
  <1>11. NoneSilent(p)'
    BY <1>1, <1>2, <1>3, <1>5 DEF ProductInv, NoneSilent, Submitting, Answered, Told
  <1>12. OneJob(p)'
    BY <1>2, <1>3, <1>5 DEF OneJob, Both
  <1>13. ProductInv(p)'
    BY <1>9, <1>10, <1>11, <1>12 DEF ProductInv
  <1> QED
    BY <1>1, <1>6, <1>7, <1>8, <1>13, UntouchedKept DEF IInv

-----------------------------------------------------------------------------
LEMMA InitInv == Init => IInv
  <1> SUFFICES ASSUME Init PROVE IInv
    OBVIOUS
  <1>1. WorldTypes
    BY StockAssumption DEF Init, WorldTypes, Labels
  <1>2. watch \in [Products -> Rows] /\ \A p \in Products : watch[p].status = "unknown"
    BY DEF Init, NoRow, Rows, Statuses
  <1>3. scan \in Scans /\ ScanInv
    BY StockAssumption, NoScanFacts DEF Init, NoScan, ScanInv, Pending, Absent
  <1>4. /\ check \in [Trackers -> [Products -> Checks]]
        /\ \A t \in Trackers, p \in Products : check[t][p].at = "idle"
    BY NoCheckFacts DEF Init
  <1>5. hist \in [Products -> Histories] /\ \A p \in Products : hist[p] = NoHistory
    BY NoHistoryFacts DEF Init
  <1>6. \A p \in Products : ProductInv(p)
    BY <1>2, <1>4, <1>5 DEF ProductInv, ScanOnce, WatchOnce, NoneSilent, OneJob, Active,
       Submitting, NoHistory, Available, Trackers
  <1> QED
    BY <1>1, <1>2, <1>3, <1>4, <1>5, <1>6 DEF IInv, Types

LEMMA NextInv == IInv /\ [Next]_vars => IInv'
  <1> SUFFICES ASSUME IInv, [Next]_vars PROVE IInv'
    OBVIOUS
  <1>1. CASE ScanStep
    BY <1>1, ScanKept
  <1>2. CASE LoopCycle \/ ManualScan \/ Restart
    BY <1>2, LoopCycleKept, ManualScanKept, RestartKept
  <1>3. CASE \E t \in Trackers : CooldownEnds(t)
    BY <1>3, CooldownEndsKept
  <1>4. CASE \E t \in Trackers, p \in Products : CheckStep(t, p)
    BY <1>4, CheckStepKept
  <1>5. CASE \E p \in Products : OperatorStep(p) \/ Flip(p) \/ WindowEnds(p)
    BY <1>5, OperatorKept, FlipKept, WindowEndsKept
  <1>6. CASE UNCHANGED vars
    <2>1. Types'
      BY <1>6 DEF IInv, vars, shopVars, Types, WorldTypes
    <2> QED
      BY <1>6, <2>1, NothingKept DEF vars
  <1> QED
    BY <1>1, <1>2, <1>3, <1>4, <1>5, <1>6 DEF Next

\* Of every behaviour: the rows, the alerts and what is on its way agree.
THEOREM StockInvariant == Spec => []IInv
  BY InitInv, NextInv, PTL DEF Spec

\* Every variable has its type.
THEOREM StockTypes == Spec => []TypeOK
  <1>1. IInv => TypeOK
    BY DEF IInv, Types, WorldTypes, TypeOK, Rows, Scans, Checks, Histories
  <1> QED
    BY <1>1, StockInvariant, PTL

\* An availability is alerted on at most once by the scan and once by the
\* watchlist, whatever the loop, a manual scan, a build, the operator, failing
\* alerts and restarts do in between, unless a listing misread the stock, the row
\* was changed although the stock was not, or two trackers were on the product.
THEOREM AlertedOnce == Spec => []AlertsOnce
  <1>1. IInv => AlertsOnce
    BY DEF IInv, ProductInv, ScanOnce, WatchOnce, AlertsOnce, Types, WorldTypes
  <1> QED
    BY <1>1, StockInvariant, PTL

\* A product whose row says available, and is, was alerted on, or is one of the
\* cases that the code does not alert on.
THEOREM NoneMissed == Spec => []NoSilentRestock
  <1>1. IInv => NoSilentRestock
    BY DEF IInv, ProductInv, NoneSilent, Answered, Quiet, NoSilentRestock
  <1> QED
    BY <1>1, StockInvariant, PTL

\* The watchlist queues one job for a product in ten minutes, unless two trackers
\* look for the last one together.
THEOREM OneJobPerWindow == Spec => []BuysOncePerWindow
  <1>1. IInv => BuysOncePerWindow
    BY DEF IInv, ProductInv, OneJob, BuysOncePerWindow
  <1> QED
    BY <1>1, StockInvariant, PTL
-----------------------------------------------------------------------------
\* A shop whose listing never denies what it has: PocketGames' JSON is one.
CandidShop == Listing(shop, "in") \subseteq Available

\* There no listing takes back an alert: one that says "out" of a product in stock
\* was fetched before the product came back, and nothing was reported since.
Candid(p) ==
    CandidShop =>
        /\ ~hist[p].misread
        /\ scan.at = "fetched" /\ stock[p] = "in" /\ scan.list[p] \in {"out", "blocked"}
              => hist[p].scan = 0

\* A step that leaves this history alone, and the listing if one was fetched.
Spared(p) ==
    /\ shop' = shop /\ stock'[p] = stock[p]
    /\ hist'[p].misread = hist[p].misread
    /\ scan'.at = "fetched" => scan' = scan /\ hist'[p].scan = hist[p].scan

LEMMA SparedCandid ==
  ASSUME NEW p \in Products, Candid(p), Spared(p)
  PROVE  Candid(p)'
  BY DEF Candid, CandidShop, Spared

\* The operators on the history that leave it alone.
Milder(h, g) == g.scan = h.scan /\ g.misread = h.misread

LEMMA MildOperators ==
  ASSUME NEW h \in Histories, NEW p, NEW status
  PROVE  /\ Milder(h, Stored(h, p, status)) /\ Milder(h, Reported(h, p, status))
         /\ Milder(h, Rearmed(h, p)) /\ Milder(h, Dropped(h, p)) /\ Milder(h, Overlapped(h, p))
         /\ Milder(h, ToldByWatch(h, p)) /\ Milder(h, Rearmed(ToldByWatch(h, p), p))
         /\ Milder(h, Raced(ToldByWatch(h, p))) /\ Milder(h, Bought(h)) /\ Milder(h, NewWindow(h, p))
  <1>1. ToldByWatch(h, p) \in Histories /\ Milder(h, ToldByWatch(h, p))
    BY ToldByWatchFacts DEF Milder
  <1>2. Milder(h, Rearmed(ToldByWatch(h, p), p)) /\ Milder(h, Raced(ToldByWatch(h, p)))
    BY <1>1, RearmedFacts, RacedFacts DEF Milder
  <1>3. Milder(h, Stored(h, p, status)) /\ Milder(h, Reported(h, p, status))
    BY StoredFacts, ReportedFacts DEF Milder
  <1>4. Milder(h, Rearmed(h, p)) /\ Milder(h, Dropped(h, p)) /\ Milder(h, Overlapped(h, p))
    BY RearmedFacts, DroppedFacts, OverlappedFacts DEF Milder
  <1>5. Milder(h, Bought(h)) /\ Milder(h, NewWindow(h, p))
    BY BoughtFacts, NewWindowFacts DEF Milder
  <1> QED
    BY <1>1, <1>2, <1>3, <1>4, <1>5

\* A tracker's step, one of the operator's and the end of a window.
LEMMA OtherSpared ==
  ASSUME Types, NEW q \in Products,
         \/ LoopCycle \/ ManualScan
         \/ \E t \in Trackers : CooldownEnds(t)
         \/ \E t \in Trackers, p \in Products : CheckStep(t, p)
         \/ \E p \in Products : OperatorStep(p) \/ WindowEnds(p)
         \/ UNCHANGED vars
  PROVE  Spared(q)
  <1>1. /\ hist[q] \in Histories
        /\ \A p : hist' = [hist EXCEPT ![p] = hist'[p]] /\ Milder(hist[p], hist'[p])
                     => Milder(hist[q], hist'[q])
    BY DEF Types, Milder
  <1>2. shop' = shop /\ stock' = stock /\ scan' = scan /\ Milder(hist[q], hist'[q]) => Spared(q)
    BY DEF Spared, Milder
  <1>3. CASE LoopCycle \/ ManualScan
    <2>1. PICK t \in Trackers, items \in SUBSET Products : CycleOf(t, items)
      BY <1>3 DEF LoopCycle, ManualScan, Trackers
    <2>2. hist'[q] = hist[q] \/ hist'[q] = Overlapped(hist[q], q)
      BY <2>1, CycleFacts
    <2> QED
      BY <1>1, <1>2, <2>1, <2>2, MildOperators DEF CycleOf, shopVars, Milder
  <1>4. CASE \E t \in Trackers : CooldownEnds(t)
    BY <1>2, <1>4 DEF CooldownEnds, shopVars, Milder
  <1>5. CASE \E t \in Trackers, p \in Products : CheckStep(t, p)
    <2> PICK t \in Trackers, p \in Products : CheckStep(t, p)
      BY <1>5
    <2>1. UNCHANGED <<shopVars, scan>>
      BY DEF CheckStep, CheckSkips, CheckUnsafe, CheckAnswers, CheckSent, CheckSubmits, CheckFails
    <2>2. PICK h \in {hist[p]} \cup {Stored(hist[p], p, status) : status \in Statuses \cup {"failed"}}
                     \cup {Rearmed(hist[p], p), ToldByWatch(hist[p], p), Bought(hist[p]),
                           Rearmed(ToldByWatch(hist[p], p), p), Raced(ToldByWatch(hist[p], p))} :
             hist' = [hist EXCEPT ![p] = h]
      <3>1. CASE CheckSkips(t, p)
        BY <3>1 DEF CheckSkips, Types
      <3>2. CASE CheckAnswers(t, p)
        <4>1. PICK answer \in CheckItem(shop, stock[p]) :
                 \/ hist' = [hist EXCEPT ![p] = IF check[t][p].prev \in Available
                                                THEN Rearmed(@, p) ELSE @]
                 \/ hist' = [hist EXCEPT ![p] = Stored(@, p, answer.status)]
          BY <3>2 DEF CheckAnswers
        <4>2. answer.status \in Statuses \cup {"failed"}
          <5>1. shop \in Retailers /\ stock[p] \in Stock
            BY StockAssumption DEF Types, WorldTypes, Stock
          <5> QED
            BY <5>1, CheckFacts
        <4> QED
          BY <4>1, <4>2
      <3>3. CASE CheckSent(t, p)
        BY <3>3 DEF CheckSent
      <3>4. CASE CheckSubmits(t, p)
        BY <3>4 DEF CheckSubmits
      <3>5. CASE CheckFails(t, p)
        BY <3>5 DEF CheckFails, Types
      <3>6. CASE CheckUnsafe(t, p)
        <4>1. check[t][p].prev \in Statuses
          BY DEF Types, Checks
        <4> QED
          BY <3>6, <4>1 DEF CheckUnsafe
      <3> QED
        BY <3>1, <3>2, <3>3, <3>4, <3>5, <3>6 DEF CheckStep
    <2>3. Milder(hist[p], h)
      <3>1. hist[p] \in Histories
        BY DEF Types
      <3> QED
        BY <2>2, <3>1, MildOperators DEF Milder
    <2>4. Milder(hist[q], hist'[q])
      BY <2>2, <2>3 DEF Types, Milder
    <2> QED
      BY <1>2, <2>1, <2>4 DEF shopVars
  <1>6. CASE \E p \in Products : OperatorStep(p) \/ WindowEnds(p)
    <2> PICK p \in Products : OperatorStep(p) \/ WindowEnds(p)
      BY <1>6
    <2>1. shop' = shop /\ stock' = stock /\ scan' = scan
      BY DEF OperatorStep, WindowEnds, BuildFetches, BuildUpserts, AddManual, Archive, Pause, Resume,
             SetRow, ToggleFilter, shopVars
    <2>2. \/ hist' = hist
          \/ \E status : hist' = [hist EXCEPT ![p] = Stored(@, p, status)]
          \/ hist' = [hist EXCEPT ![p] = NewWindow(@, p)]
      BY DEF OperatorStep, WindowEnds, BuildFetches, BuildUpserts, AddManual, Archive, Pause, Resume,
             SetRow, ToggleFilter
    <2>3. Milder(hist[q], hist'[q])
      <3>1. hist \in [Products -> Histories] /\ hist[p] \in Histories
        BY DEF Types
      <3> QED
        BY <2>2, <3>1, MildOperators DEF Milder
    <2> QED
      BY <1>2, <2>1, <2>3
  <1>7. CASE UNCHANGED vars
    BY <1>2, <1>7 DEF vars, shopVars, Milder
  <1> QED
    BY <1>3, <1>4, <1>5, <1>6, <1>7

\* A fetch reads what the shop has; an upsert takes back only what was not
\* reported; the scan's alerts come after the listing is done with.
LEMMA ScanCandid ==
  ASSUME Types, ScanInv, NEW q \in Products, ScanOnce(q), Candid(q), ScanStep
  PROVE  Candid(q)'
  <1>1. hist[q] \in Histories /\ stock[q] \in {"in", "out"}
    BY DEF Types, WorldTypes
  <1>2. CASE ScanFetches
    <2>1. scan'.list[q] \in Listing(shop, stock[q]) \cup {Absent}
      BY <1>2 DEF ScanFetches, NoScan
    <2>2. CandidShop /\ stock[q] = "in" => scan'.list[q] \notin {"out", "blocked"}
      BY <2>1 DEF CandidShop, Available, Absent
    <2> QED
      BY <1>2, <2>2 DEF ScanFetches, shopVars, Candid, CandidShop
  <1>3. CASE ScanUpserts
    <2>1. /\ scan.at = "fetched" /\ scan'.at = "items"
          /\ hist'[q] = IF scan.list[q] \in {"out", "blocked"} THEN Misread(hist[q], q) ELSE hist[q]
      BY <1>3 DEF ScanUpserts, Types, Scans
    <2>2. CandidShop => ~hist'[q].misread
      BY <1>1, <2>1 DEF Candid, Misread, Histories
    <2> QED
      BY <1>3, <2>1, <2>2 DEF ScanUpserts, shopVars, Candid, CandidShop
  <1>4. CASE ScanItem
    <2>1. PICK p \in Products :
             hist' = [hist EXCEPT ![p] =
                LET stored == IF filtered[p] THEN Stored(@, p, scan.list[p]) ELSE @
                IN  IF filtered[p] /\ p \in scan.fresh /\ mode # "off"
                    THEN Reported(@, p, scan.list[p])
                    ELSE IF p \in scan.fresh THEN Dropped(stored, p) ELSE stored]
      BY <1>4 DEF ScanItem, Types, Scans
    <2> DEFINE stored == IF filtered[p] THEN Stored(hist[p], p, scan.list[p]) ELSE hist[p]
    <2>2. hist[p] \in Histories /\ stored \in Histories /\ stored.misread = hist[p].misread
      BY StoredFacts DEF Types
    <2>3. Dropped(stored, p).misread = hist[p].misread
      BY <2>2, DroppedFacts
    <2>4. Reported(hist[p], p, scan.list[p]).misread = hist[p].misread
      BY <2>2, ReportedFacts
    <2>5. hist'[q].misread = hist[q].misread
      BY <2>1, <2>2, <2>3, <2>4 DEF Types
    <2>6. scan'.at = "items"
      BY <1>4 DEF ScanItem, Types, Scans
    <2> QED
      BY <1>4, <2>5, <2>6, SparedCandid DEF ScanItem, shopVars, Spared
  <1>5. CASE ScanSent
    <2>1. scan.at = "items" /\ scan'.at = "items"
      BY <1>5 DEF ScanSent, ScanInv, Types, Scans
    <2>2. hist'[q] = hist[q] \/ hist'[q] = ToldByScan(hist[q], q)
      BY <1>5 DEF ScanSent, Types
    <2>3. hist'[q].misread = hist[q].misread
      BY <1>1, <2>2, ToldByScanFacts
    <2> QED
      BY <1>5, <2>1, <2>3, SparedCandid DEF ScanSent, shopVars, Spared
  <1>6. CASE ScanFails
    <2>1. scan'.at = "idle"
      BY <1>6 DEF ScanFails, NoScan
    <2>2. hist'[q] \in {hist[q], ToldByScan(hist[q], q), Dropped(hist[q], q)}
      BY <1>6 DEF ScanFails
    <2>3. hist'[q].misread = hist[q].misread
      BY <1>1, <2>2, ToldByScanFacts, DroppedFacts
    <2> QED
      BY <1>6, <2>1, <2>3, SparedCandid DEF ScanFails, shopVars, Spared
  <1>7. CASE ScanEnds
    BY <1>7, SparedCandid DEF ScanEnds, NoScan, shopVars, Spared
  <1> QED
    BY <1>2, <1>3, <1>4, <1>5, <1>6, <1>7 DEF ScanStep

LEMMA CandidInit ==
  ASSUME Init, NEW q \in Products
  PROVE  Candid(q)
  BY DEF Init, NoHistory, NoScan, Candid

LEMMA CandidStep ==
  ASSUME IInv, [Next]_vars, NEW q \in Products, Candid(q)
  PROVE  Candid(q)'
  <1>1. Types /\ ScanInv /\ ScanOnce(q) /\ hist[q] \in Histories
    BY DEF IInv, ProductInv, Types
  <1>2. CASE ScanStep
    BY <1>1, <1>2, ScanCandid
  <1>3. CASE Restart
    <2>1. hist'[q] \in {hist[q], Dropped(hist[q], q), Rearmed(hist[q], q),
                        Rearmed(ToldByWatch(hist[q], q), q)}
      BY <1>3 DEF Restart
    <2>2. hist'[q].misread = hist[q].misread
      BY <1>1, <2>1, MildOperators DEF Milder
    <2>3. scan'.at = "idle"
      BY <1>3 DEF Restart, NoScan
    <2> QED
      BY <1>3, <2>2, <2>3, SparedCandid DEF Restart, shopVars, Spared
  <1>4. CASE \E p \in Products : Flip(p)
    <2> PICK p \in Products : Flip(p)
      BY <1>4
    <2>1. CASE q = p
      <3>1. hist'[q].scan = 0 /\ ~hist'[q].misread
        BY <1>1, <2>1 DEF Flip, NewEpisode, Types
      <3> QED
        BY <3>1 DEF Candid
    <2>2. CASE q # p
      <3>1. hist'[q] = hist[q] /\ stock'[q] = stock[q]
        BY <1>1, <2>2 DEF Flip, Types, WorldTypes
      <3> QED
        BY <3>1, SparedCandid DEF Flip, Spared
    <2> QED
      BY <2>1, <2>2
  <1>5. CASE ~ScanStep /\ ~Restart /\ ~(\E p \in Products : Flip(p))
    BY <1>1, <1>5, OtherSpared, SparedCandid DEF Next
  <1> QED
    BY <1>2, <1>3, <1>4, <1>5

\* Where no listing denies what the shop has, the scan alerts on an availability
\* at most once, and this needs no exception: not for failing alerts, restarts,
\* two trackers, nor for what the operator does.
THEOREM CandidScans == Spec => [](CandidShop => \A p \in Products : hist[p].scan <= 1)
  <1> DEFINE AllCandid == \A p \in Products : Candid(p)
  <1>1. Init => AllCandid
    BY CandidInit
  <1>2. IInv /\ AllCandid /\ [Next]_vars => AllCandid'
    BY CandidStep
  <1>3. IInv /\ AllCandid => (CandidShop => \A p \in Products : hist[p].scan <= 1)
    BY DEF IInv, ProductInv, ScanOnce, Candid, Types, WorldTypes
  <1> HIDE DEF AllCandid
  <1> QED
    BY <1>1, <1>2, <1>3, StockInvariant, PTL DEF Spec

\* PocketGames is such a shop.
LEMMA PocketGamesCandid == shop = "pocketgames" => CandidShop
  BY DEF CandidShop, Listing, PocketGamesListing, Stock, Available
=============================================================================
