------------------------------- MODULE Ordering -------------------------------
(***************************************************************************)
(* What the checkout handlers of MediaMarkt, Dreamland and Bol promise     *)
(* together: the jobs of one shop, run one after another by one worker,    *)
(* each put a unit of their product into the basket the browser profile    *)
(* keeps, on top of what earlier jobs left there, and order that basket at *)
(* most once, unless the answer to a click was lost.                       *)
(* The handlers themselves are modelled in Checkout, which implements this *)
(* specification.                                                          *)
(***************************************************************************)
EXTENDS Baskets

VARIABLES
  job,       \* the job the worker is in, or was in last; 0 before the first
  product,   \* what each job is for, once it has begun
  running,   \* TRUE while the handler of that job runs
  added,     \* TRUE when a unit was put into the basket for this job
  basket,    \* units of each product in the shop's basket
  order,     \* what the job's order held; empty while it has none
  placed,    \* orders the shop took from each job
  bought,    \* units of each product the shop sold
  unsure,    \* the jobs that lost an answer of the shop
  outcome    \* how each job ended for the worker

vars == <<job, product, running, added, basket, order, placed, bought, unsure, outcome>>

\* A job the watchdog ends, or would have, is timed out however it ended.
Outcomes == {"none", "success", "failed", "timed_out"}

TypeOK ==
  /\ job \in 0 .. Jobs
  /\ product \in [JobIds -> Products \union {NoProduct}]
  /\ running \in BOOLEAN
  /\ running => job > 0 /\ product[job] \in Products
  /\ added \in BOOLEAN
  /\ basket \in Quantities
  /\ order \in Quantities
  /\ placed \in [JobIds -> Nat]
  /\ bought \in Quantities
  /\ unsure \in SUBSET JobIds
  /\ outcome \in [JobIds -> Outcomes]

Init ==
  /\ job = 0
  /\ product = [j \in JobIds |-> NoProduct]
  /\ running = FALSE
  /\ added = FALSE
  /\ basket = Empty
  /\ order = Empty
  /\ placed = [j \in JobIds |-> 0]
  /\ bought = Empty
  /\ unsure = {}
  /\ outcome = [j \in JobIds |-> "none"]

\* The worker takes the next job, for p.
Begin(p) ==
  /\ ~ running
  /\ job < Jobs
  /\ job' = job + 1
  /\ product' = [product EXCEPT ![job + 1] = p]
  /\ running' = TRUE
  /\ added' = FALSE
  /\ order' = Empty
  /\ UNCHANGED <<basket, placed, bought, unsure, outcome>>

\* The answer to what this step did may be lost.
MayLose == unsure' \in {unsure, unsure \union {job}}

\* A unit of the job's product goes into the basket, whatever is in it.  The job
\* puts a second one only when the answer to the first was lost, and none after
\* its order.
Put ==
  /\ running
  /\ placed[job] = 0
  /\ ~ added \/ job \in unsure
  /\ added' = TRUE
  /\ basket' = [basket EXCEPT ![product[job]] = @ + 1]
  /\ MayLose
  /\ UNCHANGED <<job, product, running, order, placed, bought, outcome>>

\* The shop takes the job's order: the whole basket, which is then empty.
Place ==
  /\ running
  /\ placed[job] = 0
  /\ basket # Empty
  /\ order' = basket
  /\ bought' = Plus(bought, basket)
  /\ placed' = [placed EXCEPT ![job] = @ + 1]
  /\ basket' = Empty
  /\ MayLose
  /\ UNCHANGED <<job, product, running, added, outcome>>

\* The same order once more, by a handler that lost the answer to the first.
Repeat ==
  /\ running
  /\ placed[job] > 0
  /\ job \in unsure
  /\ bought' = Plus(bought, order)
  /\ placed' = [placed EXCEPT ![job] = @ + 1]
  /\ UNCHANGED <<job, product, running, added, basket, order, unsure, outcome>>

\* The handler returns or raises.  It raises after an order only when it lost
\* an answer, or because its time was up.
End(r) ==
  /\ running
  /\ running' = FALSE
  /\ outcome' = [outcome EXCEPT ![job] = r]
  /\ MayLose
  /\ (r = "failed" /\ placed[job] > 0) => job \in unsure'
  /\ UNCHANGED <<job, product, added, basket, order, placed, bought>>

Next ==
  \/ \E p \in Products : Begin(p)
  \/ Put
  \/ Place
  \/ Repeat
  \/ \E r \in Outcomes \ {"none"} : End(r)

Spec == Init /\ [][Next]_vars

-----------------------------------------------------------------------------
(***************************************************************************)
(* What the shop's customer relies on.                                     *)
(***************************************************************************)

\* A job that lost no answer is ordered at most once.
OneOrderPerJob == \A j \in JobIds : placed[j] <= 1 \/ j \in unsure

\* Of a product no more units are bought than there were jobs for it, unless one
\* of them, or a later job that ordered the left-over basket, lost an answer.
BoughtPerJob ==
  \A p \in Products :
    \/ bought[p] <= Cardinality(JobsFor(product, p))
    \/ \E i \in JobsFor(product, p), j \in unsure : i <= j

\* A job the worker reports as failed bought nothing, unless it lost an answer.
\* One that it reports as timed out may have.
FailedBoughtNothing ==
  \A j \in JobIds :
    (outcome[j] = "failed" /\ placed[j] > 0) => j \in unsure

\* All three promises.
Promises ==
  /\ OneOrderPerJob
  /\ BoughtPerJob
  /\ FailedBoughtNothing
=============================================================================
