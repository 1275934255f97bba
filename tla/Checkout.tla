------------------------------- MODULE Checkout -------------------------------
(***************************************************************************)
(* The checkout handlers of MediaMarkt, Dreamland and Bol: what each does  *)
(* from the page it opens to the click that pays, against a shop that may  *)
(* show any page at any time, lose the answer to a click, or hold the      *)
(* browser in its waiting room.  One worker runs the jobs of one shop one  *)
(* after another, and the shop's basket outlives each of them because the  *)
(* browser profile does.  Clicks that are tried by text, by locator and by *)
(* script are one click that is repeated while it raises; the fields a page*)
(* asks for are not modelled.                                              *)
(***************************************************************************)
EXTENDS Baskets

CONSTANTS
  MaxRounds,   \* rounds the handler looks at the page before it gives up: 6
  Surprises    \* bound on pages that change by themselves and answers lost

ASSUME CheckoutAssumption ==
  /\ MaxRounds \in Nat
  /\ Surprises \in Nat

VARIABLES
  shop,        \* whose handler this is
  queueCheck,  \* queue_check_enabled
  job,         \* the job the worker is in, or was in last; 0 before the first
  product,     \* what each job is for, once it has begun
  at,          \* where in its handler the worker is; "idle" between jobs
  round,       \* rounds of the checkout loop it has finished
  step,        \* the step it recognised on the page it looked at last
  page,        \* what the browser shows
  offer,       \* what the page's pay button would order
  stock,       \* FALSE when the shop shows the product as unavailable
  surprises,   \* surprises the shop has sprung
  added,       \* TRUE when the shop added a unit for this job
  basket,      \* units of each product in the shop's basket
  order,       \* what the job's order held; empty while it has none
  placed,      \* orders the shop took from each job
  bought,      \* units of each product the shop sold
  unsure,      \* the jobs that lost an answer of the shop
  outcome      \* how each job ended for the worker

jobVars == <<shop, queueCheck, job, product>>
handlerVars == <<jobVars, at, round, step, outcome>>
pageVars == <<page, offer>>
shopVars == <<added, basket, order, placed, bought, unsure>>
vars == <<handlerVars, pageVars, stock, surprises, shopVars>>

Shops == {"mediamarkt", "dreamland", "bol"}

-----------------------------------------------------------------------------
(***************************************************************************)
(* Pages.  "modal" is the drawer or dialog that follows add to cart,       *)
(* "order", "details" and "confirm" are the steps before the payment       *)
(* method, "pay" the page with the button that orders (MediaMarkt's        *)
(* external payment page, Dreamland's summary, Bol's last step), "inside"  *)
(* a page of the checkout no step is recognised on, "outside" any other.   *)
(***************************************************************************)
Sellable == {"modal", "order", "details", "confirm", "payment", "pay"}

Pages == Sellable \union
         {"product", "cart", "login", "inside", "outside", "queue", "done"}

\* The steps each handler recognises, and the pages whose address it takes
\* for its checkout.
Steps ==
  [mediamarkt |-> Sellable,
   dreamland  |-> {"login", "modal", "cart", "details", "payment", "pay"},
   bol        |-> {}]

InCheckout ==
  [mediamarkt |-> {"order", "details", "confirm", "payment", "inside"},
   dreamland  |-> {"details", "payment", "pay", "inside"},
   bol        |-> {}]

Seen == IF page \in Steps[shop] THEN page ELSE "unknown"

\* The shop shows page p, which offers to order only a basket that holds
\* something.
Show(p) ==
  /\ page' = p
  /\ p \in Sellable => basket' # Empty
  /\ offer' = IF p = "pay" THEN basket' ELSE Empty

ShowAny == \E p \in Pages \ {"done"} : Show(p)

-----------------------------------------------------------------------------
(***************************************************************************)
(* Moves of a handler.                                                     *)
(***************************************************************************)
Locations ==
  {"idle", "start", "warm", "warmAdded", "opened", "validated", "find",
   "adding", "added", "confirm", "cartOpened", "cartCheck", "settled", "first",
   "reopened", "recheck", "round", "look", "act", "form", "press", "led",
   "posted", "choose", "chosen", "card", "carded", "paying", "pay", "recover",
   "recovered", "asked", "leaving", "paid", "raised"}

\* Where the handler goes on after the click that adds.
AfterAdd == [mediamarkt |-> "confirm", dreamland |-> "added", bol |-> "added"]

\* The handler goes on at l in the same round.
Move(l) == at' = l /\ UNCHANGED <<jobVars, round, step, outcome>>

NextRound ==
  /\ at' = "round"
  /\ round' = round + 1
  /\ UNCHANGED <<jobVars, step, outcome>>

\* The handler returns, or raises into the worker's job loop.  When its watchdog
\* fired before, the job is timed out, whatever came of it.
Leave(r) ==
  /\ at' = "idle"
  /\ \E result \in {r, "timed_out"} : outcome' = [outcome EXCEPT ![job] = result]
  /\ UNCHANGED <<jobVars, round, step>>

Fail == Leave("failed") /\ UNCHANGED pageVars

\* Nothing is put into the basket and nothing ordered.
OnlyBrowse == UNCHANGED <<stock, surprises, shopVars>>

\* The shop reacts to a click it did not take.
Refuse ==
  /\ OnlyBrowse
  /\ \E p \in {"product", "login", "outside", "queue", "payment"} : Show(p)

Put ==
  /\ added' = TRUE
  /\ basket' = [basket EXCEPT ![product[job]] = @ + 1]

\* The shop acts on a click whose answer never reaches the handler.
LoseAnswer ==
  /\ surprises < Surprises
  /\ surprises' = surprises + 1
  /\ unsure' = unsure \union {job}

-----------------------------------------------------------------------------
Init ==
  /\ shop \in Shops
  /\ queueCheck \in BOOLEAN
  /\ job = 0
  /\ product = [j \in JobIds |-> NoProduct]
  /\ at = "idle"
  /\ round = 0
  /\ step = "unknown"
  /\ page = "outside"
  /\ offer = Empty
  /\ stock = TRUE
  /\ surprises = 0
  /\ added = FALSE
  /\ basket = Empty
  /\ order = Empty
  /\ placed = [j \in JobIds |-> 0]
  /\ bought = Empty
  /\ unsure = {}
  /\ outcome = [j \in JobIds |-> "none"]

\* The worker takes the next job, for p, of which an earlier job may have left
\* a unit in the basket.  A MediaMarkt job starts on the warm tab of
\* its product when there is one.
Begin(first, p) ==
  /\ at = "idle"
  /\ job < Jobs
  /\ first = "warm" => shop = "mediamarkt"
  /\ job' = job + 1
  /\ product' = [product EXCEPT ![job + 1] = p]
  /\ at' = first
  /\ round' = 0
  /\ step' = "unknown"
  /\ added' = FALSE
  /\ order' = Empty
  /\ stock' \in BOOLEAN
  /\ page' \in IF first = "warm" THEN {"product", "queue", "outside"} ELSE {"outside"}
  /\ offer' = Empty
  /\ UNCHANGED <<shop, queueCheck, outcome, surprises, basket, placed, bought, unsure>>

\* wait_if_queue: in the waiting room the handler waits, and raises when the
\* room does not let it go in time; with the check disabled it goes on at once.
Gates ==
  [mediamarkt |->
     {<<"opened", "find">>, <<"added", "settled">>, <<"settled", "first">>,
      <<"reopened", "recheck">>, <<"round", "look">>, <<"form", "press">>,
      <<"choose", "chosen">>, <<"card", "carded">>, <<"paying", "pay">>,
      <<"recover", "recovered">>},
   dreamland |->
     {<<"validated", "find">>, <<"added", "confirm">>, <<"cartOpened", "cartCheck">>,
      <<"settled", "first">>, <<"reopened", "recheck">>, <<"round", "look">>,
      <<"form", "press">>, <<"paying", "pay">>, <<"recover", "recovered">>},
   bol |->
     {<<"added", "settled">>, <<"settled", "first">>, <<"reopened", "recheck">>,
      <<"leaving", "paying">>, <<"paying", "pay">>}]

InRoom == queueCheck /\ page = "queue"

\* Mutant: the loop of rounds has no bound.
WaitIfQueue_NoBound ==
  \E g \in Gates[shop] :
    /\ at = g[1]
    /\ \/ InRoom /\ Leave("failed")
       \/ ~ InRoom /\ Move(g[2])
    /\ UNCHANGED pageVars
    /\ OnlyBrowse

WaitIfQueue ==
  \E g \in Gates[shop] :
    /\ at = g[1]
    /\ at = "round" => round < MaxRounds
    /\ \/ InRoom /\ Leave("failed")
       \/ ~ InRoom /\ Move(g[2])
    /\ UNCHANGED pageVars
    /\ OnlyBrowse

\* The loop ran out of rounds.
GiveUp ==
  /\ at = "round"
  /\ round = MaxRounds
  /\ Fail
  /\ OnlyBrowse

\* Any call to the browser may raise.  After the click that pays, MediaMarkt
\* and Dreamland only wait, which catches everything; Bol asks the browser
\* for its address, and a raise there loses the shop's answer.
DriverRaises ==
  /\ at \notin {"idle", "paid"}
  /\ Fail
  /\ OnlyBrowse

-----------------------------------------------------------------------------
(***************************************************************************)
(* Into the basket.                                                        *)
(***************************************************************************)
OpenProduct ==
  /\ at = "start"
  /\ shop # "bol"
  /\ OnlyBrowse
  /\ \E p \in {"product", "queue", "outside", "login"} : Show(p)
  /\ Move("opened")

\* The product page is checked: MediaMarkt once, right before the click,
\* Dreamland also when it opens, and Dreamland lets a waiting room pass.
CheckProduct(from, to) ==
  /\ at = from
  /\ IF \/ page = "product" /\ stock
        \/ page = "queue" /\ shop = "dreamland"
     THEN Move(to) ELSE Leave("failed")
  /\ UNCHANGED pageVars
  /\ OnlyBrowse

CheckProducts ==
  \/ shop = "dreamland" /\ CheckProduct("opened", "validated")
  \/ CheckProduct("find", "adding")

\* The click that adds.  One that raises after the shop took it is repeated
\* while its button is there.
PressAdd ==
  /\ at = "adding"
  /\ \/ /\ page = "product"
        /\ stock
        /\ Put
        /\ ShowAny
        /\ \/ UNCHANGED <<surprises, unsure>> /\ Move(AfterAdd[shop])
           \/ LoseAnswer /\ UNCHANGED handlerVars
        /\ UNCHANGED <<stock, order, placed, bought>>
     \/ page = "product" /\ Refuse /\ Move(AfterAdd[shop])
     \/ page # "product" /\ Fail /\ OnlyBrowse

\* On a warm tab the queue and the product are looked at once, without
\* waiting, and the click is made once.
WarmSells == page = "product" /\ stock

WarmAdd ==
  /\ at = "warm"
  /\ \/ /\ WarmSells
        /\ Put
        /\ ShowAny
        /\ \/ UNCHANGED <<surprises, unsure>> /\ Move("warmAdded")
           \/ LoseAnswer /\ Move("raised")
        /\ UNCHANGED <<stock, order, placed, bought>>
     \/ WarmSells /\ Refuse /\ Move("warmAdded")
     \/ ~ WarmSells /\ Fail /\ OnlyBrowse

\* A warm click that is not confirmed in time counts as confirmed.
WarmConfirm ==
  /\ at = "warmAdded"
  /\ IF stock /\ ~ InRoom THEN Move("settled") ELSE Leave("failed")
  /\ UNCHANGED pageVars
  /\ OnlyBrowse

\* Bol's product is added by an address.
AddByUrl ==
  /\ at = "start"
  /\ shop = "bol"
  /\ \/ /\ stock
        /\ Put
        /\ ShowAny
        /\ \/ UNCHANGED <<surprises, unsure>> /\ Move("added")
           \/ LoseAnswer /\ Move("raised")
        /\ UNCHANGED <<stock, order, placed, bought>>
     \/ Refuse /\ Move("added")

\* The exception of a click or a load that is not repeated.
Raised ==
  /\ at = "raised"
  /\ Fail
  /\ OnlyBrowse

\* Whether the click added anything.  MediaMarkt raises when it cannot tell,
\* Dreamland opens the basket and looks there.
ConfirmAdd ==
  /\ at = "confirm"
  /\ OnlyBrowse
  /\ \/ shop = "mediamarkt" /\ page \in {"modal"} \union InCheckout[shop]
        /\ Move("added") /\ UNCHANGED pageVars
     \/ shop = "mediamarkt" /\ page \notin {"modal"} \union InCheckout[shop] /\ Fail
     \/ shop = "dreamland" /\ page \in Steps[shop] \ {"login"}
        /\ Move("settled") /\ UNCHANGED pageVars
     \/ shop = "dreamland" /\ page \notin Steps[shop] \ {"login"}
        /\ Move("cartOpened") /\ ShowAny

\* The basket must hold something; that it holds the job's product is not
\* asked.
CartCheck ==
  /\ at = "cartCheck"
  /\ IF /\ page \in {"cart", "details", "payment", "pay"}
        /\ page = "cart" => basket # Empty
     THEN Move("settled") ELSE Leave("failed")
  /\ UNCHANGED pageVars
  /\ OnlyBrowse

\* A job whose case is add_to_cart ends here.
AddOnly ==
  /\ at = "settled"
  /\ Leave("success")
  /\ UNCHANGED pageVars
  /\ OnlyBrowse

-----------------------------------------------------------------------------
(***************************************************************************)
(* Through the checkout.                                                   *)
(***************************************************************************)

\* MediaMarkt looks for its unavailable markers around every move.
StillSold == shop = "mediamarkt" => stock

\* The first look: an unknown page is replaced by MediaMarkt's checkout,
\* Dreamland's basket or Bol's basket.
First ==
  /\ at = "first"
  /\ OnlyBrowse
  /\ \/ ~ StillSold /\ Fail
     \/ /\ StillSold
        /\ IF shop = "bol" THEN page # "cart" ELSE Seen = "unknown"
        /\ ShowAny
        /\ Move("reopened")
     \/ /\ StillSold
        /\ IF shop = "bol" THEN page = "cart" ELSE Seen # "unknown"
        /\ Move(IF shop = "bol" THEN "reopened" ELSE "round")
        /\ UNCHANGED pageVars

Recheck ==
  /\ at = "recheck"
  /\ shop # "bol"
  /\ IF StillSold /\ (shop = "dreamland" /\ page = "cart" => basket # Empty)
     THEN Move("round") ELSE Leave("failed")
  /\ UNCHANGED pageVars
  /\ OnlyBrowse

Look ==
  /\ at = "look"
  /\ \/ ~ StillSold /\ Leave("failed")
     \/ /\ StillSold
        /\ step' = Seen
        /\ at' = "act"
        /\ UNCHANGED <<jobVars, round, outcome>>
  /\ UNCHANGED pageVars
  /\ OnlyBrowse

\* The pages that have the button the recognised step asks for.  MediaMarkt's
\* three continue buttons share the selector its last attempt uses.
HasButton(s) ==
  IF shop = "mediamarkt" /\ s \in {"order", "details", "confirm"}
  THEN {"order", "details", "confirm"}
  ELSE {s}

\* The pages that confirm a click on the button of a step.
LedTo ==
  [mediamarkt |->
     [modal   |-> InCheckout.mediamarkt \union {"pay"},
      order   |-> {"details", "confirm", "payment"},
      details |-> {"confirm", "payment"},
      confirm |-> {"pay", "payment", "inside"}],
   dreamland |->
     [modal   |-> {"cart", "details", "payment", "pay"},
      cart    |-> {"login", "details", "payment", "pay"},
      login   |-> Pages \ {"login"},
      details |-> {"payment", "pay"},
      payment |-> {"pay"}]]

\* A click that moves the checkout on.
Press ==
  \/ page \in HasButton(step) /\ ShowAny /\ Move("led")
  \/ page \notin HasButton(step) /\ Fail

\* The drawer, the basket and the login form are acted on at once, the basket
\* only when it holds something; a login page that is gone needs no login.
ActOnModal ==
  /\ at = "act"
  /\ step = "modal"
  /\ OnlyBrowse
  /\ Press

ActOnCart ==
  /\ at = "act"
  /\ step = "cart"
  /\ OnlyBrowse
  /\ IF basket = Empty THEN Fail ELSE Press

ActOnLogin ==
  /\ at = "act"
  /\ step = "login"
  /\ OnlyBrowse
  /\ IF page = "login" THEN Press ELSE NextRound /\ UNCHANGED pageVars

\* The pages with a form: the form is filled, then the queue checked again,
\* then the button clicked.  Dreamland's card fields must be there.
ActOnForm ==
  /\ at = "act"
  /\ step \in {"order", "details", "confirm"}
       \union (IF shop = "dreamland" THEN {"payment"} ELSE {})
  /\ IF step = "payment" => page = "payment" THEN Move("form") ELSE Leave("failed")
  /\ UNCHANGED pageVars
  /\ OnlyBrowse

PressForm ==
  /\ at = "press"
  /\ OnlyBrowse
  /\ IF StillSold THEN Press ELSE Fail

\* The wait for the page the click should lead to.
Led ==
  /\ at = "led"
  /\ \/ page \notin LedTo[shop][step] /\ Leave("failed")
     \/ page \in LedTo[shop][step] /\ shop = "mediamarkt" /\ Move("posted")
     \/ page \in LedTo[shop][step] /\ shop = "dreamland" /\ NextRound
  /\ UNCHANGED pageVars
  /\ OnlyBrowse

Posted ==
  /\ at = "posted"
  /\ IF StillSold THEN NextRound ELSE Leave("failed")
  /\ UNCHANGED pageVars
  /\ OnlyBrowse

\* An unknown page outside the checkout is replaced; Dreamland leaves its
\* basket for the checkout; otherwise the round is over.
ActOnUnknown ==
  /\ at = "act"
  /\ step = "unknown"
  /\ shop = "mediamarkt" => page # "pay"
  /\ OnlyBrowse
  /\ \/ /\ page \in InCheckout[shop]
        /\ IF StillSold THEN NextRound ELSE Leave("failed")
        /\ UNCHANGED pageVars
     \/ page \notin InCheckout[shop] /\ ShowAny /\ Move("recover")

Recovered ==
  /\ at = "recovered"
  /\ IF StillSold THEN NextRound ELSE Leave("failed")
  /\ UNCHANGED pageVars
  /\ OnlyBrowse

\* Bol's basket button, and the login that may follow it.
LeaveBasket ==
  /\ at = "recheck"
  /\ shop = "bol"
  /\ OnlyBrowse
  /\ \/ page = "cart" /\ basket # Empty /\ ShowAny /\ Move("asked")
     \/ ~ (page = "cart" /\ basket # Empty) /\ Fail

LogIn ==
  /\ at = "asked"
  /\ OnlyBrowse
  /\ \/ page # "login" /\ Move("paying") /\ UNCHANGED pageVars
     \/ page = "login" /\ ShowAny /\ IF page' = "login" THEN Leave("failed") ELSE Move("leaving")

-----------------------------------------------------------------------------
(***************************************************************************)
(* The payment.                                                            *)
(***************************************************************************)

\* At the choice of the payment method MediaMarkt selects the credit card and
\* returns: nothing has been ordered.
ActOnMethod ==
  /\ at = "act"
  /\ step = "payment"
  /\ shop = "mediamarkt"
  /\ Move("choose")
  /\ UNCHANGED pageVars
  /\ OnlyBrowse

MethodChosen ==
  /\ at = "chosen"
  /\ Leave("success")
  /\ UNCHANGED pageVars
  /\ OnlyBrowse

\* MediaMarkt's external page: card data, then the pay button.  It is taken
\* for what it is even when the look before did not recognise it.
ActOnExternal ==
  /\ at = "act"
  /\ shop = "mediamarkt"
  /\ \/ step = "pay"
     \/ step = "unknown" /\ page = "pay"
  /\ Move("card")
  /\ UNCHANGED pageVars
  /\ OnlyBrowse

FillCard ==
  /\ at = "carded"
  /\ IF page = "pay" THEN Move("paying") ELSE Leave("failed")
  /\ UNCHANGED pageVars
  /\ OnlyBrowse

\* Dreamland's summary: the terms are accepted first.
ActOnSummary ==
  /\ at = "act"
  /\ shop = "dreamland"
  /\ step = "pay"
  /\ IF page = "pay" THEN Move("paying") ELSE Leave("failed")
  /\ UNCHANGED pageVars
  /\ OnlyBrowse

\* The shop takes the order the page offers.
TakeOrder ==
  /\ order' = offer
  /\ bought' = Plus(bought, offer)
  /\ placed' = [placed EXCEPT ![job] = @ + 1]
  /\ basket' = Empty

\* Mutant: the click by locator follows the click by text although that one
\* was answered.
PayAnswered_TwoClicks ==
  /\ at = "pay"
  /\ page = "pay"
  /\ TakeOrder
  /\ \/ Show("done") /\ Move("paid")
     \/ UNCHANGED <<pageVars, handlerVars>>
  /\ UNCHANGED <<stock, surprises, added, unsure>>

\* The click that pays, answered: the order is taken or refused.
PayAnswered ==
  /\ at = "pay"
  /\ page = "pay"
  /\ \/ /\ TakeOrder
        /\ Show("done")
        /\ UNCHANGED <<stock, surprises, added, unsure>>
     \/ Refuse
  /\ Move("paid")

\* The order is taken and the click raises.  MediaMarkt swallows that; the
\* others click again when the button is still there.
PayUnanswered ==
  /\ at = "pay"
  /\ page = "pay"
  /\ TakeOrder
  /\ LoseAnswer
  /\ \/ page' = "done" /\ offer' = Empty
     \/ UNCHANGED pageVars
  /\ IF shop = "mediamarkt" THEN Move("paid") ELSE UNCHANGED handlerVars
  /\ UNCHANGED <<stock, added>>

\* No button: MediaMarkt's script does nothing, the others raise.
NoPayButton ==
  /\ at = "pay"
  /\ page # "pay"
  /\ IF shop = "mediamarkt" THEN Move("paid") ELSE Leave("failed")
  /\ UNCHANGED pageVars
  /\ OnlyBrowse

\* Mutant: the handler raises when it does not know the page that follows.
Paid_MustKnowPage ==
  /\ at = "paid"
  /\ Leave(IF page = "payment" THEN "success" ELSE "failed")
  /\ UNCHANGED pageVars
  /\ OnlyBrowse

\* The handler returns.  Bol logs in when it is asked to, raises when that
\* does not help, and never returns to the order it did not make.
Paid ==
  /\ at = "paid"
  /\ OnlyBrowse
  /\ \/ /\ ~ (shop = "bol" /\ page = "login")
        /\ Leave("success")
        /\ UNCHANGED pageVars
     \/ /\ shop = "bol"
        /\ page = "login"
        /\ ShowAny
        /\ Leave(IF page' = "login" THEN "failed" ELSE "success")

\* Bol's look at the address after the payment raises.
AnswerUnread ==
  /\ at = "paid"
  /\ shop = "bol"
  /\ unsure' = unsure \union {job}
  /\ Fail
  /\ UNCHANGED <<stock, surprises, added, basket, order, placed, bought>>

-----------------------------------------------------------------------------
(***************************************************************************)
(* The shop on its own.                                                    *)
(***************************************************************************)

\* The page changes under the handler.  What follows an order stays.
PageChanges ==
  /\ at # "idle"
  /\ page # "done"
  /\ surprises < Surprises
  /\ surprises' = surprises + 1
  /\ UNCHANGED <<handlerVars, stock, shopVars>>
  /\ \E p \in Pages \ {"done", page} : Show(p)

\* The waiting room lets the browser through.
QueueClears ==
  /\ at # "idle"
  /\ page = "queue"
  /\ UNCHANGED <<handlerVars, stock, surprises, shopVars>>
  /\ \E p \in Pages \ {"done", "queue"} : Show(p)

SellsOut ==
  /\ at # "idle"
  /\ stock
  /\ stock' = FALSE
  /\ UNCHANGED <<handlerVars, pageVars, surprises, shopVars>>

-----------------------------------------------------------------------------
Adding ==
  \/ OpenProduct
  \/ CheckProducts
  \/ PressAdd
  \/ WarmAdd
  \/ WarmConfirm
  \/ AddByUrl
  \/ Raised
  \/ ConfirmAdd
  \/ CartCheck
  \/ AddOnly

Checking ==
  \/ First
  \/ Recheck
  \/ Look
  \/ ActOnModal
  \/ ActOnCart
  \/ ActOnLogin
  \/ ActOnForm
  \/ PressForm
  \/ Led
  \/ Posted
  \/ ActOnUnknown
  \/ Recovered
  \/ LeaveBasket
  \/ LogIn

Paying ==
  \/ ActOnMethod
  \/ MethodChosen
  \/ ActOnExternal
  \/ FillCard
  \/ ActOnSummary
  \/ PayAnswered
  \/ PayUnanswered
  \/ NoPayButton
  \/ Paid
  \/ AnswerUnread

Handler ==
  \/ \E first \in {"start", "warm"}, p \in Products : Begin(first, p)
  \/ WaitIfQueue
  \/ GiveUp
  \/ DriverRaises
  \/ Adding
  \/ Checking
  \/ Paying

Shop ==
  \/ PageChanges
  \/ QueueClears
  \/ SellsOut

Next == Handler \/ Shop

Spec == Init /\ [][Next]_vars

-----------------------------------------------------------------------------
TypeOK ==
  /\ shop \in Shops
  /\ job \in 0 .. Jobs
  /\ at \in Locations
  /\ queueCheck \in BOOLEAN
  /\ product \in [JobIds -> Products \union {NoProduct}]
  /\ at # "idle" => job > 0 /\ product[job] \in Products
  /\ round \in 0 .. MaxRounds
  /\ step \in Pages \union {"unknown"}
  /\ page \in Pages
  /\ offer \in Quantities
  /\ stock \in BOOLEAN
  /\ surprises \in 0 .. Surprises
  /\ basket \in Quantities
  /\ order \in Quantities
  /\ added \in BOOLEAN
  /\ placed \in [JobIds -> Nat]
  /\ bought \in Quantities
  /\ unsure \in SUBSET JobIds
  /\ outcome \in [JobIds -> {"none", "success", "failed", "timed_out"}]

\* What the handlers promise about orders, of which a running handler is the
\* worker away from "idle".
Promise == INSTANCE Ordering WITH running <- (at # "idle")

\* The handlers of the three shops keep the promise of Ordering: a job adds one
\* unit of its product and its order is the whole basket, made once unless an
\* answer was lost, and a job that lost no answer and was not timed out fails
\* only before its order.
ImplementsOrdering == Promise!Spec

\* Across the jobs of a shop, with the basket that outlives them: a job that
\* lost no answer is ordered at most once and is not reported failed after its
\* order, and more units of a product than there were jobs for it are bought only
\* over a lost answer of one of them or of one that ordered the left-overs.
OrdersKept == Promise!Promises
=============================================================================
