---------------------------- MODULE CheckoutProofs ----------------------------
(***************************************************************************)
(* The handlers are type correct and implement Ordering, for any number of *)
(* jobs, rounds and surprises of the shop.                                 *)
(* Ordering's own promises are proved at the end, and carried over.        *)
(*                                                                         *)
(* Almost every step only looks at pages: BrowseStep says what such a step *)
(* may do, one lemma shows that it keeps the invariant and maps to a       *)
(* stutter or to the end of a job, and each action is shown to be one.     *)
(***************************************************************************)
EXTENDS Checkout, FiniteSetTheorems, TLAPS

\* Locations before the click that adds the product.
BeforeAdd == {"start", "warm", "opened", "validated", "find", "adding"}

\* Locations inside a round.
InRound == {"look", "act", "form", "press", "led", "posted", "recover", "recovered"}

RoundInv == at \in InRound => round < MaxRounds

\* The jobs to come have ordered nothing.
FutureInv == \A j \in JobIds : j > job => placed[j] = 0

\* A second unit is added only after a lost answer.
AddingInv ==
  at \in BeforeAdd => (~ added \/ job \in unsure) /\ placed[job] = 0

\* The pay button orders the basket; after the order only a page whose answer
\* was lost still has it, and it orders the same again.
OfferInv ==
  at # "idle" /\ page = "pay" =>
    \/ placed[job] = 0 /\ offer = basket /\ basket # Empty
    \/ placed[job] > 0 /\ offer = order /\ job \in unsure

\* Once the job has its order the handler is at its last two locations: at the
\* click only because an answer was lost, behind it on the page that follows.
OrderedInv ==
  at # "idle" /\ placed[job] > 0 =>
    /\ basket = Empty
    /\ at \in {"pay", "paid"}
    /\ job \in unsure \/ (at = "paid" /\ page = "done")

IInv ==
  /\ TypeOK
  /\ RoundInv
  /\ FutureInv
  /\ AddingInv
  /\ OfferInv
  /\ OrderedInv

-----------------------------------------------------------------------------
(***************************************************************************)
(* Steps that put nothing into the basket and order nothing.               *)
(***************************************************************************)

Results == {"success", "failed", "timed_out"}

\* The job ends; as failed after an order only when it lost an answer.
Ends ==
  /\ at' = "idle"
  /\ \E r \in Results :
       /\ outcome' = [outcome EXCEPT ![job] = r]
       /\ (r = "failed" /\ placed[job] > 0) => job \in unsure'

PagesOK == UNCHANGED pageVars \/ \E p \in Pages \ {"done"} : Show(p)

BrowseStep ==
  /\ at # "idle"
  /\ UNCHANGED <<jobVars, added, basket, order, placed, bought>>
  /\ unsure' \in {unsure, unsure \union {job}}
  /\ PagesOK
  /\ round' \in 0 .. MaxRounds
  /\ step' \in Pages \union {"unknown"}
  /\ stock' \in BOOLEAN
  /\ surprises' \in 0 .. Surprises
  /\ at' \in Locations
  /\ at' \in InRound => round' < MaxRounds
  /\ at' \in BeforeAdd => at \in BeforeAdd
  /\ at = "pay" => at' \in {"pay", "paid", "idle"}
  /\ at = "paid" =>
       at' = "idle" \/ (at' = "paid" /\ (page # "done" \/ UNCHANGED pageVars))
  /\ \/ at' # "idle" /\ outcome' = outcome /\ unsure' = unsure
     \/ Ends

\* What a step shows has the type of a page and of an offer.
LEMMA PagesType ==
  ASSUME TypeOK, PagesOK, basket' = basket
  PROVE  /\ page' \in Pages
         /\ offer' \in Quantities
  <1>1. Empty \in Quantities
    BY DEF Empty, Quantities
  <1>2. CASE UNCHANGED pageVars
    BY <1>2 DEF TypeOK, pageVars
  <1>3. CASE \E p \in Pages \ {"done"} : Show(p)
    BY <1>1, <1>3 DEF TypeOK, Show
  <1> QED BY <1>2, <1>3 DEF PagesOK

\* A browsing step keeps the invariant.
LEMMA BrowseInv == IInv /\ BrowseStep => IInv'
  <1> SUFFICES ASSUME IInv, BrowseStep PROVE IInv'
    OBVIOUS
  <1> USE DEF jobVars
  <1>1. job \in JobIds /\ job \in Nat /\ placed[job] \in Nat
    BY JobsAssumption DEF IInv, TypeOK, BrowseStep, JobIds
  <1>2. page' \in Pages /\ offer' \in Quantities
    BY PagesType DEF IInv, BrowseStep
  <1>3. outcome' \in [JobIds -> {"none", "success", "failed", "timed_out"}]
    BY <1>1 DEF IInv, TypeOK, BrowseStep, Ends, Results
  <1>4. TypeOK'
    BY <1>1, <1>2, <1>3 DEF IInv, TypeOK, BrowseStep
  <1>5. RoundInv'
    BY DEF BrowseStep, RoundInv
  <1>6. FutureInv'
    BY DEF IInv, BrowseStep, FutureInv
  <1>7. AddingInv'
    BY DEF IInv, BrowseStep, AddingInv, Ends
  <1>8. OfferInv'
    <2> SUFFICES ASSUME at' # "idle", page' = "pay"
                 PROVE  \/ placed'[job'] = 0 /\ offer' = basket' /\ basket' # Empty'
                        \/ placed'[job'] > 0 /\ offer' = order' /\ job' \in unsure'
      BY DEF OfferInv
    <2>1. CASE UNCHANGED pageVars
      BY <2>1 DEF IInv, BrowseStep, OfferInv, pageVars, Ends, Empty
    <2>2. CASE \E p \in Pages \ {"done"} : Show(p)
      <3>1. offer' = basket /\ basket # Empty
        BY <2>2 DEF Show, Sellable, BrowseStep
      <3>2. placed[job] = 0
        BY <1>1, <3>1 DEF IInv, OrderedInv, BrowseStep
      <3> QED BY <3>1, <3>2 DEF BrowseStep, Empty
    <2> QED BY <2>1, <2>2 DEF BrowseStep, PagesOK
  <1>9. OrderedInv'
    <2> SUFFICES ASSUME at' # "idle", placed'[job'] > 0
                 PROVE  /\ basket' = Empty'
                        /\ at' \in {"pay", "paid"}
                        /\ job' \in unsure' \/ (at' = "paid" /\ page' = "done")
      BY DEF OrderedInv
    <2>1. /\ basket = Empty
          /\ at \in {"pay", "paid"}
          /\ job \in unsure \/ (at = "paid" /\ page = "done")
      BY DEF IInv, OrderedInv, BrowseStep
    <2>2. at' \in {"pay", "paid"}
      BY <2>1 DEF BrowseStep
    <2> QED BY <2>1, <2>2 DEF BrowseStep, Empty, pageVars
  <1> QED BY <1>4, <1>5, <1>6, <1>7, <1>8, <1>9 DEF IInv

\* A browsing step is a stutter of Ordering, or the end of a job.
LEMMA BrowseMaps == BrowseStep => [Promise!Next]_Promise!vars
  <1> SUFFICES ASSUME BrowseStep PROVE [Promise!Next]_Promise!vars
    OBVIOUS
  <1>1. CASE at' # "idle" /\ outcome' = outcome /\ unsure' = unsure
    BY <1>1 DEF BrowseStep, jobVars, Promise!vars
  <1>2. CASE Ends
    <2>1. PICK r \in Results :
            /\ outcome' = [outcome EXCEPT ![job] = r]
            /\ (r = "failed" /\ placed[job] > 0) => job \in unsure'
      BY <1>2 DEF Ends
    <2>2. Promise!End(r)
      BY <1>2, <2>1 DEF BrowseStep, Ends, jobVars, Promise!End, Promise!MayLose
    <2> QED BY <2>2 DEF Promise!Next, Promise!Outcomes, Results
  <1> QED BY <1>1, <1>2 DEF BrowseStep

\* A handler that fails away from the page of its order has none, or lost an
\* answer.
LEMMA FailFact ==
  ASSUME IInv, at # "idle", at = "paid" => page # "done"
  PROVE  placed[job] > 0 => job \in unsure
  BY DEF IInv, OrderedInv

\* Going on at l.
LEMMA MoveBrowses ==
  ASSUME IInv, NEW l \in Locations \ {"idle"}, at \notin {"idle", "paid"},
         Move(l), PagesOK, OnlyBrowse,
         l \in InRound => round < MaxRounds,
         l \in BeforeAdd => at \in BeforeAdd,
         at = "pay" => l \in {"pay", "paid"}
  PROVE  BrowseStep
  BY DEF IInv, TypeOK, Move, OnlyBrowse, shopVars, jobVars, BrowseStep

\* Going on with the next round.
LEMMA NextRoundBrowses ==
  ASSUME IInv, at \in InRound, NextRound, PagesOK, OnlyBrowse
  PROVE  BrowseStep
  <1>1. round + 1 \in 0 .. MaxRounds
    BY JobsAssumption, CheckoutAssumption DEF IInv, TypeOK, RoundInv
  <1> QED
    BY <1>1
    DEF IInv, TypeOK, NextRound, OnlyBrowse, shopVars, jobVars, BrowseStep, InRound,
        BeforeAdd, Locations

\* Returning or raising.
LEMMA LeaveBrowses ==
  ASSUME IInv, NEW r \in {"success", "failed"}, at # "idle", Leave(r), PagesOK,
         OnlyBrowse, r = "failed" => (at = "paid" => page # "done")
  PROVE  BrowseStep
  <1>1. r = "failed" => (placed[job] > 0 => job \in unsure)
    BY FailFact
  <1>2. Ends
    BY <1>1 DEF Leave, Ends, Results, OnlyBrowse, shopVars
  <1> QED
    BY <1>2
    DEF IInv, TypeOK, Leave, OnlyBrowse, shopVars, jobVars, BrowseStep, InRound,
        BeforeAdd, Locations

\* Where wait_if_queue is called the job has no order, or has lost an answer;
\* it goes on in the same part of the handler.
LEMMA GateFact ==
  ASSUME NEW s \in Shops, NEW g \in Gates[s]
  PROVE  /\ g[1] \notin {"idle", "pay", "paid"}
         /\ g[2] \in Locations \ {"idle"}
         /\ g[2] \in BeforeAdd => g[1] \in BeforeAdd
         /\ g[2] \in InRound => g[1] \in InRound \union {"round"}
  <1>1. CASE s = "mediamarkt"
    BY <1>1 DEF Gates, Locations, BeforeAdd, InRound
  <1>2. CASE s = "dreamland"
    BY <1>2 DEF Gates, Locations, BeforeAdd, InRound
  <1>3. CASE s = "bol"
    BY <1>3 DEF Gates, Locations, BeforeAdd, InRound
  <1> QED BY <1>1, <1>2, <1>3 DEF Shops

LEMMA WaitBrowses == IInv /\ WaitIfQueue => BrowseStep
  <1> SUFFICES ASSUME IInv, WaitIfQueue PROVE BrowseStep
    OBVIOUS
  <1>1. PICK g \in Gates[shop] :
          /\ at = g[1]
          /\ at = "round" => round < MaxRounds
          /\ \/ InRoom /\ Leave("failed")
             \/ ~ InRoom /\ Move(g[2])
          /\ UNCHANGED pageVars
          /\ OnlyBrowse
    BY DEF WaitIfQueue
  <1>2. shop \in Shops
    BY DEF IInv, TypeOK
  <1>3. /\ g[1] \notin {"idle", "pay", "paid"}
        /\ g[2] \in Locations \ {"idle"}
        /\ g[2] \in BeforeAdd => g[1] \in BeforeAdd
        /\ g[2] \in InRound => g[1] \in InRound \union {"round"}
    BY <1>2, GateFact
  <1>4. PagesOK
    BY <1>1 DEF PagesOK
  <1>5. CASE Move(g[2])
    <2>1. g[2] \in InRound => round < MaxRounds
      BY <1>1, <1>3 DEF IInv, RoundInv
    <2> QED BY <1>1, <1>3, <1>4, <1>5, <2>1, MoveBrowses
  <1>6. CASE Leave("failed")
    BY <1>1, <1>3, <1>4, <1>6, LeaveBrowses
  <1> QED BY <1>1, <1>5, <1>6

\* Giving up and raising.
LEMMA FailBrowses ==
  ASSUME IInv, at \notin {"idle", "paid"}, Fail, OnlyBrowse
  PROVE  BrowseStep
  <1>1. PagesOK /\ Leave("failed")
    BY DEF Fail, PagesOK
  <1> QED BY <1>1, LeaveBrowses

LEMMA RaiseBrowses == IInv /\ (GiveUp \/ DriverRaises \/ Raised) => BrowseStep
  BY FailBrowses DEF GiveUp, DriverRaises, Raised

\* A refused click shows some page.
LEMMA RefuseFact == Refuse => PagesOK /\ OnlyBrowse
  BY DEF Refuse, PagesOK, Pages, Sellable

\* Adding to the basket, but for the clicks and loads that add.
LEMMA AddBrowses ==
  IInv /\ (OpenProduct \/ CheckProducts \/ WarmConfirm \/ ConfirmAdd
            \/ CartCheck \/ AddOnly) => BrowseStep
  <1> SUFFICES ASSUME IInv,
                      OpenProduct \/ CheckProducts \/ WarmConfirm \/ ConfirmAdd
                        \/ CartCheck \/ AddOnly
               PROVE  BrowseStep
    OBVIOUS
  <1>1. CASE OpenProduct
    <2>1. PagesOK
      BY <1>1 DEF OpenProduct, PagesOK, Pages, Sellable
    <2> QED
      BY <1>1, <2>1, MoveBrowses DEF OpenProduct, Locations, InRound, BeforeAdd
  <1>2. CASE CheckProducts
    <2>1. PagesOK /\ OnlyBrowse
      BY <1>2 DEF CheckProducts, CheckProduct, PagesOK
    <2>2. \/ at = "opened" /\ Move("validated")
          \/ at = "find" /\ Move("adding")
          \/ at \in {"opened", "find"} /\ Leave("failed")
      BY <1>2 DEF CheckProducts, CheckProduct
    <2>3. CASE at = "opened" /\ Move("validated")
      BY <2>1, <2>3, MoveBrowses DEF Locations, InRound, BeforeAdd
    <2>4. CASE at = "find" /\ Move("adding")
      BY <2>1, <2>4, MoveBrowses DEF Locations, InRound, BeforeAdd
    <2>5. CASE at \in {"opened", "find"} /\ Leave("failed")
      BY <2>1, <2>5, LeaveBrowses
    <2> QED BY <2>2, <2>3, <2>4, <2>5
  <1>3. CASE WarmConfirm
    <2>1. PagesOK /\ OnlyBrowse /\ at = "warmAdded"
      BY <1>3 DEF WarmConfirm, PagesOK
    <2>2. CASE Move("settled")
      BY <2>1, <2>2, MoveBrowses DEF Locations, InRound, BeforeAdd
    <2>3. CASE Leave("failed")
      BY <2>1, <2>3, LeaveBrowses
    <2> QED BY <1>3, <2>2, <2>3 DEF WarmConfirm
  <1>4. CASE ConfirmAdd
    <2>1. PagesOK /\ OnlyBrowse /\ at = "confirm"
      BY <1>4 DEF ConfirmAdd, PagesOK, ShowAny, Fail
    <2>2. CASE Move("added")
      BY <2>1, <2>2, MoveBrowses DEF Locations, InRound, BeforeAdd
    <2>3. CASE Move("settled")
      BY <2>1, <2>3, MoveBrowses DEF Locations, InRound, BeforeAdd
    <2>4. CASE Move("cartOpened")
      BY <2>1, <2>4, MoveBrowses DEF Locations, InRound, BeforeAdd
    <2>5. CASE Fail
      BY <2>1, <2>5, FailBrowses
    <2> QED BY <1>4, <2>2, <2>3, <2>4, <2>5 DEF ConfirmAdd
  <1>5. CASE CartCheck
    <2>1. PagesOK /\ OnlyBrowse /\ at = "cartCheck"
      BY <1>5 DEF CartCheck, PagesOK
    <2>2. CASE Move("settled")
      BY <2>1, <2>2, MoveBrowses DEF Locations, InRound, BeforeAdd
    <2>3. CASE Leave("failed")
      BY <2>1, <2>3, LeaveBrowses
    <2> QED BY <1>5, <2>2, <2>3 DEF CartCheck
  <1>6. CASE AddOnly
    <2>1. PagesOK /\ OnlyBrowse /\ at = "settled" /\ Leave("success")
      BY <1>6 DEF AddOnly, PagesOK
    <2> QED BY <2>1, LeaveBrowses
  <1> QED BY <1>1, <1>2, <1>3, <1>4, <1>5, <1>6

\* Going on inside a round.
LEMMA RoundBrowses ==
  ASSUME IInv, NEW l \in InRound, at \in InRound, Move(l), PagesOK, OnlyBrowse
  PROVE  BrowseStep
  <1>1. round < MaxRounds
    BY DEF IInv, RoundInv
  <1>2. l \in Locations \ {"idle"} /\ at \notin {"idle", "paid", "pay"}
        /\ l \notin BeforeAdd
    BY DEF InRound, Locations, BeforeAdd
  <1> QED BY <1>1, <1>2, MoveBrowses

\* The looks between the moves.
LEMMA LookBrowses ==
  IInv /\ (First \/ Recheck \/ Posted \/ Recovered \/ Led) => BrowseStep
  <1> SUFFICES ASSUME IInv,
                      First \/ Recheck \/ Posted \/ Recovered \/ Led
               PROVE  BrowseStep
    OBVIOUS
  <1>1. CASE First
    <2>1. PagesOK /\ OnlyBrowse /\ at = "first"
      BY <1>1 DEF First, PagesOK, ShowAny, Fail
    <2>2. CASE Move("reopened")
      BY <2>1, <2>2, MoveBrowses DEF Locations, InRound, BeforeAdd
    <2>3. CASE Move("round")
      BY <2>1, <2>3, MoveBrowses DEF Locations, InRound, BeforeAdd
    <2>4. CASE Fail
      BY <2>1, <2>4, FailBrowses
    <2> QED BY <1>1, <2>2, <2>3, <2>4 DEF First
  <1>2. CASE Recheck
    <2>1. PagesOK /\ OnlyBrowse /\ at = "recheck"
      BY <1>2 DEF Recheck, PagesOK
    <2>2. CASE Move("round")
      BY <2>1, <2>2, MoveBrowses DEF Locations, InRound, BeforeAdd
    <2>3. CASE Leave("failed")
      BY <2>1, <2>3, LeaveBrowses
    <2> QED BY <1>2, <2>2, <2>3 DEF Recheck
  <1>3. CASE Posted
    <2>1. PagesOK /\ OnlyBrowse /\ at = "posted"
      BY <1>3 DEF Posted, PagesOK
    <2>2. CASE NextRound
      BY <2>1, <2>2, NextRoundBrowses DEF InRound
    <2>3. CASE Leave("failed")
      BY <2>1, <2>3, LeaveBrowses
    <2> QED BY <1>3, <2>2, <2>3 DEF Posted
  <1>4. CASE Recovered
    <2>1. PagesOK /\ OnlyBrowse /\ at = "recovered"
      BY <1>4 DEF Recovered, PagesOK
    <2>2. CASE NextRound
      BY <2>1, <2>2, NextRoundBrowses DEF InRound
    <2>3. CASE Leave("failed")
      BY <2>1, <2>3, LeaveBrowses
    <2> QED BY <1>4, <2>2, <2>3 DEF Recovered
  <1>5. CASE Led
    <2>1. PagesOK /\ OnlyBrowse /\ at = "led"
      BY <1>5 DEF Led, PagesOK
    <2>2. CASE Move("posted")
      BY <2>1, <2>2, RoundBrowses DEF InRound
    <2>3. CASE NextRound
      BY <2>1, <2>3, NextRoundBrowses DEF InRound
    <2>4. CASE Leave("failed")
      BY <2>1, <2>4, LeaveBrowses
    <2> QED BY <1>5, <2>2, <2>3, <2>4 DEF Led
  <1> QED BY <1>1, <1>2, <1>3, <1>4, <1>5

\* The steps that lead through the checkout.
LEMMA ActBrowses ==
  IInv /\ (ActOnModal \/ ActOnCart \/ ActOnLogin \/ ActOnForm \/
           PressForm \/ ActOnUnknown) => BrowseStep
  <1> SUFFICES ASSUME IInv,
                      ActOnModal \/ ActOnCart \/ ActOnLogin \/ ActOnForm \/
                      PressForm \/ ActOnUnknown
               PROVE  BrowseStep
    OBVIOUS
  <1>1. CASE ActOnModal
    <2>1. PagesOK /\ OnlyBrowse /\ at = "act"
      BY <1>1 DEF ActOnModal, PagesOK, ShowAny, Fail, Press
    <2>2. CASE Move("led")
      BY <2>1, <2>2, RoundBrowses DEF InRound
    <2>3. CASE Fail
      BY <2>1, <2>3, FailBrowses
    <2> QED BY <1>1, <2>2, <2>3 DEF ActOnModal, Press
  <1>2. CASE ActOnCart
    <2>1. PagesOK /\ OnlyBrowse /\ at = "act"
      BY <1>2 DEF ActOnCart, PagesOK, ShowAny, Fail, Press
    <2>2. CASE Move("led")
      BY <2>1, <2>2, RoundBrowses DEF InRound
    <2>3. CASE Fail
      BY <2>1, <2>3, FailBrowses
    <2> QED BY <1>2, <2>2, <2>3 DEF ActOnCart, Press
  <1>3. CASE ActOnLogin
    <2>1. PagesOK /\ OnlyBrowse /\ at = "act"
      BY <1>3 DEF ActOnLogin, PagesOK, ShowAny, Fail, Press
    <2>2. CASE Move("led")
      BY <2>1, <2>2, RoundBrowses DEF InRound
    <2>3. CASE Fail
      BY <2>1, <2>3, FailBrowses
    <2>4. CASE NextRound
      BY <2>1, <2>4, NextRoundBrowses DEF InRound
    <2> QED BY <1>3, <2>2, <2>3, <2>4 DEF ActOnLogin, Press
  <1>4. CASE ActOnForm
    <2>1. PagesOK /\ OnlyBrowse /\ at = "act"
      BY <1>4 DEF ActOnForm, PagesOK
    <2>2. CASE Move("form")
      BY <2>1, <2>2, RoundBrowses DEF InRound
    <2>3. CASE Leave("failed")
      BY <2>1, <2>3, LeaveBrowses
    <2> QED BY <1>4, <2>2, <2>3 DEF ActOnForm
  <1>5. CASE PressForm
    <2>1. PagesOK /\ OnlyBrowse /\ at = "press"
      BY <1>5 DEF PressForm, PagesOK, ShowAny, Fail, Press
    <2>2. CASE Move("led")
      BY <2>1, <2>2, RoundBrowses DEF InRound
    <2>3. CASE Fail
      BY <2>1, <2>3, FailBrowses
    <2> QED BY <1>5, <2>2, <2>3 DEF PressForm, Press
  <1>6. CASE ActOnUnknown
    <2>1. PagesOK /\ OnlyBrowse /\ at = "act"
      BY <1>6 DEF ActOnUnknown, PagesOK, ShowAny
    <2>2. CASE Move("recover")
      BY <2>1, <2>2, RoundBrowses DEF InRound
    <2>3. CASE NextRound
      BY <2>1, <2>3, NextRoundBrowses DEF InRound
    <2>4. CASE Leave("failed")
      BY <2>1, <2>4, LeaveBrowses
    <2> QED BY <1>6, <2>2, <2>3, <2>4 DEF ActOnUnknown
  <1> QED BY <1>1, <1>2, <1>3, <1>4, <1>5, <1>6

\* Bol's way to the payment.
LEMMA BolBrowses ==
  IInv /\ (LeaveBasket \/ LogIn) => BrowseStep
  <1> SUFFICES ASSUME IInv,
                      LeaveBasket \/ LogIn
               PROVE  BrowseStep
    OBVIOUS
  <1>1. CASE LeaveBasket
    <2>1. PagesOK /\ OnlyBrowse /\ at = "recheck"
      BY <1>1 DEF LeaveBasket, PagesOK, ShowAny, Fail
    <2>2. CASE Move("asked")
      BY <2>1, <2>2, MoveBrowses DEF Locations, InRound, BeforeAdd
    <2>3. CASE Fail
      BY <2>1, <2>3, FailBrowses
    <2> QED BY <1>1, <2>2, <2>3 DEF LeaveBasket
  <1>2. CASE LogIn
    <2>1. PagesOK /\ OnlyBrowse /\ at = "asked"
      BY <1>2 DEF LogIn, PagesOK, ShowAny
    <2>2. CASE Move("paying")
      BY <2>1, <2>2, MoveBrowses DEF Locations, InRound, BeforeAdd
    <2>3. CASE Move("leaving")
      BY <2>1, <2>3, MoveBrowses DEF Locations, InRound, BeforeAdd
    <2>4. CASE Leave("failed")
      BY <2>1, <2>4, LeaveBrowses
    <2> QED BY <1>2, <2>2, <2>3, <2>4 DEF LogIn
  <1> QED BY <1>1, <1>2

\* The way to the click that pays, and the click that orders nothing.
LEMMA PayBrowses ==
  IInv /\ (ActOnMethod \/ MethodChosen \/ ActOnExternal \/ FillCard \/
           ActOnSummary \/ NoPayButton) => BrowseStep
  <1> SUFFICES ASSUME IInv,
                      ActOnMethod \/ MethodChosen \/ ActOnExternal \/ FillCard \/
                      ActOnSummary \/ NoPayButton
               PROVE  BrowseStep
    OBVIOUS
  <1>1. CASE ActOnMethod
    <2>1. PagesOK /\ OnlyBrowse /\ at = "act"
      BY <1>1 DEF ActOnMethod, PagesOK
    <2>2. Move("choose")
      BY <1>1 DEF ActOnMethod
    <2> QED
      BY <2>1, <2>2, MoveBrowses DEF Locations, InRound, BeforeAdd
  <1>2. CASE MethodChosen
    <2>1. PagesOK /\ OnlyBrowse /\ at = "chosen"
      BY <1>2 DEF MethodChosen, PagesOK
    <2>2. Leave("success")
      BY <1>2 DEF MethodChosen
    <2> QED
      BY <2>1, <2>2, LeaveBrowses
  <1>3. CASE ActOnExternal
    <2>1. PagesOK /\ OnlyBrowse /\ at = "act"
      BY <1>3 DEF ActOnExternal, PagesOK
    <2>2. Move("card")
      BY <1>3 DEF ActOnExternal
    <2> QED
      BY <2>1, <2>2, MoveBrowses DEF Locations, InRound, BeforeAdd
  <1>4. CASE FillCard
    <2>1. PagesOK /\ OnlyBrowse /\ at = "carded"
      BY <1>4 DEF FillCard, PagesOK
    <2>2. CASE Move("paying")
      BY <2>1, <2>2, MoveBrowses DEF Locations, InRound, BeforeAdd
    <2>3. CASE Leave("failed")
      BY <2>1, <2>3, LeaveBrowses
    <2> QED BY <1>4, <2>2, <2>3 DEF FillCard
  <1>5. CASE ActOnSummary
    <2>1. PagesOK /\ OnlyBrowse /\ at = "act"
      BY <1>5 DEF ActOnSummary, PagesOK
    <2>2. CASE Move("paying")
      BY <2>1, <2>2, MoveBrowses DEF Locations, InRound, BeforeAdd
    <2>3. CASE Leave("failed")
      BY <2>1, <2>3, LeaveBrowses
    <2> QED BY <1>5, <2>2, <2>3 DEF ActOnSummary
  <1>6. CASE NoPayButton
    <2>1. PagesOK /\ OnlyBrowse /\ at = "pay"
      BY <1>6 DEF NoPayButton, PagesOK
    <2>2. CASE Move("paid")
      BY <2>1, <2>2, MoveBrowses DEF Locations, InRound, BeforeAdd
    <2>3. CASE Leave("failed")
      BY <2>1, <2>3, LeaveBrowses
    <2> QED BY <1>6, <2>2, <2>3 DEF NoPayButton
  <1> QED BY <1>1, <1>2, <1>3, <1>4, <1>5, <1>6

\* The look at the page before a step is chosen.
LEMMA LookStep == IInv /\ Look => BrowseStep
  <1> SUFFICES ASSUME IInv, Look PROVE BrowseStep
    OBVIOUS
  <1>1. PagesOK /\ OnlyBrowse /\ at = "look"
    BY DEF Look, PagesOK
  <1>2. CASE Leave("failed")
    BY <1>1, <1>2, LeaveBrowses
  <1>3. CASE /\ step' = Seen
             /\ at' = "act"
             /\ UNCHANGED <<jobVars, round, outcome>>
    <2>1. Seen \in Pages \union {"unknown"}
      BY DEF IInv, TypeOK, Seen
    <2>2. round < MaxRounds
      BY <1>1 DEF IInv, RoundInv, InRound
    <2> QED
      BY <1>1, <1>3, <2>1, <2>2
      DEF IInv, TypeOK, OnlyBrowse, shopVars, jobVars, BrowseStep, InRound,
          BeforeAdd, Locations
  <1> QED BY <1>2, <1>3 DEF Look

\* What follows the click: the handler returns, or Bol's login does not help,
\* which it is not asked for behind an order.
LEMMA PaidBrowses == IInv /\ Paid => BrowseStep
  <1> SUFFICES ASSUME IInv, Paid PROVE BrowseStep
    OBVIOUS
  <1>1. PagesOK /\ OnlyBrowse /\ at = "paid"
    BY DEF Paid, PagesOK, ShowAny
  <1>2. CASE Leave("success")
    BY <1>1, <1>2, LeaveBrowses
  <1>3. CASE page = "login" /\ Leave("failed")
    BY <1>1, <1>3, LeaveBrowses
  <1> QED BY <1>2, <1>3 DEF Paid

\* An answer that cannot be read counts as lost.
LEMMA UnreadBrowses == IInv /\ AnswerUnread => BrowseStep
  <1> SUFFICES ASSUME IInv, AnswerUnread PROVE BrowseStep
    OBVIOUS
  <1>1. /\ at = "paid"
        /\ unsure' = unsure \union {job}
        /\ Leave("failed")
        /\ UNCHANGED pageVars
        /\ UNCHANGED <<stock, surprises, added, basket, order, placed, bought>>
    BY DEF AnswerUnread, Fail
  <1>2. Ends
    BY <1>1 DEF Ends, Leave, Results
  <1> QED
    BY <1>1, <1>2
    DEF IInv, TypeOK, Leave, jobVars, BrowseStep, PagesOK, InRound, BeforeAdd,
        Locations

\* The shop on its own.
LEMMA ShopBrowses == IInv /\ Shop => BrowseStep
  <1> SUFFICES ASSUME IInv, Shop PROVE BrowseStep
    OBVIOUS
  <1>1. /\ PagesOK
        /\ at # "idle"
        /\ page # "done" \/ UNCHANGED pageVars
        /\ UNCHANGED <<handlerVars, shopVars>>
        /\ stock' \in BOOLEAN
        /\ surprises' \in 0 .. Surprises
    <2>1. CASE PageChanges
      BY <2>1, JobsAssumption, CheckoutAssumption DEF IInv, TypeOK, PageChanges, PagesOK
    <2>2. CASE QueueClears
      BY <2>2 DEF IInv, TypeOK, QueueClears, PagesOK
    <2>3. CASE SellsOut
      BY <2>3 DEF IInv, TypeOK, SellsOut, PagesOK
    <2> QED BY <2>1, <2>2, <2>3 DEF Shop
  <1> QED
    BY <1>1
    DEF IInv, TypeOK, RoundInv, handlerVars, jobVars, shopVars, BrowseStep

-----------------------------------------------------------------------------
(***************************************************************************)
(* Steps that put a unit into the basket.                                  *)
(***************************************************************************)
PutStep ==
  /\ at \in BeforeAdd
  /\ Put
  /\ ShowAny
  /\ UNCHANGED <<jobVars, round, step, outcome, stock, order, placed, bought>>
  /\ unsure' \in {unsure, unsure \union {job}}
  /\ surprises' \in 0 .. Surprises
  /\ \/ at' \in {"confirm", "added", "warmAdded", "raised"}
     \/ at' = at /\ job \in unsure'

LEMMA PutInv == IInv /\ PutStep => IInv'
  <1> SUFFICES ASSUME IInv, PutStep PROVE IInv'
    OBVIOUS
  <1> USE DEF jobVars
  <1>1. /\ job \in JobIds /\ job \in Nat /\ at # "idle" /\ placed[job] = 0
        /\ product[job] \in Products /\ added'
    BY JobsAssumption
    DEF IInv, TypeOK, PutStep, Put, AddingInv, BeforeAdd, JobIds
  <1>2. basket' \in [Products -> Nat]
    BY <1>1 DEF IInv, TypeOK, Quantities, PutStep, Put
  <1>3. /\ page' \in Pages
        /\ page' = "pay" => offer' = basket' /\ basket' # Empty
        /\ offer' \in Quantities
    <2>1. PICK p \in Pages \ {"done"} : Show(p)
      BY DEF PutStep, ShowAny
    <2>2. Empty \in Quantities
      BY DEF Empty, Quantities
    <2> QED BY <1>2, <2>1, <2>2 DEF Show, Sellable, Quantities
  <1>4. at' \in Locations /\ at' \notin InRound /\ at' \notin {"idle", "pay", "paid"}
    BY DEF PutStep, Locations, InRound, BeforeAdd
  <1>5. TypeOK'
    BY <1>1, <1>2, <1>3, <1>4 DEF IInv, TypeOK, PutStep, Quantities
  <1>6. RoundInv' /\ OrderedInv'
    BY <1>1, <1>4 DEF RoundInv, OrderedInv, PutStep
  <1>7. FutureInv'
    BY <1>1, <1>2 DEF IInv, PutStep, FutureInv
  <1>8. AddingInv'
    BY <1>1 DEF AddingInv, PutStep, BeforeAdd
  <1>9. OfferInv'
    BY <1>1, <1>3 DEF OfferInv, PutStep, Empty
  <1> QED BY <1>5, <1>6, <1>7, <1>8, <1>9 DEF IInv

LEMMA PutMaps == IInv /\ PutStep => Promise!Put
  <1> SUFFICES ASSUME IInv, PutStep PROVE Promise!Put
    OBVIOUS
  <1>1. /\ at # "idle"
        /\ at' # "idle"
        /\ placed[job] = 0
        /\ ~ added \/ job \in unsure
    BY DEF IInv, AddingInv, PutStep, BeforeAdd
  <1> QED BY <1>1 DEF PutStep, Put, jobVars, Promise!Put, Promise!MayLose

\* An answer is lost within the bound of surprises.
LEMMA LoseFact ==
  ASSUME IInv, LoseAnswer
  PROVE  surprises' \in 0 .. Surprises /\ unsure' = unsure \union {job}
  BY JobsAssumption, CheckoutAssumption DEF IInv, TypeOK, LoseAnswer

LEMMA PressAddSteps == IInv /\ PressAdd => PutStep \/ BrowseStep
  <1> SUFFICES ASSUME IInv, PressAdd PROVE PutStep \/ BrowseStep
    OBVIOUS
  <1>1. at = "adding" /\ AfterAdd[shop] \in {"confirm", "added"}
    BY DEF PressAdd, IInv, TypeOK, Shops, AfterAdd
  <1>2. CASE /\ Put
             /\ ShowAny
             /\ \/ UNCHANGED <<surprises, unsure>> /\ Move(AfterAdd[shop])
                \/ LoseAnswer /\ UNCHANGED handlerVars
             /\ UNCHANGED <<stock, order, placed, bought>>
    <2>1. CASE UNCHANGED <<surprises, unsure>> /\ Move(AfterAdd[shop])
      BY <1>1, <1>2, <2>1 DEF IInv, TypeOK, Move, jobVars, PutStep, BeforeAdd
    <2>2. CASE LoseAnswer /\ UNCHANGED handlerVars
      BY <1>1, <1>2, <2>2, LoseFact DEF handlerVars, jobVars, PutStep, BeforeAdd
    <2> QED BY <1>2, <2>1, <2>2
  <1>3. CASE Refuse /\ Move(AfterAdd[shop])
    BY <1>1, <1>3, RefuseFact, MoveBrowses DEF Locations, InRound, BeforeAdd
  <1>4. CASE Fail /\ OnlyBrowse
    BY <1>1, <1>4, FailBrowses
  <1> QED BY <1>2, <1>3, <1>4 DEF PressAdd

LEMMA WarmAddSteps == IInv /\ WarmAdd => PutStep \/ BrowseStep
  <1> SUFFICES ASSUME IInv, WarmAdd PROVE PutStep \/ BrowseStep
    OBVIOUS
  <1>1. at = "warm"
    BY DEF WarmAdd
  <1>2. CASE /\ Put
             /\ ShowAny
             /\ \/ UNCHANGED <<surprises, unsure>> /\ Move("warmAdded")
                \/ LoseAnswer /\ Move("raised")
             /\ UNCHANGED <<stock, order, placed, bought>>
    <2>1. CASE UNCHANGED <<surprises, unsure>> /\ Move("warmAdded")
      BY <1>1, <1>2, <2>1 DEF IInv, TypeOK, Move, jobVars, PutStep, BeforeAdd
    <2>2. CASE LoseAnswer /\ Move("raised")
      BY <1>1, <1>2, <2>2, LoseFact DEF Move, jobVars, PutStep, BeforeAdd
    <2> QED BY <1>2, <2>1, <2>2
  <1>3. CASE Refuse /\ Move("warmAdded")
    BY <1>1, <1>3, RefuseFact, MoveBrowses DEF Locations, InRound, BeforeAdd
  <1>4. CASE Fail /\ OnlyBrowse
    BY <1>1, <1>4, FailBrowses
  <1> QED BY <1>2, <1>3, <1>4 DEF WarmAdd, WarmSells

LEMMA AddByUrlSteps == IInv /\ AddByUrl => PutStep \/ BrowseStep
  <1> SUFFICES ASSUME IInv, AddByUrl PROVE PutStep \/ BrowseStep
    OBVIOUS
  <1>1. at = "start"
    BY DEF AddByUrl
  <1>2. CASE /\ Put
             /\ ShowAny
             /\ \/ UNCHANGED <<surprises, unsure>> /\ Move("added")
                \/ LoseAnswer /\ Move("raised")
             /\ UNCHANGED <<stock, order, placed, bought>>
    <2>1. CASE UNCHANGED <<surprises, unsure>> /\ Move("added")
      BY <1>1, <1>2, <2>1 DEF IInv, TypeOK, Move, jobVars, PutStep, BeforeAdd
    <2>2. CASE LoseAnswer /\ Move("raised")
      BY <1>1, <1>2, <2>2, LoseFact DEF Move, jobVars, PutStep, BeforeAdd
    <2> QED BY <1>2, <2>1, <2>2
  <1>3. CASE Refuse /\ Move("added")
    BY <1>1, <1>3, RefuseFact, MoveBrowses DEF Locations, InRound, BeforeAdd
  <1> QED BY <1>2, <1>3 DEF AddByUrl

-----------------------------------------------------------------------------
(***************************************************************************)
(* Steps that order.                                                       *)
(***************************************************************************)
OrderStep ==
  /\ at = "pay"
  /\ page = "pay"
  /\ TakeOrder
  /\ UNCHANGED <<jobVars, round, step, outcome, stock, added>>
  /\ surprises' \in 0 .. Surprises
  /\ page' \in {"done", "pay"}
  /\ page' = "pay" => offer' = offer
  /\ offer' \in Quantities
  /\ \/ at' = "paid" /\ page' = "done" /\ unsure' = unsure
     \/ at' \in {"pay", "paid"} /\ unsure' = unsure \union {job}

LEMMA OrderInv == IInv /\ OrderStep => IInv'
  <1> SUFFICES ASSUME IInv, OrderStep PROVE IInv'
    OBVIOUS
  <1> USE DEF jobVars
  <1>1. job \in JobIds /\ job \in Nat
    BY JobsAssumption DEF IInv, TypeOK, OrderStep, JobIds
  <1>2. Empty \in [Products -> Nat] /\ (\A p \in Products : Empty[p] = 0)
    BY DEF Empty
  <1>3. bought' \in [Products -> Nat]
    BY DEF IInv, TypeOK, Quantities, OrderStep, TakeOrder, Plus
  <1>4. /\ placed' \in [JobIds -> Nat]
        /\ placed'[job] > 0
        /\ \A j \in JobIds \ {job} : placed'[j] = placed[j]
    BY <1>1 DEF IInv, TypeOK, Quantities, OrderStep, TakeOrder
  <1>5. TypeOK'
    <2>1. basket' \in Quantities /\ order' \in Quantities /\ bought' \in Quantities
      BY <1>2, <1>3 DEF IInv, TypeOK, OrderStep, TakeOrder, Quantities
    <2>2. at' \in Locations /\ page' \in Pages /\ unsure' \in SUBSET JobIds
      BY <1>1 DEF IInv, TypeOK, OrderStep, Locations, Pages, Sellable
    <2>3. at' # "idle" => job' > 0 /\ product'[job'] \in Products
      BY DEF IInv, TypeOK, OrderStep
    <2>4. /\ shop' = shop /\ queueCheck' = queueCheck /\ job' = job /\ product' = product
          /\ round' = round /\ step' = step /\ outcome' = outcome /\ stock' = stock
          /\ added' = added /\ offer' \in Quantities /\ surprises' \in 0 .. Surprises
      BY DEF OrderStep
    <2> QED BY <1>4, <2>1, <2>2, <2>3, <2>4 DEF IInv, TypeOK
  <1>6. RoundInv' /\ AddingInv'
    BY DEF OrderStep, RoundInv, AddingInv, InRound, BeforeAdd
  <1>7. FutureInv'
    BY <1>1, <1>2, <1>4 DEF IInv, OrderStep, TakeOrder, FutureInv
  <1>8. OfferInv'
    BY <1>4 DEF OrderStep, TakeOrder, OfferInv
  <1>9. OrderedInv'
    BY DEF OrderStep, TakeOrder, OrderedInv, Empty
  <1> QED BY <1>5, <1>6, <1>7, <1>8, <1>9 DEF IInv

LEMMA OrderMaps == IInv /\ OrderStep => Promise!Place \/ Promise!Repeat
  <1> SUFFICES ASSUME IInv, OrderStep PROVE Promise!Place \/ Promise!Repeat
    OBVIOUS
  <1>1. CASE placed[job] = 0 /\ offer = basket /\ basket # Empty
    BY <1>1
    DEF OrderStep, TakeOrder, jobVars, Plus, Empty, Promise!Place,
        Promise!MayLose, Promise!Empty, Promise!Plus
  <1>2. CASE placed[job] > 0 /\ offer = order /\ job \in unsure
    <2>1. basket = Empty
      BY <1>2 DEF IInv, OrderedInv, OrderStep
    <2>2. unsure' = unsure
      BY <1>2 DEF OrderStep
    <2> QED
      BY <1>2, <2>1, <2>2
      DEF OrderStep, TakeOrder, jobVars, Plus, Promise!Repeat, Promise!Plus
  <1> QED BY <1>1, <1>2 DEF IInv, OfferInv, OrderStep

LEMMA PayAnsweredSteps == IInv /\ PayAnswered => OrderStep \/ BrowseStep
  <1> SUFFICES ASSUME IInv, PayAnswered PROVE OrderStep \/ BrowseStep
    OBVIOUS
  <1>1. at = "pay" /\ page = "pay" /\ Move("paid")
    BY DEF PayAnswered
  <1>2. CASE TakeOrder /\ Show("done") /\ UNCHANGED <<stock, surprises, added, unsure>>
    <2>1. offer' = Empty /\ Empty \in Quantities
      BY <1>2 DEF Show, Empty, Quantities
    <2> QED BY <1>1, <1>2, <2>1 DEF IInv, TypeOK, Move, jobVars, Show, OrderStep
  <1>3. CASE Refuse
    BY <1>1, <1>3, RefuseFact, MoveBrowses DEF Locations, InRound, BeforeAdd
  <1> QED BY <1>2, <1>3 DEF PayAnswered

LEMMA PayUnansweredSteps == IInv /\ PayUnanswered => OrderStep
  <1> SUFFICES ASSUME IInv, PayUnanswered PROVE OrderStep
    OBVIOUS
  <1>1. surprises' \in 0 .. Surprises /\ unsure' = unsure \union {job}
    BY LoseFact DEF PayUnanswered
  <1>2. /\ at' \in {"pay", "paid"}
        /\ UNCHANGED <<jobVars, round, step, outcome>>
    BY DEF PayUnanswered, Move, handlerVars
  <1>3. /\ page' \in {"done", "pay"}
        /\ page' = "pay" => offer' = offer
        /\ offer' \in Quantities
    <2>1. Empty \in Quantities
      BY DEF Empty, Quantities
    <2> QED BY <2>1 DEF IInv, TypeOK, PayUnanswered, pageVars
  <1> QED BY <1>1, <1>2, <1>3 DEF PayUnanswered, OrderStep

-----------------------------------------------------------------------------
(***************************************************************************)
(* The first state, the start of a job, and all steps together.            *)
(***************************************************************************)
LEMMA InitInv == Init => IInv
  <1> SUFFICES ASSUME Init PROVE IInv
    OBVIOUS
  <1>1. Empty \in [Products -> Nat]
    BY DEF Empty
  <1>2. /\ outcome \in [JobIds -> {"none", "success", "failed", "timed_out"}]
        /\ product \in [JobIds -> Products \union {NoProduct}]
        /\ placed \in [JobIds -> Nat]
    BY DEF Init
  <1>3. /\ offer \in Quantities
        /\ basket \in Quantities
        /\ order \in Quantities
        /\ bought \in Quantities
    BY <1>1 DEF Init, Quantities
  <1>4. job \in 0 .. Jobs /\ round \in 0 .. MaxRounds /\ surprises \in 0 .. Surprises
    BY JobsAssumption, CheckoutAssumption DEF Init
  <1>5. /\ shop \in Shops
        /\ queueCheck \in BOOLEAN
        /\ at \in Locations
        /\ step \in Pages \union {"unknown"}
        /\ page \in Pages
        /\ stock \in BOOLEAN
        /\ added \in BOOLEAN
        /\ unsure \in SUBSET JobIds
        /\ at = "idle"
    BY DEF Init, Locations, Pages
  <1>6. TypeOK
    BY <1>2, <1>3, <1>4, <1>5 DEF TypeOK
  <1>7. FutureInv
    BY DEF Init, FutureInv
  <1> QED
    BY <1>5, <1>6, <1>7
    DEF IInv, RoundInv, AddingInv, OfferInv, OrderedInv, InRound, BeforeAdd

LEMMA InitMaps == Init => Promise!Init
  BY DEF Init, Promise!Init, Empty, Promise!Empty, JobIds, Promise!JobIds

LEMMA BeginInv ==
  ASSUME NEW first \in {"start", "warm"}, NEW p \in Products
  PROVE  IInv /\ Begin(first, p) => IInv'
  <1> SUFFICES ASSUME IInv, Begin(first, p) PROVE IInv'
    OBVIOUS
  <1>1. Empty \in Quantities
    BY DEF Empty, Quantities
  <1>2. /\ job' = job + 1
        /\ job' \in 1 .. Jobs
        /\ job' \in JobIds
    BY JobsAssumption DEF IInv, TypeOK, Begin, JobIds
  <1>3. job + 1 > job
    BY DEF IInv, TypeOK
  <1>4. placed[job'] = 0 /\ added' = FALSE
    BY <1>2, <1>3 DEF IInv, FutureInv, Begin
  <1>5. at' = first /\ at' \in Locations /\ page' \in Pages \ {"pay"}
    BY DEF Begin, Locations, Pages, Sellable
  <1>6. product' \in [JobIds -> Products \union {NoProduct}] /\ product'[job'] \in Products
    BY <1>2 DEF IInv, TypeOK, Begin
  <1>7. TypeOK'
    <2>1. job' \in 0 .. Jobs /\ job' > 0
      BY <1>2, JobsAssumption
    <2>2. /\ shop' = shop /\ queueCheck' = queueCheck /\ round' = 0 /\ step' = "unknown"
          /\ order' = Empty /\ offer' = Empty /\ stock' \in BOOLEAN /\ outcome' = outcome
          /\ surprises' = surprises /\ basket' = basket /\ placed' = placed
          /\ bought' = bought /\ unsure' = unsure
      BY DEF Begin
    <2>3. 0 \in 0 .. MaxRounds
      BY CheckoutAssumption
    <2> QED BY <1>1, <1>4, <1>5, <1>6, <2>1, <2>2, <2>3 DEF IInv, TypeOK
  <1>8. RoundInv' /\ OfferInv'
    BY <1>5 DEF RoundInv, OfferInv, InRound
  <1>9. FutureInv'
    BY <1>2 DEF IInv, TypeOK, Begin, FutureInv, JobIds
  <1>10. AddingInv' /\ OrderedInv'
    BY <1>4 DEF AddingInv, OrderedInv, Begin
  <1> QED BY <1>7, <1>8, <1>9, <1>10 DEF IInv

LEMMA BeginMaps ==
  ASSUME NEW first \in {"start", "warm"}, NEW p \in Products
  PROVE  Begin(first, p) => Promise!Begin(p)
  BY DEF Begin, Promise!Begin, Empty, Promise!Empty

\* Every step is one of the four kinds.
LEMMA Kinds ==
  ASSUME IInv, Next
  PROVE  \/ \E first \in {"start", "warm"}, p \in Products : Begin(first, p)
         \/ PutStep
         \/ OrderStep
         \/ BrowseStep
  <1>1. CASE Adding
    BY <1>1, AddBrowses, RaiseBrowses, PressAddSteps, WarmAddSteps, AddByUrlSteps
    DEF Adding
  <1>2. CASE Checking
    BY <1>2, LookBrowses, LookStep, ActBrowses, BolBrowses DEF Checking
  <1>3. CASE Paying
    BY <1>3, PayBrowses, PayAnsweredSteps, PayUnansweredSteps, PaidBrowses,
       UnreadBrowses
    DEF Paying
  <1>4. CASE WaitIfQueue \/ GiveUp \/ DriverRaises
    BY <1>4, WaitBrowses, RaiseBrowses
  <1>5. CASE Shop
    BY <1>5, ShopBrowses
  <1> QED BY <1>1, <1>2, <1>3, <1>4, <1>5 DEF Next, Handler

\* The invariant is inductive.
LEMMA NextInv == IInv /\ [Next]_vars => IInv'
  <1> SUFFICES ASSUME IInv, [Next]_vars PROVE IInv'
    OBVIOUS
  <1>1. CASE Next
    BY <1>1, Kinds, BeginInv, PutInv, OrderInv, BrowseInv
  <1>2. CASE UNCHANGED vars
    <2>1. /\ UNCHANGED <<shop, queueCheck, job, product, at, round, step, page, offer>>
          /\ UNCHANGED <<stock, surprises, added, basket, order, placed, bought, unsure>>
          /\ UNCHANGED outcome
      BY <1>2 DEF vars, handlerVars, jobVars, pageVars, shopVars
    <2>2. TypeOK' /\ RoundInv'
      BY <2>1 DEF IInv, TypeOK, RoundInv, Quantities
    <2>3. FutureInv' /\ AddingInv'
      BY <2>1 DEF IInv, FutureInv, AddingInv
    <2>4. OfferInv' /\ OrderedInv'
      BY <2>1 DEF IInv, OfferInv, OrderedInv, Empty
    <2> QED BY <2>2, <2>3, <2>4 DEF IInv
  <1> QED BY <1>1, <1>2

\* Every step is a step of Ordering, or a stutter.
LEMMA NextMaps == IInv /\ [Next]_vars => [Promise!Next]_Promise!vars
  <1> SUFFICES ASSUME IInv, [Next]_vars PROVE [Promise!Next]_Promise!vars
    OBVIOUS
  <1>1. CASE Next
    <2>1. CASE \E first \in {"start", "warm"}, p \in Products : Begin(first, p)
      BY <2>1, BeginMaps DEF Promise!Next
    <2>2. CASE PutStep
      BY <2>2, PutMaps DEF Promise!Next
    <2>3. CASE OrderStep
      BY <2>3, OrderMaps DEF Promise!Next
    <2>4. CASE BrowseStep
      BY <2>4, BrowseMaps
    <2> QED BY <1>1, <2>1, <2>2, <2>3, <2>4, Kinds
  <1>2. CASE UNCHANGED vars
    BY <1>2 DEF vars, handlerVars, jobVars, pageVars, shopVars, Promise!vars
  <1> QED BY <1>1, <1>2

\* Type correctness of the handlers, the shop's pages and its books.
THEOREM TypeCorrect == Spec => []TypeOK
  <1>1. Spec => []IInv
    BY InitInv, NextInv, PTL DEF Spec
  <1>2. IInv => TypeOK
    BY DEF IInv
  <1> QED BY <1>1, <1>2, PTL

\* The handlers of the three shops implement Ordering.
THEOREM HandlersOrder == Spec => ImplementsOrdering
  <1>1. Spec => []IInv
    BY InitInv, NextInv, PTL DEF Spec
  <1> QED
    BY <1>1, InitMaps, NextMaps, PTL DEF Spec, ImplementsOrdering, Promise!Spec

-----------------------------------------------------------------------------
(***************************************************************************)
(* What Ordering promises, for any number of jobs, and with it what the    *)
(* handlers promise.                                                       *)
(***************************************************************************)
\* The job of a product, or a later one, lost an answer.
Lost(p) == \E i \in Promise!JobsFor(product, p), j \in unsure : i <= j

\* A job for p has not put its unit into the basket yet.
Waiting(p) == at # "idle" /\ product[job] = p /\ ~ added

\* The jobs to come have left no trace.
PromiseFuture ==
  \A j \in Promise!JobIds : j > job =>
    /\ product[j] = NoProduct
    /\ placed[j] = 0
    /\ j \notin unsure
    /\ outcome[j] = "none"

PromiseRunning == at # "idle" => outcome[job] = "none"

\* A unit is either still in the basket or sold, and there is at most one for
\* each job of a product that has put its own, unless an answer was lost.
PromiseUnits ==
  \A p \in Products :
    \/ Lost(p)
    \/ basket[p] + bought[p] + (IF Waiting(p) THEN 1 ELSE 0)
         <= Cardinality(Promise!JobsFor(product, p))

\* A product no job was for is not in what was ordered last.
PromiseOrder ==
  \A p \in Products : order[p] > 0 => \E i \in Promise!JobsFor(product, p) : i <= job

PromiseInv ==
  /\ Promise!TypeOK
  /\ PromiseFuture
  /\ PromiseRunning
  /\ PromiseUnits
  /\ PromiseOrder
  /\ Promise!OneOrderPerJob
  /\ Promise!FailedBoughtNothing

\* The jobs for a product can be counted.
LEMMA JobsForFacts ==
  ASSUME NEW f, NEW p
  PROVE  /\ IsFiniteSet(Promise!JobsFor(f, p))
         /\ Cardinality(Promise!JobsFor(f, p)) \in Nat
         /\ Promise!JobsFor(f, p) \subseteq Promise!JobIds
         /\ Cardinality(Promise!JobsFor(f, p)) = 0 <=> Promise!JobsFor(f, p) = {}
  <1>1. IsFiniteSet(Promise!JobIds)
    BY JobsAssumption, FS_Interval DEF Promise!JobIds
  <1>2. Promise!JobsFor(f, p) \subseteq Promise!JobIds
    BY DEF Promise!JobsFor
  <1>3. IsFiniteSet(Promise!JobsFor(f, p))
    BY <1>1, <1>2, FS_Subset
  <1> QED BY <1>2, <1>3, FS_CardinalityType, FS_EmptySet

\* The invariant holds before the first job.
LEMMA PromiseInit == Promise!Init => PromiseInv
  <1> SUFFICES ASSUME Promise!Init PROVE PromiseInv
    OBVIOUS
  <1>1. /\ Promise!Empty \in [Products -> Nat]
        /\ \A p \in Products : Promise!Empty[p] = 0
    BY DEF Promise!Empty
  <1>2. /\ outcome \in [Promise!JobIds -> {"none"}]
        /\ placed \in [Promise!JobIds -> {0}]
        /\ product \in [Promise!JobIds -> {NoProduct}]
        /\ ~ (at # "idle")
    BY DEF Promise!Init
  <1>3. Promise!TypeOK
    <2>1. /\ outcome \in [Promise!JobIds -> Promise!Outcomes]
          /\ placed \in [Promise!JobIds -> Nat]
          /\ product \in [Promise!JobIds -> Products \union {NoProduct}]
      BY <1>2 DEF Promise!Outcomes
    <2>2. job \in 0 .. Jobs /\ unsure \in SUBSET Promise!JobIds /\ added \in BOOLEAN
      <3>1. job = 0 /\ unsure = {}
        BY DEF Promise!Init
      <3>2. added = FALSE
        BY Zenon DEF Promise!Init
      <3>3. job \in 0 .. Jobs
        BY <3>1, JobsAssumption
      <3> QED BY <3>1, <3>2, <3>3
    <2>3. /\ basket \in Promise!Quantities
          /\ order \in Promise!Quantities
          /\ bought \in Promise!Quantities
      BY <1>1 DEF Promise!Init, Promise!Quantities
    <2> QED BY <1>2, <2>1, <2>2, <2>3 DEF Promise!TypeOK
  <1>4. PromiseFuture /\ PromiseRunning
    BY <1>2 DEF Promise!Init, PromiseFuture, PromiseRunning
  <1>5. PromiseUnits
    <2> SUFFICES ASSUME NEW p \in Products
                 PROVE  basket[p] + bought[p] + (IF Waiting(p) THEN 1 ELSE 0)
                          <= Cardinality(Promise!JobsFor(product, p))
      BY DEF PromiseUnits
    <2>1. basket[p] = 0 /\ bought[p] = 0 /\ ~ Waiting(p)
      BY <1>1, <1>2 DEF Promise!Init, Waiting
    <2> QED BY <2>1, JobsForFacts
  <1>6. PromiseOrder /\ Promise!OneOrderPerJob /\ Promise!FailedBoughtNothing
    BY <1>1, <1>2 DEF Promise!Init, PromiseOrder, Promise!OneOrderPerJob,
       Promise!FailedBoughtNothing
  <1> QED BY <1>3, <1>4, <1>5, <1>6 DEF PromiseInv

\* A new job is one more for its product, of which it has put no unit.
LEMMA PromiseBegin ==
  ASSUME NEW p \in Products
  PROVE  PromiseInv /\ Promise!Begin(p) => PromiseInv'
  <1> SUFFICES ASSUME PromiseInv, Promise!Begin(p) PROVE PromiseInv'
    OBVIOUS
  <1>1. /\ job \in Nat /\ job' = job + 1 /\ job' \in Promise!JobIds /\ job' \in 0 .. Jobs
        /\ at' # "idle" /\ ~ (at # "idle") /\ added' = FALSE
        /\ basket' = basket /\ bought' = bought /\ placed' = placed
        /\ unsure' = unsure /\ outcome' = outcome
    BY JobsAssumption DEF PromiseInv, Promise!Begin, Promise!TypeOK, Promise!JobIds
  <1>2. /\ product' \in [Promise!JobIds -> Products \union {NoProduct}]
        /\ product'[job'] = p /\ product[job'] = NoProduct
        /\ \A j \in Promise!JobIds \ {job'} : product'[j] = product[j]
    BY <1>1 DEF PromiseInv, Promise!Begin, Promise!TypeOK, PromiseFuture
  <1>3. Promise!Empty \in [Products -> Nat] /\ \A q \in Products : Promise!Empty[q] = 0
    BY DEF Promise!Empty
  <1>4. Promise!TypeOK'
    <2>1. order' \in Promise!Quantities /\ job' > 0
      BY <1>1, <1>3 DEF Promise!Begin, Promise!Quantities
    <2>2. Promise!TypeOK
      BY DEF PromiseInv
    <2>3. basket' \in Promise!Quantities /\ bought' \in Promise!Quantities
      BY <1>1, <2>2 DEF Promise!TypeOK
    <2> QED BY <1>1, <1>2, <2>1, <2>2, <2>3 DEF Promise!TypeOK
  <1>5. PromiseFuture' /\ PromiseRunning'
    BY <1>1, <1>2 DEF PromiseInv, PromiseFuture, PromiseRunning, Promise!JobIds
  <1>6. PromiseUnits'
    <2> SUFFICES ASSUME NEW q \in Products, ~ Lost(q)'
                 PROVE  (basket[q] + bought[q] + (IF Waiting(q) THEN 1 ELSE 0)
                          <= Cardinality(Promise!JobsFor(product, q)))'
      BY DEF PromiseUnits
    <2>1. basket[q] \in Nat /\ bought[q] \in Nat
      BY DEF PromiseInv, Promise!TypeOK, Promise!Quantities
    <2>2. Promise!JobsFor(product, q) \subseteq Promise!JobsFor(product', q)
      BY <1>1, <1>2, JobsAssumption DEF Promise!JobsFor
    <2>3. ~ Lost(q)
      BY <1>1, <2>2 DEF Lost
    <2>4. basket[q] + bought[q] <= Cardinality(Promise!JobsFor(product, q))
      <3>1. ~ Waiting(q)
        BY <1>1 DEF Waiting
      <3> QED BY <2>1, <2>3, <3>1 DEF PromiseInv, PromiseUnits
    <2>5. CASE q = p
      <3>1. Promise!JobsFor(product', q) = Promise!JobsFor(product, q) \union {job'}
        BY <1>1, <1>2, <2>5 DEF Promise!JobsFor
      <3>2. job' \notin Promise!JobsFor(product, q)
        BY <1>2, <2>5, JobsAssumption DEF Promise!JobsFor
      <3>3. Cardinality(Promise!JobsFor(product', q))
              = Cardinality(Promise!JobsFor(product, q)) + 1
        BY <3>1, <3>2, JobsForFacts, FS_AddElement
      <3> QED BY <1>1, <2>1, <2>4, <3>3, JobsForFacts
    <2>6. CASE q # p
      <3>1. Promise!JobsFor(product', q) = Promise!JobsFor(product, q)
        BY <1>1, <1>2, <2>6, JobsAssumption DEF Promise!JobsFor
      <3>2. ~ Waiting(q)'
        BY <1>2, <2>6 DEF Waiting
      <3> QED BY <1>1, <2>1, <2>4, <3>1, <3>2, JobsForFacts
    <2> QED BY <2>5, <2>6
  <1>7. PromiseOrder'
    BY <1>3 DEF Promise!Begin, PromiseOrder
  <1>8. Promise!OneOrderPerJob' /\ Promise!FailedBoughtNothing'
    BY <1>1 DEF PromiseInv, Promise!OneOrderPerJob, Promise!FailedBoughtNothing
  <1> QED BY <1>4, <1>5, <1>6, <1>7, <1>8 DEF PromiseInv

\* A unit put into the basket is the first of its job, or follows a lost answer.
LEMMA PromisePut == PromiseInv /\ Promise!Put => PromiseInv'
  <1> SUFFICES ASSUME PromiseInv, Promise!Put PROVE PromiseInv'
    OBVIOUS
  <1> DEFINE p == product[job]
  <1>1. /\ job \in Promise!JobIds /\ job \in Nat /\ p \in Products
        /\ product' = product /\ job' = job /\ at # "idle" /\ at' # "idle" /\ added'
        /\ bought' = bought /\ order' = order /\ placed' = placed /\ outcome' = outcome
    BY JobsAssumption DEF PromiseInv, Promise!Put, Promise!TypeOK, Promise!JobIds
  <1>2. unsure \subseteq unsure' /\ unsure' \subseteq unsure \union {job}
    BY DEF Promise!Put, Promise!MayLose
  <1>3. /\ basket' \in [Products -> Nat] /\ basket'[p] = basket[p] + 1
        /\ \A q \in Products \ {p} : basket'[q] = basket[q]
    BY <1>1 DEF PromiseInv, Promise!Put, Promise!TypeOK, Promise!Quantities
  <1>4. Promise!TypeOK'
    BY <1>1, <1>2, <1>3 DEF PromiseInv, Promise!TypeOK, Promise!Quantities
  <1>5. PromiseFuture' /\ PromiseRunning'
    BY <1>1, <1>2 DEF PromiseInv, PromiseFuture, PromiseRunning
  <1>6. PromiseUnits'
    <2> SUFFICES ASSUME NEW q \in Products, ~ Lost(q)'
                 PROVE  (basket[q] + bought[q] + (IF Waiting(q) THEN 1 ELSE 0)
                          <= Cardinality(Promise!JobsFor(product, q)))'
      BY DEF PromiseUnits
    <2>1. ~ Lost(q) /\ basket[q] \in Nat /\ bought[q] \in Nat /\ ~ Waiting(q)'
      BY <1>1, <1>2 DEF Lost, Waiting, PromiseInv, Promise!TypeOK, Promise!Quantities
    <2>2. basket[q] + bought[q] + (IF Waiting(q) THEN 1 ELSE 0)
            <= Cardinality(Promise!JobsFor(product, q))
      BY <2>1 DEF PromiseInv, PromiseUnits
    <2>3. CASE q # p
      BY <1>1, <1>3, <2>1, <2>2, <2>3, JobsForFacts DEF Waiting
    <2>4. CASE q = p
      <3>1. job \in Promise!JobsFor(product, q)
        BY <1>1, <2>4 DEF Promise!JobsFor
      <3>2. job \notin unsure
        BY <1>1, <2>1, <3>1 DEF Lost
      <3>3. Waiting(q)
        BY <1>1, <2>4, <3>2 DEF Promise!Put, Waiting
      <3> QED BY <1>1, <1>3, <2>1, <2>2, <2>4, <3>3, JobsForFacts
    <2> QED BY <2>3, <2>4
  <1>7. PromiseOrder'
    BY <1>1 DEF PromiseInv, PromiseOrder
  <1>8. Promise!OneOrderPerJob' /\ Promise!FailedBoughtNothing'
    BY <1>1, <1>2 DEF PromiseInv, Promise!OneOrderPerJob, Promise!FailedBoughtNothing
  <1> QED BY <1>4, <1>5, <1>6, <1>7, <1>8 DEF PromiseInv

\* What is in the basket was put there by a job.
LEMMA BasketFacts ==
  ASSUME PromiseInv, NEW p \in Products, basket[p] > 0
  PROVE  \E i \in Promise!JobsFor(product, p) : i <= job
  <1>1. basket[p] \in Nat /\ bought[p] \in Nat
    BY DEF PromiseInv, Promise!TypeOK, Promise!Quantities
  <1>2. Promise!JobsFor(product, p) # {}
    <2>1. CASE Lost(p)
      BY <2>1 DEF Lost
    <2>2. CASE ~ Lost(p)
      <3>1. Cardinality(Promise!JobsFor(product, p)) > 0
        BY <1>1, <2>2, JobsForFacts DEF PromiseInv, PromiseUnits
      <3> QED BY <3>1, JobsForFacts
    <2> QED BY <2>1, <2>2
  <1>3. \A i \in Promise!JobsFor(product, p) : i <= job
    BY JobsAssumption
    DEF PromiseInv, PromiseFuture, Promise!JobsFor, Promise!JobIds, Promise!TypeOK
  <1> QED BY <1>2, <1>3

\* An order moves the basket to what is sold.
LEMMA PromisePlace == PromiseInv /\ Promise!Place => PromiseInv'
  <1> SUFFICES ASSUME PromiseInv, Promise!Place PROVE PromiseInv'
    OBVIOUS
  <1>1. /\ job \in Promise!JobIds /\ job \in Nat
        /\ product' = product /\ job' = job /\ at # "idle" /\ at' # "idle" /\ added' = added
        /\ order' = basket /\ outcome' = outcome
    BY JobsAssumption DEF PromiseInv, Promise!Place, Promise!TypeOK, Promise!JobIds
  <1>2. unsure \subseteq unsure' /\ unsure' \subseteq unsure \union {job}
    BY DEF Promise!Place, Promise!MayLose
  <1>3. /\ basket \in [Products -> Nat]
        /\ bought \in [Products -> Nat]
        /\ placed \in [Promise!JobIds -> Nat]
    BY DEF PromiseInv, Promise!TypeOK, Promise!Quantities
  <1>4. /\ basket' \in [Products -> Nat]
        /\ \A p \in Products : basket'[p] = 0
    BY DEF Promise!Place, Promise!Empty
  <1>5. /\ bought' \in [Products -> Nat]
        /\ \A p \in Products : bought'[p] = bought[p] + basket[p]
    BY <1>3 DEF Promise!Place, Promise!Plus
  <1>6. /\ placed' \in [Promise!JobIds -> Nat]
        /\ placed'[job] = 1
        /\ \A j \in Promise!JobIds \ {job} : placed'[j] = placed[j]
    BY <1>1, <1>3 DEF Promise!Place
  <1>7. Promise!TypeOK'
    BY <1>1, <1>2, <1>3, <1>4, <1>5, <1>6 DEF PromiseInv, Promise!TypeOK, Promise!Quantities
  <1>8. PromiseFuture' /\ PromiseRunning'
    BY <1>1, <1>2, <1>6 DEF PromiseInv, PromiseFuture, PromiseRunning
  <1>9. PromiseUnits'
    <2> SUFFICES ASSUME NEW q \in Products, ~ Lost(q)'
                 PROVE  (basket[q] + bought[q] + (IF Waiting(q) THEN 1 ELSE 0)
                          <= Cardinality(Promise!JobsFor(product, q)))'
      BY DEF PromiseUnits
    <2>1. ~ Lost(q) /\ basket[q] \in Nat /\ bought[q] \in Nat /\ (Waiting(q)' <=> Waiting(q))
      BY <1>1, <1>2, <1>3 DEF Lost, Waiting
    <2>2. basket[q] + bought[q] + (IF Waiting(q) THEN 1 ELSE 0)
            <= Cardinality(Promise!JobsFor(product, q))
      BY <2>1 DEF PromiseInv, PromiseUnits
    <2> QED BY <1>1, <1>4, <1>5, <2>1, <2>2, JobsForFacts
  <1>10. PromiseOrder'
    BY <1>1, BasketFacts DEF PromiseOrder
  <1>11. Promise!OneOrderPerJob'
    BY <1>1, <1>2, <1>6 DEF PromiseInv, Promise!OneOrderPerJob
  <1>12. Promise!FailedBoughtNothing'
    BY <1>1, <1>2, <1>6 DEF PromiseInv, PromiseRunning, Promise!FailedBoughtNothing
  <1> QED BY <1>7, <1>8, <1>9, <1>10, <1>11, <1>12 DEF PromiseInv

\* A repeated order is one of a job that lost an answer, of products that this
\* job or an earlier one was for.
LEMMA PromiseRepeat == PromiseInv /\ Promise!Repeat => PromiseInv'
  <1> SUFFICES ASSUME PromiseInv, Promise!Repeat PROVE PromiseInv'
    OBVIOUS
  <1>1. /\ job \in Promise!JobIds /\ job \in Nat /\ job \in unsure
        /\ product' = product /\ job' = job /\ at # "idle" /\ at' # "idle" /\ added' = added
        /\ basket' = basket /\ order' = order /\ unsure' = unsure /\ outcome' = outcome
    BY JobsAssumption DEF PromiseInv, Promise!Repeat, Promise!TypeOK, Promise!JobIds
  <1>2. /\ bought' \in [Products -> Nat]
        /\ \A p \in Products : bought'[p] = bought[p] + order[p]
    BY DEF PromiseInv, Promise!TypeOK, Promise!Quantities, Promise!Repeat, Promise!Plus
  <1>3. /\ placed' \in [Promise!JobIds -> Nat]
        /\ placed'[job] > 0
        /\ \A j \in Promise!JobIds \ {job} : placed'[j] = placed[j]
    BY <1>1 DEF PromiseInv, Promise!TypeOK, Promise!Repeat
  <1>4. Promise!TypeOK'
    BY <1>1, <1>2, <1>3 DEF PromiseInv, Promise!TypeOK, Promise!Quantities
  <1>5. PromiseFuture' /\ PromiseRunning'
    BY <1>1, <1>3 DEF PromiseInv, PromiseFuture, PromiseRunning
  <1>6. PromiseUnits'
    <2> SUFFICES ASSUME NEW q \in Products, ~ Lost(q)'
                 PROVE  (basket[q] + bought[q] + (IF Waiting(q) THEN 1 ELSE 0)
                          <= Cardinality(Promise!JobsFor(product, q)))'
      BY DEF PromiseUnits
    <2>1. ~ Lost(q) /\ basket[q] \in Nat /\ bought[q] \in Nat /\ order[q] \in Nat
          /\ (Waiting(q)' <=> Waiting(q))
      BY <1>1 DEF Lost, Waiting, PromiseInv, Promise!TypeOK, Promise!Quantities
    <2>2. order[q] = 0
      BY <1>1, <2>1 DEF PromiseInv, PromiseOrder, Lost
    <2>3. basket[q] + bought[q] + (IF Waiting(q) THEN 1 ELSE 0)
            <= Cardinality(Promise!JobsFor(product, q))
      BY <2>1 DEF PromiseInv, PromiseUnits
    <2> QED BY <1>1, <1>2, <2>1, <2>2, <2>3, JobsForFacts
  <1>7. PromiseOrder'
    BY <1>1 DEF PromiseInv, PromiseOrder
  <1>8. Promise!OneOrderPerJob' /\ Promise!FailedBoughtNothing'
    BY <1>1, <1>3 DEF PromiseInv, Promise!OneOrderPerJob, Promise!FailedBoughtNothing
  <1> QED BY <1>4, <1>5, <1>6, <1>7, <1>8 DEF PromiseInv

\* A job ends as failed after an order only when it lost an answer.
LEMMA PromiseEnd ==
  ASSUME NEW r \in Results
  PROVE  PromiseInv /\ Promise!End(r) => PromiseInv'
  <1> SUFFICES ASSUME PromiseInv, Promise!End(r) PROVE PromiseInv'
    OBVIOUS
  <1>1. /\ job \in Promise!JobIds /\ job \in Nat
        /\ product' = product /\ job' = job /\ ~ (at' # "idle") /\ added' = added
        /\ basket' = basket /\ order' = order /\ placed' = placed /\ bought' = bought
    BY JobsAssumption DEF PromiseInv, Promise!End, Promise!TypeOK, Promise!JobIds
  <1>2. unsure \subseteq unsure' /\ unsure' \subseteq unsure \union {job}
    BY DEF Promise!End, Promise!MayLose
  <1>3. /\ outcome' \in [Promise!JobIds -> Promise!Outcomes]
        /\ outcome'[job] = r
        /\ \A j \in Promise!JobIds \ {job} : outcome'[j] = outcome[j]
    BY <1>1 DEF PromiseInv, Promise!TypeOK, Promise!Outcomes, Promise!End, Results
  <1>4. Promise!TypeOK'
    BY <1>1, <1>2, <1>3 DEF PromiseInv, Promise!TypeOK, Promise!Quantities
  <1>5. PromiseFuture' /\ PromiseRunning'
    BY <1>1, <1>2, <1>3 DEF PromiseInv, PromiseFuture, PromiseRunning
  <1>6. PromiseUnits'
    <2> SUFFICES ASSUME NEW q \in Products, ~ Lost(q)'
                 PROVE  (basket[q] + bought[q] + (IF Waiting(q) THEN 1 ELSE 0)
                          <= Cardinality(Promise!JobsFor(product, q)))'
      BY DEF PromiseUnits
    <2>1. ~ Lost(q) /\ basket[q] \in Nat /\ bought[q] \in Nat /\ ~ Waiting(q)'
      BY <1>1, <1>2 DEF Lost, Waiting, PromiseInv, Promise!TypeOK, Promise!Quantities
    <2>2. basket[q] + bought[q] + (IF Waiting(q) THEN 1 ELSE 0)
            <= Cardinality(Promise!JobsFor(product, q))
      BY <2>1 DEF PromiseInv, PromiseUnits
    <2> QED BY <1>1, <2>1, <2>2, JobsForFacts
  <1>7. PromiseOrder' /\ Promise!OneOrderPerJob'
    BY <1>1, <1>2 DEF PromiseInv, PromiseOrder, Promise!OneOrderPerJob
  <1>8. Promise!FailedBoughtNothing'
    BY <1>1, <1>2, <1>3 DEF PromiseInv, Promise!End, Promise!FailedBoughtNothing
  <1> QED BY <1>4, <1>5, <1>6, <1>7, <1>8 DEF PromiseInv

\* The invariant is inductive.
LEMMA PromiseNext == PromiseInv /\ [Promise!Next]_Promise!vars => PromiseInv'
  <1> SUFFICES ASSUME PromiseInv, [Promise!Next]_Promise!vars PROVE PromiseInv'
    OBVIOUS
  <1>1. ASSUME NEW p \in Products, Promise!Begin(p) PROVE PromiseInv'
    BY <1>1, PromiseBegin
  <1>2. CASE Promise!Put
    BY <1>2, PromisePut
  <1>3. CASE Promise!Place
    BY <1>3, PromisePlace
  <1>4. CASE Promise!Repeat
    BY <1>4, PromiseRepeat
  <1>5. ASSUME NEW r \in Results, Promise!End(r) PROVE PromiseInv'
    BY <1>5, PromiseEnd
  <1>6. CASE UNCHANGED Promise!vars
    <2>1. /\ UNCHANGED <<job, product, added, basket, order, placed, bought, unsure, outcome>>
          /\ (at # "idle")' = (at # "idle")
      BY <1>6 DEF Promise!vars
    <2>2. Promise!TypeOK' /\ PromiseFuture' /\ PromiseRunning' /\ PromiseOrder'
      BY <2>1 DEF PromiseInv, Promise!TypeOK, Promise!Quantities, PromiseFuture, PromiseRunning,
         PromiseOrder
    <2>3. PromiseUnits'
      BY <2>1 DEF PromiseInv, PromiseUnits, Lost, Waiting
    <2>4. Promise!OneOrderPerJob' /\ Promise!FailedBoughtNothing'
      BY <2>1 DEF PromiseInv, Promise!OneOrderPerJob, Promise!FailedBoughtNothing
    <2> QED BY <2>2, <2>3, <2>4 DEF PromiseInv
  <1>7. Promise!Outcomes \ {"none"} = Results
    BY DEF Promise!Outcomes, Results
  <1> QED BY <1>1, <1>2, <1>3, <1>4, <1>5, <1>6, <1>7 DEF Promise!Next

\* What is in the basket or sold bounds what is sold.
LEMMA PromiseKept == PromiseInv => Promise!TypeOK /\ Promise!Promises
  <1> SUFFICES ASSUME PromiseInv PROVE Promise!TypeOK /\ Promise!Promises
    OBVIOUS
  <1>1. ASSUME NEW p \in Products
        PROVE  \/ bought[p] <= Cardinality(Promise!JobsFor(product, p))
               \/ \E i \in Promise!JobsFor(product, p), j \in unsure : i <= j
    <2>1. CASE Lost(p)
      BY <2>1 DEF Lost
    <2>2. CASE ~ Lost(p)
      <3>1. basket[p] \in Nat /\ bought[p] \in Nat
        BY DEF PromiseInv, Promise!TypeOK, Promise!Quantities
      <3> QED BY <2>2, <3>1, JobsForFacts DEF PromiseInv, PromiseUnits
    <2> QED BY <2>1, <2>2
  <1>2. Promise!BoughtPerJob
    BY <1>1 DEF Promise!BoughtPerJob, Promise!Cardinality, Cardinality
  <1> QED BY <1>2 DEF PromiseInv, Promise!Promises

\* Type correctness and the three promises, for jobs that may share their
\* products: a job that lost no answer orders at most once, no more units of a
\* product are bought than there were jobs for it unless one of them or a later
\* one lost an answer, and a job reported as failed bought nothing unless it lost
\* one.
THEOREM OrderingKept == Promise!Spec => [](Promise!TypeOK /\ Promise!Promises)
  <1>1. Promise!Spec => []PromiseInv
    BY PromiseInit, PromiseNext, PTL DEF Promise!Spec
  <1> QED BY <1>1, PromiseKept, PTL

\* Across the jobs of a shop a job that lost no answer is ordered at most once
\* and is not reported failed after its order, and more units of a product than
\* there were jobs for it are bought only over a lost answer.
THEOREM CheckoutKept == Spec => []OrdersKept
  <1>1. ImplementsOrdering => [](Promise!TypeOK /\ Promise!Promises)
    BY OrderingKept DEF ImplementsOrdering
  <1>2. Promise!Promises => OrdersKept
    BY DEF OrdersKept
  <1> QED
    BY <1>1, <1>2, HandlersOrder, PTL
=============================================================================
