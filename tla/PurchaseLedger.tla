---------------------------- MODULE PurchaseLedger ----------------------------
(***************************************************************************)
(* What the purchase rows are to be for the money of the operator, without *)
(* queue, threads or exceptions: a ledger with one entry per product.  One *)
(* purchase is made at a time; it starts from an open entry, and one that  *)
(* may have been paid for is never open again.  An entry is void once an   *)
(* event that can hide a payment has hit its product: nothing is promised  *)
(* of it any more.                                                         *)
(***************************************************************************)
EXTENDS Naturals

CONSTANT Keys     \* products

VARIABLES
    entry,     \* the ledger
    charged    \* payments the shop accepted, by product

ledger == <<entry, charged>>

InFlight == {"claimed", "paid", "declined"}
Entries == {"open", "bought", "review", "void"} \cup InFlight

Init ==
    /\ entry = [k \in Keys |-> "open"]
    /\ charged = [k \in Keys |-> 0]

Moves(k, from, to) ==
    /\ entry[k] \in from
    /\ entry' = [entry EXCEPT ![k] = to]

Charge(k) == charged' = [charged EXCEPT ![k] = @ + 1]

Claim(k) ==
    /\ \A j \in Keys : entry[j] \notin InFlight
    /\ Moves(k, {"open"}, "claimed")
    /\ UNCHANGED charged

\* The shop takes the money, or declines.
Pay(k) == Moves(k, {"claimed"}, "paid") /\ Charge(k)
Decline(k) == Moves(k, {"claimed"}, "declined") /\ UNCHANGED charged

\* Given up: only what was not paid for.
Release(k) == Moves(k, {"claimed", "declined"}, "open") /\ UNCHANGED charged

\* Confirmed is only what was paid for; what nobody knows is left for a person.
Confirm(k) == Moves(k, {"paid"}, "bought") /\ UNCHANGED charged
Review(k) == Moves(k, {"paid", "declined"}, "review") /\ UNCHANGED charged

Void(k) == Moves(k, Entries, "void") /\ (Charge(k) \/ UNCHANGED charged)

Next == \E k \in Keys :
    \/ Claim(k) \/ Pay(k) \/ Decline(k) \/ Release(k) \/ Confirm(k) \/ Review(k)
    \/ Void(k)

Spec == Init /\ [][Next]_ledger

\* What is open was never paid for, what is bought was paid for once, and
\* what is left for review once at most.
PaidOnce ==
    \A k \in Keys :
        /\ entry[k] \in {"open", "claimed", "declined"} => charged[k] = 0
        /\ entry[k] \in {"paid", "bought"} => charged[k] = 1
        /\ entry[k] = "review" => charged[k] <= 1
=============================================================================
