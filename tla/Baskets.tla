------------------------------- MODULE Baskets --------------------------------
(***************************************************************************)
(* The jobs of a worker, the products they are for, and how many of each   *)
(* product a basket, an order or a sale holds.  Several jobs may be for    *)
(* one product: it is asked for again when a job of it has ended.          *)
(***************************************************************************)
EXTENDS Integers, FiniteSets

CONSTANTS
  Jobs,                      \* how many jobs the worker runs
  Products,
  NoProduct

ASSUME JobsAssumption == Jobs \in Nat /\ NoProduct \notin Products

JobIds == 1 .. Jobs

\* The jobs that product, a function, says are for p.
JobsFor(product, p) == {j \in JobIds : product[j] = p}

Quantities == [Products -> Nat]

Empty == [p \in Products |-> 0]

Plus(a, b) == [p \in Products |-> a[p] + b[p]]
=============================================================================
