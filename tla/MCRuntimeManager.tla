-------------------------- MODULE MCRuntimeManager --------------------------
(* Instances of RuntimeManager: requests of one or two threads.            *)
EXTENDS RuntimeManager, TLC

CONSTANTS c1, c2

TwoCallers == {c1, c2}
OneCaller == {c1}
Symmetry == Permutations(TwoCallers)
=============================================================================
