------------------------- MODULE MCSeleniumDispatcher -------------------------
(* Instances of SeleniumDispatcher: three keys on two sites.               *)
EXTENDS SeleniumDispatcher, TLC

CONSTANTS k1, k2, k3, s1, s2

MCKeys == {k1, k2, k3}
MCSites == {s1, s2}
MCSiteOf == (k1 :> s1) @@ (k2 :> s1) @@ (k3 :> s2)
=============================================================================
