--------------------------- MODULE MCWorkerBrowser ---------------------------
(* Instances of WorkerBrowser: two jobs, one with a warm tab.              *)
EXTENDS WorkerBrowser, TLC

CONSTANTS j1, j2, p1

MCTargetOf == j1 :> p1 @@ j2 :> None
=============================================================================
