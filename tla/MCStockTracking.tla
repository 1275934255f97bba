--------------------------- MODULE MCStockTracking ---------------------------
(* Instances of StockTracking.                                             *)
EXTENDS StockTracking, TLC

CONSTANTS p1, p2
=============================================================================
