------------------------ MODULE MCPocketGamesPurchase ------------------------
(* Instances of PocketGamesPurchase: one product.                          *)
EXTENDS PocketGamesPurchase, TLC

CONSTANT p1

OneProduct == {p1}
=============================================================================
