------------------------------ MODULE MCAntiBan ------------------------------
(* Instances of AntiBan: two denies open the breaker, one probe is allowed. *)
EXTENDS AntiBan, TLC

AllDrops == DropNames
=============================================================================
