---------------------------- MODULE MCSwapBatcher ----------------------------
(* A few workers and tiles for TLC. *)
EXTENDS SwapBatcher

FirstTwice == [w \in Workers |-> IF w = "w1" THEN 2 ELSE 1]
=============================================================================
