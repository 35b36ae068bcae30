--------------------------- MODULE MCProjectRecord ---------------------------
(* A small project for TLC. *)
EXTENDS ProjectRecord, TLC

CONSTANTS v1, v2

TwoLives == {v1, v2}
OneScan  == {"a"}
Versions == Permutations(TwoLives)
=============================================================================
