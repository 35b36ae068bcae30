----------------------------- MODULE MCStabDedup -----------------------------
(* Small grids of blocks for TLC. *)
EXTENDS StabDedup

SomeFaulty == {0, 1}
=============================================================================
