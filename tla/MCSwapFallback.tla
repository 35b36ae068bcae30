--------------------------- MODULE MCSwapFallback ---------------------------
(* A few workers on a small pool for TLC. *)
EXTENDS SwapFallback
=============================================================================
