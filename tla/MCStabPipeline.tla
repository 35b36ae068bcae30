--------------------------- MODULE MCStabPipeline ---------------------------
(* Small stabilised renders for TLC. *)
EXTENDS StabPipeline

FirstFaulty == {0}
AllBreaks == {"decoder", "block", "encoder"}
NoBreaks == {}
=============================================================================
