--------------------------- MODULE MCFramePipeline ---------------------------
(* Small renders for TLC. *)
EXTENDS FramePipeline

OneFaulty == {0}
=============================================================================
