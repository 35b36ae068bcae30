-------------------------- MODULE MCStreamScheduler --------------------------
(* Model values for StreamScheduler. *)
EXTENDS StreamScheduler
FirstFaulty == {0}
OneUnproduced == {1}
=============================================================================
