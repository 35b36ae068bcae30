--------------------------- MODULE MCSegmentWriter ---------------------------
(* Small renders for TLC. *)
EXTENDS SegmentWriter
=============================================================================
