--------------------------- MODULE PauseController ---------------------------
(***************************************************************************)
(* PauseController (roop/procmgr_runtime.py), the object through which a   *)
(* render is paused at a safe point.  Its state is the record `p`; every   *)
(* operator below is one section under its condition variable.  Counters   *)
(* never go below zero: the code clamps them.                              *)
(***************************************************************************)
EXTENDS Integers

AckIgnoringOutput(p) == [p EXCEPT !.acked = @ \/ (p.requested /\ p.active = 0)]
Ack(p) == [p EXCEPT !.acked = @ \/ (p.requested /\ p.active = 0 /\ p.pending = 0)]

Asked(p)    == Ack([p EXCEPT !.requested = TRUE])
Resumed(p)  == [p EXCEPT !.requested = FALSE, !.acked = FALSE]
Entered(p)  == [p EXCEPT !.active = @ + 1]
Left(p)     == Ack([p EXCEPT !.active = IF @ = 0 THEN 0 ELSE @ - 1])
Reserved(p) == Ack([p EXCEPT !.pending = @ + 1])

ReleasedSilently(p)  == [p EXCEPT !.pending = IF @ = 0 THEN 0 ELSE @ - 1]
Released(p) == Ack([p EXCEPT !.pending = IF @ = 0 THEN 0 ELSE @ - 1])

\* pending_output(-n); a release of nothing is not called.
ReleasedMany(p, n) ==
    IF n = 0 THEN p ELSE Ack([p EXCEPT !.pending = IF @ < n THEN 0 ELSE @ - n])
=============================================================================
