--------------------------- MODULE StreamScheduler ---------------------------
(***************************************************************************)
(* UnifiedRuntimeScheduler.run (roop/runtime_scheduler.py) driving the     *)
(* callbacks of ProcessMgr._run_unified_scheduler: a decoder, one CUDA     *)
(* owner and an encoder, two bounded queues between them, a pool of frame  *)
(* leases that bounds all three together, and the thread that joins them.  *)
(*                                                                         *)
(* Every wait of the three threads is timed and looks at should_continue() *)
(* when it expires: a wait that finds the run stopped is a disjunct that   *)
(* sets `stop`; a wait that goes on is the disabled action.                *)
(***************************************************************************)
EXTENDS Integers, Sequences, FiniteSets, PauseController

CONSTANTS
    TotalFrames,     \* frames the decoder yields
    Leases,          \* lease_limit
    QueueCap,        \* queue_capacity, of decode_q and of encode_q
    Faulty,          \* frames whose model run may raise
    Unproduced,      \* frames for which the processor chain may yield None
    SourceFails,     \* whether decode() may raise
    EncoderFails,    \* whether write_frame may raise
    MaxCalls         \* bound on the user's pause, resume and stop calls

Frames == 0 .. TotalFrames - 1

ASSUME SchedulerAssumption ==
    /\ TotalFrames \in Nat \ {0} /\ Leases \in Nat \ {0} /\ QueueCap \in Nat \ {0}
    /\ Faulty \subseteq Frames /\ Unproduced \subseteq Frames
    /\ SourceFails \in BOOLEAN /\ EncoderFails \in BOOLEAN
    /\ MaxCalls \in Nat

Kinds  == {"decoded", "swapped", "original", "refused"}
Packet == [frame : Frames, kind : Kinds]
Mark   == [frame |-> -1, kind |-> "end"]        \* decoder_done and processor_done
Blank  == [frame |-> 0, kind |-> "decoded"]     \* a thread that holds no packet

VARIABLES
    pause,          \* PauseController
    processing,     \* roop.globals.processing, what should_continue() returns
    stop,           \* the scheduler's _stop event
    leases,         \* the value of frame_leases
    decodeQ, encodeQ,
    dpc, index,     \* the decoder: where it is, the frame it is on
    ppc, job, attempt,              \* the CUDA owner
    epc, hand, pending, expected,   \* the encoder: packet in hand, reorder buffer, next frame
    flushing,       \* it has met the end mark and empties its buffer
    encoded,        \* packets written, in order
    errors,         \* whether a thread recorded an exception
    main,           \* the thread inside run()
    stopping, calls

decoderVars == <<dpc, index>>
ownerVars   == <<ppc, job, attempt>>
encoderVars == <<epc, hand, pending, expected, flushing, encoded>>
callVars    == <<stopping, calls>>
vars == <<pause, processing, stop, leases, decodeQ, encodeQ, decoderVars, ownerVars,
          encoderVars, errors, main, callVars>>

Held == pause.requested /\ processing

Init ==
    /\ \E held \in BOOLEAN :
           pause = [requested |-> held, acked |-> held, active |-> 0, pending |-> 0]
    /\ processing = TRUE /\ stop = FALSE /\ leases = Leases
    /\ decodeQ = <<>> /\ encodeQ = <<>>
    /\ dpc = "poll" /\ index = 0
    /\ ppc = "get" /\ job = Blank /\ attempt = 1
    /\ epc = "get" /\ hand = Blank /\ pending = {} /\ expected = 0
    /\ flushing = FALSE /\ encoded = <<>>
    /\ errors = FALSE /\ main = "running"
    /\ stopping = FALSE /\ calls = 0

\* frame_leases.release(); BoundedSemaphore's ValueError is swallowed.
Returned(n) == IF leases + n > Leases THEN Leases ELSE leases + n

\* put_until: TRUE in `placed` when the item is in q, FALSE when the run is stopped instead.
Placed(q)  == ~stop /\ Len(q) < QueueCap /\ UNCHANGED stop
Refused(q) == /\ stop \/ (Len(q) = QueueCap /\ ~processing)
              /\ stop' = TRUE

(***************************************************************************)
(* The decoder: a lease first, then a frame.                               *)
(***************************************************************************)
DecoderPoll ==
    /\ dpc = "poll"
    /\ dpc' = IF processing /\ ~stop THEN "lease" ELSE "mark"
    /\ UNCHANGED <<pause, processing, stop, leases, decodeQ, encodeQ, index, ownerVars,
                   encoderVars, errors, main, callVars>>

AcquireLease ==
    /\ dpc = "lease"
    /\ \/ /\ ~stop /\ leases > 0
          /\ leases' = leases - 1 /\ dpc' = "decode"
          /\ UNCHANGED stop
       \/ /\ stop \/ (leases = 0 /\ ~processing)
          /\ stop' = TRUE /\ dpc' = "mark"
          /\ UNCHANGED leases
    /\ UNCHANGED <<pause, processing, decodeQ, encodeQ, index, ownerVars, encoderVars,
                   errors, main, callVars>>

DecodeKeepingLease ==
    /\ dpc = "decode"
    /\ dpc' = IF index < TotalFrames THEN "put" ELSE "mark"
    /\ UNCHANGED <<pause, processing, stop, leases, decodeQ, encodeQ, index, ownerVars,
                   encoderVars, errors, main, callVars>>

\* The lease is returned at the end of the clip and when decode() raises.
Decode ==
    /\ dpc = "decode"
    /\ \/ /\ index < TotalFrames
          /\ dpc' = "put"
          /\ UNCHANGED <<leases, stop, errors>>
       \/ /\ index = TotalFrames
          /\ dpc' = "mark" /\ leases' = Returned(1)
          /\ UNCHANGED <<stop, errors>>
       \/ /\ SourceFails
          /\ dpc' = "mark" /\ leases' = Returned(1)
          /\ stop' = TRUE /\ errors' = TRUE
    /\ UNCHANGED <<pause, processing, decodeQ, encodeQ, index, ownerVars, encoderVars,
                   main, callVars>>

PutDecoded ==
    /\ dpc = "put"
    /\ \/ /\ Placed(decodeQ)
          /\ decodeQ' = Append(decodeQ, [frame |-> index, kind |-> "decoded"])
          /\ index' = index + 1 /\ dpc' = "poll"
          /\ UNCHANGED leases
       \/ /\ Refused(decodeQ)
          /\ leases' = Returned(1) /\ dpc' = "mark"
          /\ UNCHANGED <<decodeQ, index>>
    /\ UNCHANGED <<pause, processing, encodeQ, ownerVars, encoderVars, errors, main, callVars>>

MarkDecoded ==
    /\ dpc = "mark"
    /\ \/ Placed(decodeQ) /\ decodeQ' = Append(decodeQ, Mark)
       \/ Refused(decodeQ) /\ UNCHANGED decodeQ
    /\ dpc' = "done"
    /\ UNCHANGED <<pause, processing, leases, encodeQ, index, ownerVars, encoderVars,
                   errors, main, callVars>>

Decoder == DecoderPoll \/ AcquireLease \/ Decode \/ PutDecoded \/ MarkDecoded

(***************************************************************************)
(* The CUDA owner: process() of _run_unified_scheduler.  It is the only    *)
(* thread inside the recovery gate, so a rerun after a memory error starts *)
(* at once.  A get() that began before `stop` may still return a packet.   *)
(***************************************************************************)
Take ==
    /\ ppc = "get"
    /\ \/ /\ decodeQ # <<>>
          /\ decodeQ' = Tail(decodeQ)
          /\ IF Head(decodeQ) = Mark
               THEN ppc' = "mark" /\ UNCHANGED <<job, attempt>>
               ELSE ppc' = "begin" /\ job' = Head(decodeQ) /\ attempt' = 1
          /\ UNCHANGED stop
       \/ /\ stop \/ (decodeQ = <<>> /\ ~processing)
          /\ stop' = TRUE /\ ppc' = "mark"
          /\ UNCHANGED <<decodeQ, job, attempt>>
    /\ UNCHANGED <<pause, processing, leases, encodeQ, decoderVars, encoderVars, errors,
                   main, callVars>>

\* pause_scope: a stopped run hands the frame back, unreserved.
Begin ==
    /\ ppc = "begin" /\ ~Held
    /\ IF processing
         THEN pause' = Entered(pause) /\ ppc' = "work" /\ UNCHANGED job
         ELSE job' = [job EXCEPT !.kind = "refused"] /\ ppc' = "put" /\ UNCHANGED pause
    /\ UNCHANGED <<processing, stop, leases, decodeQ, encodeQ, decoderVars, attempt,
                   encoderVars, errors, main, callVars>>

Work ==
    /\ ppc = "work"
    /\ \/ /\ job' = [job EXCEPT !.kind = "swapped"]
          /\ pause' = Reserved(pause) /\ ppc' = "leave"
       \/ /\ job.frame \in Faulty \cup Unproduced
          /\ ppc' = IF job.frame \in Unproduced THEN "lost" ELSE "failed"
          /\ UNCHANGED <<job, pause>>
    /\ UNCHANGED <<processing, stop, leases, decodeQ, encodeQ, decoderVars, attempt,
                   encoderVars, errors, main, callVars>>

LeaveScope ==
    /\ ppc \in {"leave", "failed", "lost"}
    /\ pause' = Left(pause)
    /\ \/ ppc = "leave"  /\ ppc' = "put"      /\ UNCHANGED attempt
       \/ ppc = "failed" /\ ppc' = "fallback" /\ UNCHANGED attempt
       \/ ppc = "failed" /\ attempt = 1 /\ ppc' = "begin" /\ attempt' = 2
       \/ ppc = "lost"   /\ ppc' = "drop"     /\ UNCHANGED attempt
    /\ UNCHANGED <<processing, stop, leases, decodeQ, encodeQ, decoderVars, job,
                   encoderVars, errors, main, callVars>>

Fallback ==
    /\ ppc = "fallback"
    /\ pause' = Reserved(pause)
    /\ job' = [job EXCEPT !.kind = "original"] /\ ppc' = "put"
    /\ UNCHANGED <<processing, stop, leases, decodeQ, encodeQ, decoderVars, attempt,
                   encoderVars, errors, main, callVars>>

DropKeepingLease ==
    /\ ppc = "drop" /\ ppc' = "get"
    /\ UNCHANGED <<pause, processing, stop, leases, decodeQ, encodeQ, decoderVars, job, attempt,
                   encoderVars, errors, main, callVars>>

Drop ==
    /\ ppc = "drop"
    /\ leases' = Returned(1) /\ ppc' = "get"
    /\ UNCHANGED <<pause, processing, stop, decodeQ, encodeQ, decoderVars, job, attempt,
                   encoderVars, errors, main, callVars>>

PutProcessed ==
    /\ ppc = "put"
    /\ \/ /\ Placed(encodeQ)
          /\ encodeQ' = Append(encodeQ, job) /\ ppc' = "get"
          /\ UNCHANGED leases
       \/ /\ Refused(encodeQ)
          /\ leases' = Returned(1) /\ ppc' = "mark"
          /\ UNCHANGED encodeQ
    /\ UNCHANGED <<pause, processing, decodeQ, decoderVars, job, attempt, encoderVars,
                   errors, main, callVars>>

MarkProcessed ==
    /\ ppc = "mark"
    /\ \/ Placed(encodeQ) /\ encodeQ' = Append(encodeQ, Mark)
       \/ Refused(encodeQ) /\ UNCHANGED encodeQ
    /\ ppc' = "done"
    /\ UNCHANGED <<pause, processing, leases, decodeQ, decoderVars, job, attempt,
                   encoderVars, errors, main, callVars>>

Owner == Take \/ Begin \/ Work \/ LeaveScope \/ Fallback \/ Drop \/ PutProcessed \/ MarkProcessed

(***************************************************************************)
(* The encoder: a reorder buffer, then encode() of _run_unified_scheduler. *)
(* It never sets `stop` on a stopped run; it leaves when its buffer is     *)
(* empty, and the others find `stop` or the flag themselves.               *)
(***************************************************************************)
Fetch ==
    /\ epc = "get"
    /\ \/ /\ encodeQ # <<>>
          /\ encodeQ' = Tail(encodeQ)
          /\ IF Head(encodeQ) = Mark
               THEN epc' = "flush" /\ flushing' = TRUE /\ UNCHANGED pending
               ELSE epc' = "order" /\ pending' = pending \cup {Head(encodeQ)} /\ UNCHANGED flushing
       \/ /\ stop \/ (encodeQ = <<>> /\ ~processing /\ pending = {})
          /\ epc' = "leave"
          /\ UNCHANGED <<encodeQ, pending, flushing>>
    /\ UNCHANGED <<pause, processing, stop, leases, decodeQ, decoderVars, ownerVars, hand,
                   expected, encoded, errors, main, callVars>>

\* while expected in pending
Order ==
    /\ epc = "order"
    /\ LET due == {p \in pending : p.frame = expected} IN
       IF due = {}
         THEN epc' = "get" /\ UNCHANGED <<hand, pending>>
         ELSE /\ hand' = CHOOSE p \in due : TRUE
              /\ pending' = pending \ due /\ epc' = "encode"
    /\ UNCHANGED <<pause, processing, stop, leases, decodeQ, encodeQ, decoderVars, ownerVars,
                   expected, flushing, encoded, errors, main, callVars>>

FlushUnsorted ==
    /\ epc = "flush"
    /\ IF pending = {}
         THEN epc' = "leave" /\ UNCHANGED <<hand, pending>>
         ELSE \E p \in pending :
                hand' = p /\ pending' = pending \ {p} /\ epc' = "encode"
    /\ UNCHANGED <<pause, processing, stop, leases, decodeQ, encodeQ, decoderVars, ownerVars,
                   expected, flushing, encoded, errors, main, callVars>>

\* for index in sorted(pending)
Flush ==
    /\ epc = "flush"
    /\ IF pending = {}
         THEN epc' = "leave" /\ UNCHANGED <<hand, pending>>
         ELSE LET p == CHOOSE p \in pending : \A q \in pending : p.frame <= q.frame IN
              hand' = p /\ pending' = pending \ {p} /\ epc' = "encode"
    /\ UNCHANGED <<pause, processing, stop, leases, decodeQ, encodeQ, decoderVars, ownerVars,
                   expected, flushing, encoded, errors, main, callVars>>

\* A write that raises never reaches pending_output(-1).
Encode ==
    /\ epc = "encode"
    /\ \/ /\ encoded' = Append(encoded, hand) /\ epc' = "clear"
          /\ UNCHANGED <<stop, errors, leases>>
       \/ /\ EncoderFails
          /\ leases' = Returned(1)
          /\ stop' = TRUE /\ errors' = TRUE /\ epc' = "leave"
          /\ UNCHANGED encoded
    /\ UNCHANGED <<pause, processing, decodeQ, encodeQ, decoderVars, ownerVars, hand, pending,
                   expected, flushing, main, callVars>>

Clear ==
    /\ epc = "clear" /\ epc' = "check"
    /\ pause' = Released(pause)
    /\ UNCHANGED <<processing, stop, leases, decodeQ, encodeQ, decoderVars, ownerVars, hand,
                   pending, expected, flushing, encoded, errors, main, callVars>>

\* An acknowledged pause seals the segment here and parks the encoder.
Check ==
    /\ epc = "check"
    /\ epc' = IF pause.acked THEN "parked" ELSE "retire"
    /\ UNCHANGED <<pause, processing, stop, leases, decodeQ, encodeQ, decoderVars, ownerVars,
                   hand, pending, expected, flushing, encoded, errors, main, callVars>>

Unpark ==
    /\ epc = "parked" /\ ~Held /\ epc' = "retire"
    /\ UNCHANGED <<pause, processing, stop, leases, decodeQ, encodeQ, decoderVars, ownerVars,
                   hand, pending, expected, flushing, encoded, errors, main, callVars>>

Retire ==
    /\ epc = "retire"
    /\ leases' = Returned(1)
    /\ IF flushing THEN epc' = "flush" /\ UNCHANGED expected
                   ELSE epc' = "order" /\ expected' = expected + 1
    /\ UNCHANGED <<pause, processing, stop, decodeQ, encodeQ, decoderVars, ownerVars, hand,
                   pending, flushing, encoded, errors, main, callVars>>

LeaveEncoder ==
    /\ epc = "leave"
    /\ leases' = Returned(Cardinality(pending))
    /\ pending' = {} /\ epc' = "done"
    /\ UNCHANGED <<pause, processing, stop, decodeQ, encodeQ, decoderVars, ownerVars, hand,
                   expected, flushing, encoded, errors, main, callVars>>

Encoder == Fetch \/ Order \/ Flush \/ Encode \/ Clear \/ Check \/ Unpark \/ Retire \/ LeaveEncoder

(***************************************************************************)
(* run() joins the three, returns the leases of what is still queued, and  *)
(* raises the first error.                                                 *)
(***************************************************************************)
PacketsIn(q) == Cardinality({i \in DOMAIN q : q[i] # Mark})

Finish ==
    /\ main = "running" /\ dpc = "done" /\ ppc = "done" /\ epc = "done"
    /\ stop' = TRUE
    /\ leases' = Returned(PacketsIn(decodeQ) + PacketsIn(encodeQ))
    /\ decodeQ' = <<>> /\ encodeQ' = <<>>
    /\ main' = IF errors THEN "raised" ELSE "returned"
    /\ UNCHANGED <<pause, processing, decoderVars, ownerVars, encoderVars, errors, callVars>>

(***************************************************************************)
(* pause_swap, resume_swap and stop_swap; a stop resumes first and clears  *)
(* `processing` afterwards.                                                *)
(***************************************************************************)
Call ==
    /\ calls < MaxCalls /\ main = "running" /\ ~stopping /\ processing
    /\ calls' = calls + 1
    /\ \E c \in {"pause", "resume", "stop"} :
           /\ pause' = IF c = "pause" THEN Asked(pause) ELSE Resumed(pause)
           /\ stopping' = (c = "stop")
    /\ UNCHANGED <<processing, stop, leases, decodeQ, encodeQ, decoderVars, ownerVars,
                   encoderVars, errors, main>>

StopProcessing ==
    /\ stopping /\ processing
    /\ processing' = FALSE
    /\ UNCHANGED <<pause, stop, leases, decodeQ, encodeQ, decoderVars, ownerVars,
                   encoderVars, errors, main, callVars>>

Next == Decoder \/ Owner \/ Encoder \/ Finish \/ Call \/ StopProcessing

Fairness ==
    /\ WF_vars(Decoder) /\ WF_vars(Owner) /\ WF_vars(Encoder)
    /\ WF_vars(Finish) /\ WF_vars(StopProcessing)

Spec == Init /\ [][Next]_vars /\ Fairness

(***************************************************************************)
(* Correctness.                                                            *)
(***************************************************************************)
EncoderSteps == {"encode", "clear", "check", "parked", "retire"}

TypeOK ==
    /\ pause \in [requested : BOOLEAN, acked : BOOLEAN, active : 0 .. 1, pending : 0 .. Leases]
    /\ processing \in BOOLEAN /\ stop \in BOOLEAN /\ errors \in BOOLEAN
    /\ leases \in 0 .. Leases
    /\ decodeQ \in Seq(Packet \cup {Mark}) /\ encodeQ \in Seq(Packet \cup {Mark})
    /\ Len(decodeQ) <= QueueCap /\ Len(encodeQ) <= QueueCap
    /\ dpc \in {"poll", "lease", "decode", "put", "mark", "done"} /\ index \in 0 .. TotalFrames
    /\ ppc \in {"get", "begin", "work", "leave", "failed", "lost", "fallback", "drop", "put",
                "mark", "done"}
    /\ job \in Packet /\ attempt \in {1, 2}
    /\ epc \in {"get", "order", "flush", "leave", "done"} \cup EncoderSteps /\ flushing \in BOOLEAN
    /\ hand \in Packet /\ pending \subseteq Packet /\ expected \in 0 .. TotalFrames
    /\ encoded \in Seq(Packet)
    /\ main \in {"running", "returned", "raised"}
    /\ stopping \in BOOLEAN /\ calls \in 0 .. MaxCalls

InDecoder == IF dpc \in {"decode", "put"} THEN 1 ELSE 0
InOwner   == IF ppc \in {"get", "mark", "done"} THEN 0 ELSE 1
InEncoder == IF epc \in EncoderSteps THEN 1 ELSE 0

\* Frames alive in the scheduler and free leases add up to the limit in every state, whichever
\* thread fails, is stopped or drops a frame: memory is bounded by the leases alone, none is
\* lost and none returned twice, and the last one is back when run() ends.
LeasesExact ==
    leases + InDecoder + PacketsIn(decodeQ) + InOwner + PacketsIn(encodeQ)
           + Cardinality(pending) + InEncoder = Leases

\* Whatever stops or fails, the video is a prefix of the clip in order: no frame twice, and a
\* frame is missing before the last one only when its processor chain yielded nothing. A run
\* that returns without an error and was not stopped has encoded everything.
EncodesClip ==
    /\ \A i \in DOMAIN encoded :
           LET previous == IF i = 1 THEN -1 ELSE encoded[i - 1].frame IN
           /\ previous < encoded[i].frame
           /\ \A f \in Frames : previous < f /\ f < encoded[i].frame => f \in Unproduced
    /\ main = "returned" /\ processing =>
           /\ \A f \in Frames \ Unproduced : \E i \in DOMAIN encoded : encoded[i].frame = f
           /\ \A i \in DOMAIN encoded : encoded[i].kind # "refused"

\* What the caller of run() has of the render, as RenderedClip sees it.
Outcome == IF main = "running" THEN "running"
           ELSE IF main = "returned" /\ processing THEN "complete" ELSE "partial"

FramesOf(e)  == [i \in DOMAIN e |-> e[i].frame]
RefusedOf(e) == {e[i].frame : i \in {j \in DOMAIN e : e[j].kind = "refused"}}

Clip == INSTANCE RenderedClip WITH
            Skippable <- Unproduced, video <- FramesOf(encoded), refused <- RefusedOf(encoded),
            outcome <- Outcome

\* Whatever fails, drops a frame or stops, run() renders a clip: frames come in order, one is
\* missing only when its chain yields nothing, and an undisturbed return has the whole clip.
ImplementsClip == Clip!Spec

Output(p) == p.kind \in {"swapped", "original"}
Outputs(q) == Cardinality({i \in DOMAIN q : Output(q[i])})

\* Until a stop or an error, the pause controller counts exactly the outputs not yet encoded.
ReservationsExact ==
    processing /\ ~errors =>
        pause.pending = (IF ppc \in {"leave", "put"} THEN 1 ELSE 0) + Outputs(encodeQ)
                        + Cardinality(pending) + (IF epc \in {"encode", "clear"} THEN 1 ELSE 0)

\* An acknowledged pause: no model runs and every swapped frame is with the encoder; only the
\* original standing in for a failed frame may still be on its way.
PausedIsDrained ==
    pause.acked /\ processing =>
        /\ pause.active = 0 /\ ppc \notin {"work", "leave"}
        /\ ppc = "put" => job.kind = "original"
        /\ \A i \in DOMAIN encodeQ : encodeQ[i].kind # "swapped"
        /\ \A p \in pending : p.kind # "swapped"

\* The state is sound: every variable has its type, every packet has its lease, every output its
\* reservation, and an acknowledged pause is drained.
PacketsAccounted == TypeOK /\ LeasesExact /\ ReservationsExact /\ PausedIsDrained

Ended == main # "running"

\* The encoder holds frames that wait for one that will never come.
Gap == expected \in Unproduced /\ pending # {}

\* Every lease is with a frame behind such a gap: the decoder gets none for the frame, or the end
\* of the clip, that would make the encoder go on.
LockedUp == Gap /\ Cardinality(pending) = Leases /\ processing /\ ~stop

\* run() comes to its end unless it is left paused: after a stop or an error no thread waits for a
\* lease, for room or for a packet, and without one leases, queues and buffer lock up in one way
\* only: as many frames as there are leases have followed one for which the chain yielded nothing.
RunEnds == <>Ended \/ <>[]Held \/ <>[]LockedUp

\* A requested pause is acknowledged, unless it is withdrawn, the run ends or fails, a frame was
\* produced behind one for which the processor chain yielded nothing, or the encoder has not yet
\* woken from the pause before, which was resumed: its loop then finds the new request.
PauseAnswered == Held ~> (pause.acked \/ ~Held \/ errors \/ Ended \/ Gap \/ epc = "parked")
=============================================================================
