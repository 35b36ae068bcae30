----------------------------- MODULE StabPipeline -----------------------------
(***************************************************************************)
(* The stabilised render, ProcessMgr._run_stab_parallel: the path a render *)
(* takes by default.  A reader decodes the clip in chunks, a coordinator   *)
(* lays a grid of blocks over each chunk and queues them, a pool of        *)
(* workers runs each block in frame order after a warm-up on the raw       *)
(* frames before it, and a writer encodes whole chunks, oldest first.      *)
(*                                                                         *)
(* A worker never waits in a pause: it hands its block back unfinished and *)
(* the coordinator retires every chunk in flight, writes what is contiguous*)
(* and queues the rest again.  An action is one section under a lock or a  *)
(* queue, with the code local to its thread up to the next one; a timed    *)
(* wait that loops is the disabled action.                                 *)
(***************************************************************************)
EXTENDS PauseController, Sequences, FiniteSets

CONSTANTS
    TotalFrames,     \* frames the decoder yields
    Chunk, Block,    \* frames of a chunk and of a block; a chunk is whole blocks
    WarmUp,          \* WU, raw frames a block is primed with
    Width,           \* workers, named 0 .. Width - 1
    Depth,           \* chunks in flight (_stab_overlap_depth)
    QueueCap,        \* capacity of prefetch_q and of _write_q
    Faulty,          \* the frames whose model run may raise or return None
    Breaks,          \* what may fail for good: "decoder", "block", "encoder"
    MaxCalls         \* bound on the user's pause, resume and stop calls

Workers == 0 .. Width - 1
Frames  == 0 .. TotalFrames - 1

ASSUME StabAssumption ==
    /\ TotalFrames \in Nat \ {0} /\ Block \in Nat \ {0} /\ Chunk \in Nat \ {0}
    /\ Chunk % Block = 0 /\ WarmUp \in Nat
    /\ Width \in Nat \ {0} /\ Depth \in Nat \ {0} /\ QueueCap \in Nat \ {0}
    /\ Faulty \subseteq Frames /\ Breaks \subseteq {"decoder", "block", "encoder"}
    /\ MaxCalls \in Nat

VARIABLES
    pause,                     \* the PauseController
    processing, pauseFlag, stopped,   \* roop.globals.processing and .pause; stop_swap ran
    rpc, held, decoded, readerError,  \* the reader: where, the chunk in hand, frames decoded
    prefetch,                  \* prefetch_q
    workQ, wpc, at,            \* work_q; the workers: where, and on which frame of which block
    workerError,               \* _worker_exc
    phase, back,               \* the coordinator: where, and the loop it settles chunks for
    inflight,                  \* chunks being processed, oldest first
    hand, retry, bad,          \* _settle_oldest: chunk in hand, chunks to redo, past an interrupted one
    carry, chunkStart, chunkNo, requeued,
    consumerDone, writerStop,  \* events for the reader and the writer
    raised,                    \* the coordinator left on a worker's exception
    writeQ, xpc, load, written, writerError,   \* _write_q and the writer
    encoded, sealed,           \* frames the encoder got; how many the last flush covers
    call, calls                \* the API handler in progress, and how many there were

flagVars   == <<processing, pauseFlag, stopped>>
readerVars == <<rpc, held, decoded, readerError>>
workerVars == <<wpc, at, workerError>>
settleVars == <<hand, retry, bad>>
gridVars   == <<carry, chunkStart, chunkNo, requeued>>
endVars    == <<consumerDone, writerStop, raised>>
coordVars  == <<phase, back, settleVars, gridVars, endVars>>
queueVars  == <<prefetch, workQ, inflight, writeQ>>
writerVars == <<xpc, load, written, writerError, encoded, sealed>>
callVars   == <<call, calls>>
\* What the coordinator leaves alone until it joins the pool.
outsideVars == <<flagVars, readerVars, workerVars, writerVars, callVars>>
vars == <<pause, flagVars, queueVars, readerVars, workerVars, coordVars, writerVars, callVars>>

EndOfStream == <<-1>>                          \* the None of prefetch_q
Quit    == [no |-> -1, first |-> 0, last |-> 0]      \* the None of work_q
Nowhere == [no |-> -1, ci |-> 0, main |-> 0, end |-> 0]
NoFrames == [g \in {} |-> 0]
EndOfWrites == [g \in {-1} |-> -1]             \* the None of _write_q
NoChunk == [no |-> -1, start |-> 0, chunk |-> <<>>, carry |-> <<>>, got |-> {},
            left |-> 0, interrupted |-> FALSE]

Held == pause.requested /\ processing
Least(S) == CHOOSE x \in S : \A y \in S : x <= y
Smaller(x, y) == IF x <= y THEN x ELSE y
LastOf(s, n) == SubSeq(s, IF Len(s) > n THEN Len(s) - n + 1 ELSE 1, Len(s))

(***************************************************************************)
(* A chunk in flight (_StabChunk).  Positions in `combined` count from 0;  *)
(* a frame's index is its position plus base_global.                       *)
(***************************************************************************)
Combined(c)   == c.carry \o c.chunk
BaseGlobal(c) == c.start - Len(c.carry)
IndexAt(c, ci) == BaseGlobal(c) + ci
FrameAt(c, ci) == Combined(c)[ci + 1]
Done(c)       == c.left = 0
Results(c)    == [g \in c.got |-> FrameAt(c, g - BaseGlobal(c))]
Interrupted(c) == [c EXCEPT !.interrupted = TRUE]
Finished(c)   == [c EXCEPT !.left = @ - 1]
NotTrimmed(c) == c.got
Contiguous(c) == {g \in c.got : \A h \in c.start .. g : h \in c.got}

ChunkOf(no) == CHOOSE i \in DOMAIN inflight : inflight[i].no = no
Now(w)      == inflight[ChunkOf(at[w].no)]

Init ==
    /\ \E asked \in BOOLEAN :
           /\ pause = [requested |-> asked, acked |-> asked, active |-> 0, pending |-> 0]
           /\ pauseFlag = asked
    /\ processing = TRUE /\ stopped = FALSE
    /\ rpc = "read" /\ held = <<>> /\ decoded = 0 /\ readerError = FALSE
    /\ prefetch = <<>> /\ workQ = <<>>
    /\ wpc = [w \in Workers |-> "idle"] /\ workerError = FALSE
    /\ at = [w \in Workers |-> Nowhere]
    /\ phase = "top" /\ back = "top" /\ inflight = <<>>
    /\ hand = NoChunk /\ retry = <<>> /\ bad = FALSE
    /\ carry = <<>> /\ chunkStart = 0 /\ chunkNo = 0 /\ requeued = FALSE
    /\ consumerDone = FALSE /\ writerStop = FALSE /\ raised = FALSE
    /\ writeQ = <<>> /\ xpc = "write" /\ load = NoFrames
    /\ written = {} /\ writerError = FALSE /\ encoded = <<>> /\ sealed = 0
    /\ call = "none" /\ calls = 0

(***************************************************************************)
(* The reader: _reader, _read_loop, _send_sentinel.                        *)
(***************************************************************************)
Decode ==
    /\ rpc = "read" /\ (~pauseFlag \/ ~processing)
    /\ LET n == Smaller(Chunk, TotalFrames - decoded) IN
       \/ /\ ~processing \/ n = 0
          /\ rpc' = "sentinel" /\ UNCHANGED <<held, decoded, readerError, processing>>
       \/ /\ processing /\ n > 0
          /\ held' = [i \in 1 .. n |-> decoded + i - 1] /\ decoded' = decoded + n
          /\ rpc' = "put" /\ UNCHANGED <<readerError, processing>>
       \/ /\ processing /\ n > 0 /\ "decoder" \in Breaks
          /\ readerError' = TRUE /\ processing' = FALSE
          /\ rpc' = "sentinel" /\ UNCHANGED <<held, decoded>>
    /\ UNCHANGED <<pause, pauseFlag, stopped, queueVars, workerVars, coordVars, writerVars, callVars>>

PutChunk ==
    /\ rpc = "put"
    /\ \/ Len(prefetch) < QueueCap /\ prefetch' = Append(prefetch, held)
       \/ Len(prefetch) >= QueueCap /\ ~processing /\ UNCHANGED prefetch
    /\ rpc' = "read" /\ held' = <<>>
    /\ UNCHANGED <<pause, flagVars, decoded, readerError, workQ, workerVars, coordVars, inflight, writeQ, writerVars, callVars>>

SendSentinel ==
    /\ rpc = "sentinel"
    /\ \/ consumerDone /\ rpc' = "done" /\ UNCHANGED prefetch
       \/ Len(prefetch) < QueueCap /\ prefetch' = Append(prefetch, EndOfStream) /\ rpc' = "done"
       \/ Len(prefetch) >= QueueCap /\ ~processing /\ prefetch' = <<>> /\ UNCHANGED rpc
    /\ UNCHANGED <<pause, flagVars, held, decoded, readerError, workQ, workerVars, coordVars, inflight, writeQ, writerVars, callVars>>

Reader == Decode \/ PutChunk \/ SendSentinel

(***************************************************************************)
(* A worker: _stab_worker around _process_block around _process_stab_frame.*)
(* The reservation is taken inside the pause scope, except for the frame   *)
(* that replaces a failed one, which is reserved after the scope is left.  *)
(***************************************************************************)
Mark(no, F(_)) ==
    inflight' = [i \in DOMAIN inflight |-> IF inflight[i].no = no THEN F(inflight[i]) ELSE inflight[i]]

TakeBlock(w) ==
    /\ wpc[w] = "idle" /\ workQ # <<>>
    /\ workQ' = Tail(workQ)
    /\ LET b == Head(workQ) IN
       IF b = Quit THEN wpc' = [wpc EXCEPT ![w] = "done"] /\ UNCHANGED <<at, inflight, workerError, processing>>
       ELSE LET c     == inflight[ChunkOf(b.no)]
                start == Len(c.carry) + b.first IN
            \/ /\ ~processing
               /\ Mark(b.no, Finished) /\ UNCHANGED <<wpc, at, workerError, processing>>
            \/ /\ processing
               /\ at' = [at EXCEPT ![w] = [no |-> b.no, main |-> start, end |-> Len(c.carry) + b.last,
                                           ci |-> IF start > WarmUp THEN start - WarmUp ELSE 0]]
               /\ wpc' = [wpc EXCEPT ![w] = "frame"] /\ UNCHANGED <<inflight, workerError, processing>>
            \/ /\ processing /\ "block" \in Breaks
               /\ workerError' = TRUE /\ processing' = FALSE
               /\ Mark(b.no, Finished) /\ UNCHANGED <<wpc, at>>
    /\ UNCHANGED <<pause, pauseFlag, stopped, readerVars, prefetch, coordVars, writeQ, writerVars, callVars>>

HandBackOnStop(w) ==
    /\ wpc[w] = "frame" /\ ~processing /\ Mark(at[w].no, Finished)
    /\ wpc' = [wpc EXCEPT ![w] = "idle"] /\ at' = [at EXCEPT ![w] = Nowhere]
    /\ UNCHANGED <<pause, flagVars, readerVars, prefetch, workQ, workerError, coordVars, writeQ, writerVars, callVars>>

\* The stop is seen before the scope (the block just ends) or inside it (`allowed` is False).
HandBack(w) ==
    /\ wpc[w] = "frame"
    /\ \/ ~processing /\ Mark(at[w].no, Finished)
       \/ (~processing \/ pause.requested)
          /\ Mark(at[w].no, LAMBDA c : Interrupted(Finished(c)))
    /\ wpc' = [wpc EXCEPT ![w] = "idle"] /\ at' = [at EXCEPT ![w] = Nowhere]
    /\ UNCHANGED <<pause, flagVars, readerVars, prefetch, workQ, workerError, coordVars, writeQ, writerVars, callVars>>

Enter(w) ==
    /\ wpc[w] = "frame" /\ processing /\ ~pause.requested
    /\ pause' = Entered(pause)
    /\ wpc' = [wpc EXCEPT ![w] = "run"]
    /\ UNCHANGED <<flagVars, readerVars, queueVars, at, workerError, coordVars, writerVars, callVars>>

WarmingUp(w) == at[w].ci < at[w].main

\* The result of the frame at hand is kept; the block goes on or is finished.
Keep(w) ==
    LET gi   == IndexAt(Now(w), at[w].ci)
        last == at[w].ci + 1 = at[w].end
        Add(c) == [c EXCEPT !.got = IF WarmingUp(w) THEN @ ELSE @ \cup {gi},
                            !.left = IF last THEN @ - 1 ELSE @]
    IN  /\ Mark(at[w].no, Add)
        /\ at' = IF last THEN [at EXCEPT ![w] = Nowhere] ELSE [at EXCEPT ![w].ci = @ + 1]
        /\ wpc' = [wpc EXCEPT ![w] = IF last THEN "idle" ELSE "frame"]

Run(w) ==
    /\ wpc[w] = "run"
    /\ \/ /\ pause' = IF WarmingUp(w) THEN Left(pause) ELSE Left(Reserved(pause))
          /\ Keep(w)
       \/ /\ ~WarmingUp(w) /\ FrameAt(Now(w), at[w].ci) \in Faulty
          /\ pause' = Left(pause)
          /\ wpc' = [wpc EXCEPT ![w] = "fallback"] /\ UNCHANGED <<at, inflight>>
    /\ UNCHANGED <<flagVars, readerVars, prefetch, workQ, workerError, coordVars, writeQ, writerVars, callVars>>

Fallback(w) ==
    /\ wpc[w] = "fallback"
    /\ pause' = Reserved(pause)
    /\ Keep(w)
    /\ UNCHANGED <<flagVars, readerVars, prefetch, workQ, workerError, coordVars, writeQ, writerVars, callVars>>

Worker(w) == TakeBlock(w) \/ HandBack(w) \/ Enter(w) \/ Run(w) \/ Fallback(w)

(***************************************************************************)
(* The coordinator takes chunks and lays the fixed grid of blocks.         *)
(***************************************************************************)
Blocks(chunk) == LET n == (Len(chunk) + Block - 1) \div Block IN
    [i \in 1 .. n |-> [no |-> chunkNo, first |-> (i - 1) * Block, last |-> Smaller(Len(chunk), i * Block)]]

Dispatch ==
    /\ phase = "top" /\ Len(inflight) < Depth /\ prefetch # <<>>
    /\ Head(prefetch) # EndOfStream /\ processing
    /\ LET chunk == Head(prefetch) IN
       /\ inflight' = Append(inflight, [no |-> chunkNo, start |-> chunkStart, chunk |-> chunk, carry |-> carry,
                                        got |-> {}, left |-> Len(Blocks(chunk)), interrupted |-> FALSE])
       /\ workQ' = workQ \o Blocks(chunk)
       /\ carry' = LastOf(carry \o chunk, WarmUp)
       /\ chunkStart' = chunkStart + Len(chunk)
    /\ prefetch' = Tail(prefetch) /\ chunkNo' = chunkNo + 1
    /\ UNCHANGED <<pause, outsideVars, phase, back, settleVars, requeued, endVars, writeQ>>

TakeEnd ==
    /\ phase = "top" /\ Len(inflight) < Depth /\ prefetch # <<>>
    /\ prefetch' = Tail(prefetch)
    /\ \/ /\ Head(prefetch) = EndOfStream
          /\ requeued' = FALSE /\ phase' = "drain" /\ back' = "drain"
       \/ /\ Head(prefetch) # EndOfStream /\ ~processing
          /\ phase' = "leave" /\ UNCHANGED <<requeued, back>>
    /\ UNCHANGED <<pause, outsideVars, workQ, settleVars, carry, chunkStart, chunkNo, endVars, inflight, writeQ>>

NothingLeft ==
    /\ phase = "top" /\ prefetch = <<>> /\ inflight = <<>>
    /\ ~processing \/ rpc = "done"
    /\ phase' = "leave"
    /\ UNCHANGED <<pause, outsideVars, queueVars, back, settleVars, gridVars, endVars>>

\* After the sentinel: a pause may have sent chunks back, and they come before the end.
Drained ==
    /\ phase = "drain" /\ inflight = <<>>
    /\ back' = "top"
    /\ IF requeued THEN prefetch' = Append(prefetch, EndOfStream) /\ phase' = "top"
                   ELSE phase' = "leave" /\ UNCHANGED prefetch
    /\ UNCHANGED <<pause, outsideVars, workQ, settleVars, gridVars, endVars, inflight, writeQ>>

(***************************************************************************)
(* _settle_oldest.                                                         *)
(***************************************************************************)
Settle ==
    /\ phase \in {"top", "drain"} /\ inflight # <<>> /\ Done(Head(inflight))
    /\ IF workerError
       THEN raised' = TRUE /\ phase' = "leave" /\ UNCHANGED <<settleVars, inflight>>
       ELSE /\ UNCHANGED raised
            /\ IF pause.requested \/ Head(inflight).interrupted
               THEN phase' = "retire" /\ retry' = <<>> /\ bad' = FALSE /\ UNCHANGED <<hand, inflight>>
               ELSE phase' = "enqueue" /\ hand' = Head(inflight) /\ inflight' = Tail(inflight)
                    /\ UNCHANGED <<retry, bad>>
    /\ UNCHANGED <<pause, outsideVars, prefetch, workQ, back, gridVars, consumerDone, writerStop, writeQ>>

\* _enqueue gives up only when nobody will make room.
Enqueued ==
    /\ Len(writeQ) < QueueCap
    /\ writeQ' = Append(writeQ, Results(hand)) /\ UNCHANGED pause
NotEnqueuedUnreleased ==
    /\ Len(writeQ) >= QueueCap /\ (writerError \/ ~processing)
    /\ UNCHANGED <<pause, writeQ>>
NotEnqueuedOnStop ==
    /\ Len(writeQ) >= QueueCap /\ ~processing
    /\ pause' = ReleasedMany(pause, Cardinality(hand.got)) /\ UNCHANGED writeQ
NotEnqueued ==
    /\ Len(writeQ) >= QueueCap /\ (writerError \/ ~processing)
    /\ pause' = ReleasedMany(pause, Cardinality(hand.got)) /\ UNCHANGED writeQ

Enqueue ==
    /\ phase = "enqueue"
    /\ \/ Enqueued /\ phase' = CASE writerError -> "leave"
                                 [] ~writerError /\ inflight = <<>> -> "boundary"
                                 [] OTHER -> back
       \/ NotEnqueued /\ phase' = "leave"
    /\ hand' = NoChunk
    /\ UNCHANGED <<outsideVars, prefetch, workQ, back, retry, bad, gridVars, endVars, inflight>>

\* The pause branch: chunks up to the first interrupted one are written, that one as far as
\* it is contiguous; the ones after it are released and redone whole.
Retire ==
    /\ phase = "retire" /\ inflight # <<>> /\ Done(Head(inflight))
    /\ LET c == Head(inflight) IN
       IF workerError THEN raised' = TRUE /\ phase' = "leave" /\ UNCHANGED <<hand, retry, inflight, pause>>
       ELSE /\ UNCHANGED raised
            /\ inflight' = Tail(inflight)
            /\ \/ /\ bad
                  /\ pause' = ReleasedMany(pause, Cardinality(c.got))
                  /\ retry' = Append(retry, c) /\ UNCHANGED <<hand, phase>>
               \/ /\ ~bad
                  /\ LET kept == IF c.interrupted /\ processing THEN Contiguous(c) ELSE c.got IN
                     /\ pause' = ReleasedMany(pause, Cardinality(c.got \ kept))
                     /\ hand' = [c EXCEPT !.got = kept]
                  /\ phase' = "part" /\ UNCHANGED retry
    /\ UNCHANGED <<outsideVars, prefetch, workQ, back, bad, gridVars, consumerDone, writerStop, writeQ>>

EnqueuePart ==
    /\ phase = "part"
    /\ \/ /\ Enqueued /\ phase' = "retire"
          /\ IF hand.interrupted /\ processing THEN bad' = TRUE /\ retry' = Append(retry, hand)
                                               ELSE UNCHANGED <<bad, retry>>
       \/ NotEnqueued /\ phase' = "leave" /\ UNCHANGED <<bad, retry>>
    /\ hand' = NoChunk
    /\ UNCHANGED <<outsideVars, prefetch, workQ, back, gridVars, endVars, inflight>>

AllRetired ==
    /\ phase = "retire" /\ inflight = <<>>
    /\ phase' = IF writerError THEN "leave" ELSE "boundary"
    /\ UNCHANGED <<pause, outsideVars, queueVars, back, settleVars, gridVars, endVars>>

\* _pause_boundary: hold until resumed or stopped, look at the acknowledgement, hold again.
Boundary ==
    /\ phase = "boundary" /\ ~Held
    /\ phase' = "look"
    /\ UNCHANGED <<pause, outsideVars, queueVars, back, settleVars, gridVars, endVars>>

ChunksOf(cs) == [i \in DOMAIN cs |-> cs[i].chunk]

RequeueKeepingCarry ==
    /\ phase = "look" /\ (pause.acked => ~Held)
    /\ IF retry # <<>> /\ processing
       THEN /\ UNCHANGED carry /\ chunkStart' = retry[1].start
            /\ prefetch' = ChunksOf(retry) \o prefetch /\ requeued' = TRUE
       ELSE UNCHANGED <<carry, chunkStart, prefetch, requeued>>
    /\ phase' = back /\ retry' = <<>> /\ bad' = FALSE
    /\ UNCHANGED <<pause, outsideVars, workQ, back, hand, chunkNo, endVars, inflight, writeQ>>

Requeue ==
    /\ phase = "look" /\ (pause.acked => ~Held)
    /\ IF retry # <<>> /\ processing
       THEN /\ carry' = retry[1].carry /\ chunkStart' = retry[1].start
            /\ prefetch' = ChunksOf(retry) \o prefetch /\ requeued' = TRUE
       ELSE UNCHANGED <<carry, chunkStart, prefetch, requeued>>
    /\ phase' = back /\ retry' = <<>> /\ bad' = FALSE
    /\ UNCHANGED <<pause, outsideVars, workQ, back, hand, chunkNo, endVars, inflight, writeQ>>

(***************************************************************************)
(* The finally block: pool, writer, reader, in this order.                 *)
(***************************************************************************)
Leave ==
    /\ phase = "leave"
    /\ consumerDone' = TRUE
    /\ workQ' = [w \in 1 .. Width |-> Quit]
    /\ phase' = "pool"
    /\ UNCHANGED <<pause, outsideVars, prefetch, back, settleVars, gridVars, writerStop, raised, inflight, writeQ>>

SumOf(s) == LET Sum[i \in 0 .. Len(s)] == IF i = 0 THEN 0 ELSE Sum[i - 1] + s[i] IN Sum[Len(s)]
Count(items) == SumOf([i \in DOMAIN items |-> Cardinality(DOMAIN items[i] \ {-1})])
GotIn(cs)    == SumOf([i \in DOMAIN cs |-> Cardinality(cs[i].got)])

JoinPool ==
    /\ phase = "pool" /\ \A w \in Workers : wpc[w] = "done"
    /\ processing' = (processing /\ ~writerError)
    /\ LET drop == ~processing' IN
       /\ pause' = ReleasedMany(pause, GotIn(inflight) + IF drop THEN Count(writeQ) ELSE 0)
       /\ writeQ' = IF drop THEN <<>> ELSE writeQ
    /\ inflight' = <<>>
    /\ phase' = "stopWriter"
    /\ UNCHANGED <<pauseFlag, stopped, readerVars, prefetch, workQ, workerVars, back, settleVars, gridVars, endVars, writerVars, callVars>>

WriterGone == xpc \in {"done", "dead"}

StopWriter ==
    /\ phase = "stopWriter"
    /\ \/ ~WriterGone /\ Len(writeQ) < QueueCap /\ writeQ' = Append(writeQ, EndOfWrites) /\ UNCHANGED writerStop
       \/ ~WriterGone /\ Len(writeQ) >= QueueCap /\ writerStop' = TRUE /\ UNCHANGED writeQ
       \/ WriterGone /\ writerStop' = TRUE /\ UNCHANGED writeQ
    /\ phase' = "joinWriter"
    /\ UNCHANGED <<pause, outsideVars, prefetch, workQ, back, settleVars, gridVars, consumerDone, raised, inflight>>

JoinWriter ==
    /\ phase = "joinWriter" /\ WriterGone
    /\ prefetch' = <<>>
    /\ phase' = "joinReader"
    /\ UNCHANGED <<pause, outsideVars, workQ, back, settleVars, gridVars, endVars, inflight, writeQ>>

JoinReader ==
    /\ phase = "joinReader" /\ rpc = "done"
    /\ phase' = "closed"
    /\ UNCHANGED <<pause, outsideVars, queueVars, back, settleVars, gridVars, endVars>>

Coordinator ==
    \/ Dispatch \/ TakeEnd \/ NothingLeft \/ Drained
    \/ Settle \/ Enqueue \/ Retire \/ EnqueuePart \/ AllRetired \/ Boundary \/ Requeue
    \/ Leave \/ JoinPool \/ StopWriter \/ JoinWriter \/ JoinReader

(***************************************************************************)
(* The writer.  Frames leave the item in index order; whatever happens to  *)
(* one, its reservation is released afterwards.                            *)
(***************************************************************************)
TakeItem ==
    /\ xpc = "write" /\ load = NoFrames
    /\ \/ /\ writeQ # <<>> /\ writeQ' = Tail(writeQ)
          /\ IF Head(writeQ) = EndOfWrites THEN xpc' = "done" /\ UNCHANGED load
                                           ELSE load' = Head(writeQ) /\ UNCHANGED xpc
       \/ writeQ = <<>> /\ writerStop /\ xpc' = "done" /\ UNCHANGED <<writeQ, load>>
    /\ UNCHANGED <<pause, flagVars, readerVars, prefetch, workQ, workerVars, coordVars, inflight, written, writerError, encoded, sealed, callVars>>

Without(f, g) == [h \in DOMAIN f \ {g} |-> f[h]]

WriteFrame ==
    /\ xpc = "write" /\ load # NoFrames
    /\ LET gi == Least(DOMAIN load) IN
       \/ /\ gi \in written \/ ~processing
          /\ pause' = Released(pause) /\ load' = Without(load, gi)
          /\ UNCHANGED <<xpc, written, writerError, encoded>>
       \/ /\ gi \notin written /\ processing
          /\ encoded' = Append(encoded, load[gi]) /\ written' = written \cup {gi}
          /\ load' = Without(load, gi) /\ xpc' = "safe"
          /\ UNCHANGED <<pause, writerError>>
       \/ /\ gi \notin written /\ processing /\ "encoder" \in Breaks
          /\ pause' = ReleasedMany(pause, Cardinality(DOMAIN load))
          /\ load' = NoFrames /\ writerError' = TRUE /\ xpc' = "dead"
          /\ UNCHANGED <<written, encoded>>
    /\ UNCHANGED <<flagVars, readerVars, queueVars, workerVars, coordVars, sealed, callVars>>

\* The frame's own reservation is still counted here, so a pause that waits for it has not
\* been acknowledged yet.
AtSafePoint ==
    /\ xpc = "safe"
    /\ IF pause.acked THEN sealed' = Len(encoded) /\ xpc' = "parked" /\ UNCHANGED pause
                      ELSE pause' = Released(pause) /\ xpc' = "write" /\ UNCHANGED sealed
    /\ UNCHANGED <<flagVars, readerVars, queueVars, workerVars, coordVars, load, written, writerError, encoded, callVars>>

Unpark ==
    /\ xpc = "parked" /\ ~Held
    /\ pause' = Released(pause) /\ xpc' = "write"
    /\ UNCHANGED <<flagVars, readerVars, queueVars, workerVars, coordVars, load, written, writerError, encoded, sealed, callVars>>

Writer == TakeItem \/ WriteFrame \/ AtSafePoint \/ Unpark

(***************************************************************************)
(* pause_swap, resume_swap and stop_swap, two writes each.                 *)
(***************************************************************************)
Live == phase # "closed"

CallBegins ==
    /\ call = "none" /\ calls < MaxCalls /\ Live /\ ~stopped
    /\ \E c \in {"pausing", "resuming", "stopping"} :
           /\ call' = c
           /\ pause' = IF c = "pausing" THEN Asked(pause) ELSE Resumed(pause)
    /\ calls' = calls + 1
    /\ UNCHANGED <<flagVars, readerVars, queueVars, workerVars, coordVars, writerVars>>

CallEnds ==
    /\ call # "none"
    /\ pauseFlag' = (call = "pausing")
    /\ processing' = (processing /\ call # "stopping")
    /\ stopped' = (stopped \/ call = "stopping")
    /\ call' = "none"
    /\ UNCHANGED <<pause, readerVars, queueVars, workerVars, coordVars, writerVars, calls>>

Next == Reader \/ (\E w \in Workers : Worker(w)) \/ Coordinator \/ Writer \/ CallBegins \/ CallEnds

\* Every thread runs and every handler returns; the user need not call anything.
Fairness ==
    /\ WF_vars(Reader) /\ WF_vars(Coordinator) /\ WF_vars(Writer) /\ WF_vars(CallEnds)
    /\ \A w \in Workers : WF_vars(Worker(w))

Spec == Init /\ [][Next]_vars /\ Fairness
(***************************************************************************)
(* Correctness.                                                            *)
(***************************************************************************)
WorkerType == /\ wpc \in [Workers -> {"idle", "frame", "run", "fallback", "done"}]
              /\ at \in [Workers -> [no : Int, ci : Nat, main : Nat, end : Nat]]
              /\ \A w \in Workers : wpc[w] \in {"frame", "run", "fallback"} =>
                     \E i \in DOMAIN inflight : inflight[i].no = at[w].no
QueueType == /\ \A i \in DOMAIN prefetch : Len(prefetch[i]) \in 1 .. Chunk
             /\ Len(prefetch) <= QueueCap + Depth + 1 /\ Len(writeQ) <= QueueCap /\ Len(inflight) <= Depth
             /\ \A i \in DOMAIN inflight : inflight[i].left \in 0 .. Len(inflight[i].chunk)

\* Queues keep their capacities (a retry may put Depth chunks and the sentinel on top), a
\* worker's block belongs to a chunk in flight, and no chunk is finished more often than it
\* has blocks.
TypeOK ==
    /\ pause \in [requested : BOOLEAN, acked : BOOLEAN, active : 0 .. Width, pending : Nat]
    /\ rpc \in {"read", "put", "sentinel", "done"} /\ decoded \in 0 .. TotalFrames
    /\ WorkerType /\ QueueType
    /\ phase \in {"top", "drain", "enqueue", "retire", "part", "boundary", "look", "leave", "pool",
                  "stopWriter", "joinWriter", "joinReader", "closed"}
    /\ xpc \in {"write", "safe", "parked", "done", "dead"}
    /\ call \in {"none", "pausing", "resuming", "stopping"}

Failed == raised \/ readerError \/ writerError

\* The encoder gets every frame once and in the clip's order, also when pauses cut chunks in the
\* middle of their blocks and the rest is computed again. A render that ends without a stop and
\* without an error to raise has encoded the whole clip, wherever its end mark was at the time.
EncodesClip ==
    /\ \A i \in DOMAIN encoded : encoded[i] = i - 1
    /\ phase = "closed" /\ ~Failed /\ processing => Len(encoded) = TotalFrames

\* What the render leaves behind, as RenderedClip sees it.
Outcome == IF phase # "closed" THEN "running"
           ELSE IF ~Failed /\ processing THEN "complete" ELSE "partial"

Clip == INSTANCE RenderedClip WITH
            Skippable <- {}, video <- encoded, refused <- {}, outcome <- Outcome

\* Whatever cuts, requeues, fails or stops, the chunk path renders a clip: the encoder gets each
\* frame once and in order, and a render that ends undisturbed has given it the whole clip.
ImplementsClip == Clip!Spec

\* A block is primed with exactly the raw frames before it, and a result is stored under the
\* index of the frame it was computed from, also in a chunk that is processed again.
Aligned == \A i \in DOMAIN inflight : LET c == inflight[i] IN
    /\ \A ci \in 0 .. Len(Combined(c)) - 1 : FrameAt(c, ci) = IndexAt(c, ci)
    /\ Len(c.carry) = Smaller(WarmUp, c.start)

\* The controller counts one reservation for every result that is still somewhere between a
\* worker and the encoder, also while a run is stopped, torn down or has lost its writer.
ReservationsExact ==
    pause.pending = GotIn(inflight) + Cardinality(hand.got) + Count(writeQ) + Cardinality(DOMAIN load)
                    + (IF xpc \in {"safe", "parked"} THEN 1 ELSE 0)

Undelivered == (UNION {DOMAIN Results(inflight[i]) : i \in DOMAIN inflight}) \cup hand.got
               \cup (UNION {DOMAIN writeQ[i] \ {-1} : i \in DOMAIN writeQ}) \cup DOMAIN load

\* While a pause is acknowledged no model runs, and the only results that are not with the
\* encoder yet are originals that stand in for a failed frame.
PausedIsDrained ==
    pause.acked => /\ \A w \in Workers : wpc[w] # "run"
                   /\ Undelivered \subseteq Faulty

\* The state is sound: every variable has its type, every result is accounted for at the pause
\* controller, and an acknowledged pause means what JOB_CONTRACT.md says of it, originals aside.
OutputsAccounted == TypeOK /\ ReservationsExact /\ PausedIsDrained

\* A pause is acknowledged, unless the user resumes, the run stops, or the writer has died.
PauseAnswered == pause.requested ~> (pause.acked \/ ~pause.requested \/ ~processing \/ writerError \/ ~Live)

\* A run that is stopped, or not left paused, is torn down, wherever each of its threads was.
RenderEnds == <>(~Live \/ [](pause.requested /\ processing))
=============================================================================
