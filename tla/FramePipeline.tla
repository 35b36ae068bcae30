---------------------------- MODULE FramePipeline ----------------------------
(***************************************************************************)
(* The threaded render of ProcessMgr.run_batch_inmem: one reader, the      *)
(* round-robin workers of process_videoframes, one writer, the thread that *)
(* joins them, and the two coordinators they share: PauseController        *)
(* (roop/procmgr_runtime.py) and RecoveryGate (roop/gpu_recovery.py).      *)
(*                                                                         *)
(* One action is one section under the condition variable of a coordinator *)
(* or of a queue, or a stretch between two of them that reads one shared   *)
(* flag.  A timed wait that loops is the disabled action; a deadline that  *)
(* gives up is a disjunct of its own.  A blocked thread of the code calls  *)
(* _acknowledge_locked() again on every wake-up; that never changes the    *)
(* state, because every section that can drain the pipeline acknowledged.  *)
(***************************************************************************)
EXTENDS Integers, Sequences, FiniteSets, PauseController

CONSTANTS
    NumThreads,      \* workers, named 0 .. NumThreads - 1 as in the code
    TotalFrames,     \* frames the decoder yields; it is not modelled failing
    QueueDepth,      \* qdepth, of every frames_queue and processed_queue
    Faulty,          \* the frames whose model run may raise or return None
    EncoderFails,    \* whether write_frame may raise
    LongPause,       \* whether a pause may outlast the deadline of a sentinel (300 s)
    MaxCalls         \* bound on the user's pause, resume and stop calls

Workers == 0 .. NumThreads - 1
Frames  == 0 .. TotalFrames - 1

ASSUME ConstantsAssumption ==
    /\ NumThreads \in Nat \ {0} /\ TotalFrames \in Nat \ {0} /\ QueueDepth \in Nat \ {0}
    /\ Faulty \subseteq Frames
    /\ EncoderFails \in BOOLEAN /\ LongPause \in BOOLEAN
    /\ MaxCalls \in Nat

EndOfStream == -1                  \* the None a queue ends with
Kinds   == {"swapped", "original", "refused"}
Output  == [frame : Frames, kind : Kinds]
EndMark == [frame |-> EndOfStream, kind |-> "end"]

VARIABLES
    pause,       \* PauseController: _requested, _paused, _active, _pending_output
    recovery,    \* RecoveryGate: _active, _waiting, _exclusive
    processing,  \* roop.globals.processing
    pauseFlag,   \* roop.globals.pause, the legacy flag the reader still polls
    stopped,     \* stop_swap was called
    frameQ, outQ,          \* frames_queue and processed_queue, one of each per worker
    rpc, rnum, rsent,      \* the reader: where it is, frames read, sentinels posted
    wpc, job, out, again,  \* the workers: where, on which frame, what came out, retrying
    xpc, next, producers, item, sweep, writerError,   \* the writer
    encoded,     \* the frames handed to the encoder, in order
    sealed,      \* how many of them the last flushed segment covers
    main,        \* the thread that joins the others and closes the writer
    call, calls  \* the API handler in progress, and how many there were

gateVars   == <<pause, recovery>>
flagVars   == <<processing, pauseFlag, stopped>>
readerVars == <<rpc, rnum, rsent>>
workerVars == <<wpc, job, out, again>>
writerVars == <<xpc, next, producers, item, sweep, writerError, encoded, sealed>>
callVars   == <<call, calls>>
vars == <<gateVars, flagVars, frameQ, outQ, readerVars, workerVars, writerVars, main, callVars>>

Held == pause.requested /\ processing      \* what a blocked thread waits on

Room(q) == Len(q) < QueueDepth

(***************************************************************************)
(* A request made while the run is being prepared survives start(), and    *)
(* was acknowledged at once because nothing was active yet.                *)
(***************************************************************************)
Init ==
    /\ \E held \in BOOLEAN :
           /\ pause = [requested |-> held, acked |-> held, active |-> 0, pending |-> 0]
           /\ pauseFlag = held
    /\ recovery = [shared |-> 0, waiting |-> 0, exclusive |-> FALSE]
    /\ processing = TRUE /\ stopped = FALSE
    /\ frameQ = [w \in Workers |-> <<>>] /\ outQ = [w \in Workers |-> <<>>]
    /\ rpc = "poll" /\ rnum = 0 /\ rsent = 0
    /\ wpc = [w \in Workers |-> "get"] /\ job = [w \in Workers |-> 0]
    /\ out = [w \in Workers |-> "none"] /\ again = {}
    /\ xpc = "get" /\ next = 0 /\ producers = NumThreads
    /\ item = EndMark /\ sweep = 0 /\ writerError = FALSE
    /\ encoded = <<>> /\ sealed = 0
    /\ main = "running"
    /\ call = "none" /\ calls = 0

(***************************************************************************)
(* The reader.  wait_while_paused turns the legacy flag into a request     *)
(* before it holds; the flag and the controller are read apart.            *)
(***************************************************************************)
ReaderPoll ==
    /\ rpc = "poll"
    /\ rpc' = CASE ~processing -> "end"
                [] processing /\ pauseFlag /\ ~pause.requested -> "rearm"
                [] OTHER -> "hold"
    /\ UNCHANGED <<gateVars, flagVars, frameQ, outQ, rnum, rsent, workerVars, writerVars, main, callVars>>

ReaderRearm ==
    /\ rpc = "rearm"
    /\ pause' = Asked(pause)
    /\ rpc' = "hold"
    /\ UNCHANGED <<recovery, flagVars, frameQ, outQ, rnum, rsent, workerVars, writerVars, main, callVars>>

ReaderHold ==
    /\ rpc = "hold" /\ ~Held
    /\ rpc' = IF processing THEN "put" ELSE "end"
    /\ UNCHANGED <<gateVars, flagVars, frameQ, outQ, rnum, rsent, workerVars, writerVars, main, callVars>>

ReaderPut ==
    /\ rpc = "put"
    /\ LET w == rnum % NumThreads IN
       \/ Room(frameQ[w]) /\ frameQ' = [frameQ EXCEPT ![w] = Append(@, rnum)]
       \/ ~Room(frameQ[w]) /\ ~processing /\ UNCHANGED frameQ
    /\ rnum' = rnum + 1
    /\ rpc' = IF rnum' = TotalFrames THEN "end" ELSE "poll"
    /\ UNCHANGED <<gateVars, flagVars, outQ, rsent, workerVars, writerVars, main, callVars>>

\* _post_sentinels.  Its deadline is 300 s for a worker that takes nothing: only a pause
\* stalls a worker that long, and giving up clears `processing` for the whole run.
PostSentinel ==
    /\ rpc = "end" /\ rsent < NumThreads
    /\ \/ /\ Room(frameQ[rsent])
          /\ frameQ' = [frameQ EXCEPT ![rsent] = Append(@, EndOfStream)]
          /\ UNCHANGED processing
       \/ /\ ~Room(frameQ[rsent]) /\ ~processing
          /\ UNCHANGED <<frameQ, processing>>
       \/ /\ ~Room(frameQ[rsent]) /\ Held /\ LongPause
          /\ processing' = FALSE
          /\ UNCHANGED frameQ
    /\ rsent' = rsent + 1
    /\ rpc' = IF rsent' = NumThreads THEN "done" ELSE "end"
    /\ UNCHANGED <<gateVars, pauseFlag, stopped, outQ, rnum, workerVars, writerVars, main, callVars>>

Reader == ReaderPoll \/ ReaderRearm \/ ReaderHold \/ ReaderPut \/ PostSentinel

(***************************************************************************)
(* A worker: run_frame(process_frame) inside the recovery gate, the rerun  *)
(* alone after a memory error, the fallback to the original frame, and the *)
(* bounded put.                                                            *)
(***************************************************************************)
TakeNext(w) ==
    /\ wpc[w] = "get" /\ frameQ[w] # <<>>
    /\ frameQ' = [frameQ EXCEPT ![w] = Tail(@)]
    /\ IF Head(frameQ[w]) = EndOfStream
         THEN wpc' = [wpc EXCEPT ![w] = "retire"] /\ UNCHANGED job
         ELSE wpc' = [wpc EXCEPT ![w] = "gate"] /\ job' = [job EXCEPT ![w] = Head(frameQ[w])]
    /\ UNCHANGED <<gateVars, flagVars, outQ, readerVars, out, again, writerVars, main, callVars>>

Take(w) ==
    \/ TakeNext(w)
    \/ /\ wpc[w] = "get" /\ frameQ[w] = <<>> /\ ~processing
       /\ wpc' = [wpc EXCEPT ![w] = "retire"]
       /\ UNCHANGED <<gateVars, flagVars, frameQ, outQ, readerVars, job, out, again, writerVars, main, callVars>>

\* RecoveryGate.shared: a waiting recovery holds new frames back.
AdmitPastRecovery(w) ==
    /\ wpc[w] = "gate" /\ recovery.waiting = 0
    /\ recovery' = [recovery EXCEPT !.shared = @ + 1]
    /\ wpc' = [wpc EXCEPT ![w] = "begin"]
    /\ UNCHANGED <<pause, flagVars, frameQ, outQ, readerVars, job, out, again, writerVars, main, callVars>>

Admit(w) ==
    /\ wpc[w] = "gate" /\ ~recovery.exclusive /\ recovery.waiting = 0
    /\ recovery' = [recovery EXCEPT !.shared = @ + 1]
    /\ wpc' = [wpc EXCEPT ![w] = "begin"]
    /\ UNCHANGED <<pause, flagVars, frameQ, outQ, readerVars, job, out, again, writerVars, main, callVars>>

\* pause_aware: a refused frame is returned unchanged and reserves nothing.
Begin(w) ==
    /\ wpc[w] = "begin" /\ ~Held
    /\ IF processing
         THEN /\ pause' = Entered(pause)
              /\ wpc' = [wpc EXCEPT ![w] = "work"]
              /\ UNCHANGED out
         ELSE /\ out' = [out EXCEPT ![w] = "refused"]
              /\ wpc' = [wpc EXCEPT ![w] = "leave"]
              /\ UNCHANGED pause
    /\ UNCHANGED <<recovery, flagVars, frameQ, outQ, readerVars, job, again, writerVars, main, callVars>>

\* Only a first attempt is retried, and only after a memory error.
Failures(w) == IF w \in again THEN {"error", "none"} ELSE {"error", "none", "oom"}

Work(w) ==
    /\ wpc[w] = "work"
    /\ wpc' = [wpc EXCEPT ![w] = "end"]
    /\ \/ /\ out' = [out EXCEPT ![w] = "swapped"]
          /\ pause' = Reserved(pause)
       \/ /\ job[w] \in Faulty
          /\ \E f \in Failures(w) : out' = [out EXCEPT ![w] = f]
          /\ UNCHANGED pause
    /\ UNCHANGED <<recovery, flagVars, frameQ, outQ, readerVars, job, again, writerVars, main, callVars>>

End(w) ==
    /\ wpc[w] = "end"
    /\ pause' = Left(pause)
    /\ wpc' = [wpc EXCEPT ![w] = "leave"]
    /\ UNCHANGED <<recovery, flagVars, frameQ, outQ, readerVars, job, out, again, writerVars, main, callVars>>

LeaveKeepingGate(w) ==
    /\ wpc[w] = "leave"
    /\ recovery' = IF w \in again THEN recovery
                                  ELSE [recovery EXCEPT !.shared = @ - 1]
    /\ again' = again \ {w}
    /\ wpc' = [wpc EXCEPT ![w] = CASE out[w] = "oom" -> "drain"
                                   [] out[w] \in {"error", "none"} -> "fallback"
                                   [] OTHER -> "put"]
    /\ UNCHANGED <<pause, flagVars, frameQ, outQ, readerVars, job, out, writerVars, main, callVars>>

Leave(w) ==
    /\ wpc[w] = "leave"
    /\ recovery' = IF w \in again THEN [recovery EXCEPT !.exclusive = FALSE]
                                  ELSE [recovery EXCEPT !.shared = @ - 1]
    /\ again' = again \ {w}
    /\ wpc' = [wpc EXCEPT ![w] = CASE out[w] = "oom" -> "drain"
                                   [] out[w] \in {"error", "none"} -> "fallback"
                                   [] OTHER -> "put"]
    /\ UNCHANGED <<pause, flagVars, frameQ, outQ, readerVars, job, out, writerVars, main, callVars>>

Free == ~recovery.exclusive /\ recovery.shared = 0

\* RecoveryGate.exclusive on entry; a stopped render does not wait for the others.
Drain(w) ==
    /\ wpc[w] = "drain"
    /\ \/ /\ Free
          /\ recovery' = [recovery EXCEPT !.exclusive = TRUE]
          /\ again' = again \cup {w}
          /\ wpc' = [wpc EXCEPT ![w] = "begin"]
       \/ /\ ~Free /\ processing
          /\ recovery' = [recovery EXCEPT !.waiting = @ + 1]
          /\ wpc' = [wpc EXCEPT ![w] = "wait"]
          /\ UNCHANGED again
       \/ /\ ~Free /\ ~processing
          /\ wpc' = [wpc EXCEPT ![w] = "fallback"]
          /\ UNCHANGED <<recovery, again>>
    /\ UNCHANGED <<pause, flagVars, frameQ, outQ, readerVars, job, out, writerVars, main, callVars>>

Wait(w) ==
    /\ wpc[w] = "wait"
    /\ \/ /\ Free
          /\ recovery' = [recovery EXCEPT !.exclusive = TRUE, !.waiting = @ - 1]
          /\ again' = again \cup {w}
          /\ wpc' = [wpc EXCEPT ![w] = "begin"]
       \/ /\ ~Free /\ ~processing
          /\ recovery' = [recovery EXCEPT !.waiting = @ - 1]
          /\ wpc' = [wpc EXCEPT ![w] = "fallback"]
          /\ UNCHANGED again
    /\ UNCHANGED <<pause, flagVars, frameQ, outQ, readerVars, job, out, writerVars, main, callVars>>

\* The handler of a failed or empty frame: the original takes its place, reserved now.
FallbackUnreserved(w) ==
    /\ wpc[w] = "fallback"
    /\ out' = [out EXCEPT ![w] = "original"]
    /\ wpc' = [wpc EXCEPT ![w] = "put"]
    /\ UNCHANGED <<gateVars, flagVars, frameQ, outQ, readerVars, job, again, writerVars, main, callVars>>

FallbackDropped(w) ==
    /\ wpc[w] = "fallback"
    /\ wpc' = [wpc EXCEPT ![w] = "get"]
    /\ UNCHANGED <<gateVars, flagVars, frameQ, outQ, readerVars, job, out, again, writerVars, main, callVars>>

Fallback(w) ==
    /\ wpc[w] = "fallback"
    /\ pause' = Reserved(pause)
    /\ out' = [out EXCEPT ![w] = "original"]
    /\ wpc' = [wpc EXCEPT ![w] = "put"]
    /\ UNCHANGED <<recovery, flagVars, frameQ, outQ, readerVars, job, again, writerVars, main, callVars>>

Put(w) ==
    /\ wpc[w] = "put"
    /\ \/ /\ Room(outQ[w])
          /\ outQ' = [outQ EXCEPT ![w] = Append(@, [frame |-> job[w], kind |-> out[w]])]
          /\ UNCHANGED pause
       \/ /\ ~Room(outQ[w]) /\ ~processing
          /\ pause' = Released(pause)
          /\ UNCHANGED outQ
    /\ wpc' = [wpc EXCEPT ![w] = "get"]
    /\ UNCHANGED <<recovery, flagVars, frameQ, readerVars, job, out, again, writerVars, main, callVars>>

Turn == next % NumThreads          \* whose output the writer takes next

\* The writer can keep others waiting for more than 10 s when a pause parks it, or when it
\* waits for the output of a worker that is itself held.
WriterWaits == xpc = "parked" \/ (xpc = "get" /\ outQ[Turn] = <<>>)

\* _worker_done gives its end mark up after 10 s.
Retire(w) ==
    /\ wpc[w] = "retire"
    /\ \/ Room(outQ[w]) /\ outQ' = [outQ EXCEPT ![w] = Append(@, EndMark)]
       \/ ~Room(outQ[w]) /\ (~processing \/ WriterWaits) /\ UNCHANGED outQ
    /\ wpc' = [wpc EXCEPT ![w] = "done"]
    /\ UNCHANGED <<gateVars, flagVars, frameQ, readerVars, job, out, again, writerVars, main, callVars>>

Worker(w) ==
    \/ Take(w) \/ Admit(w) \/ Begin(w) \/ Work(w) \/ End(w) \/ Leave(w)
    \/ Drain(w) \/ Wait(w) \/ Fallback(w) \/ Put(w) \/ Retire(w)

(***************************************************************************)
(* The writer takes the workers' outputs in turn, encodes, clears the      *)
(* reservation, and seals the segment and parks once a pause is            *)
(* acknowledged.  On its way out it releases what is still queued.         *)
(***************************************************************************)
Fetch ==
    /\ xpc = "get"
    /\ \/ /\ outQ[Turn] # <<>>
          /\ outQ' = [outQ EXCEPT ![Turn] = Tail(@)]
          /\ next' = next + 1
          /\ IF Head(outQ[Turn]) = EndMark
               THEN /\ producers' = producers - 1
                    /\ xpc' = IF producers' < 1 THEN "drain" ELSE "get"
                    /\ UNCHANGED item
               ELSE /\ item' = Head(outQ[Turn])
                    /\ xpc' = "encode"
                    /\ UNCHANGED producers
       \/ /\ outQ[Turn] = <<>> /\ ~processing
          /\ xpc' = "drain"
          /\ UNCHANGED <<outQ, next, producers, item>>
    /\ UNCHANGED <<gateVars, flagVars, frameQ, readerVars, workerVars, sweep, writerError, encoded, sealed, main, callVars>>

Encode ==
    /\ xpc = "encode"
    /\ \/ /\ encoded' = Append(encoded, item)
          /\ xpc' = "clear"
          /\ UNCHANGED <<pause, processing, writerError>>
       \/ /\ EncoderFails
          /\ pause' = Released(pause)
          /\ writerError' = TRUE /\ processing' = FALSE
          /\ xpc' = "drain"
          /\ UNCHANGED encoded
    /\ UNCHANGED <<recovery, pauseFlag, stopped, frameQ, outQ, readerVars, workerVars, next, producers, item, sweep, sealed, main, callVars>>

Clear ==
    /\ xpc = "clear"
    /\ pause' = Released(pause)
    /\ xpc' = "check"
    /\ UNCHANGED <<recovery, flagVars, frameQ, outQ, readerVars, workerVars, next, producers, item, sweep, writerError, encoded, sealed, main, callVars>>

Check ==
    /\ xpc = "check"
    /\ IF pause.acked THEN sealed' = Len(encoded) /\ xpc' = "parked"
                      ELSE xpc' = "get" /\ UNCHANGED sealed
    /\ UNCHANGED <<gateVars, flagVars, frameQ, outQ, readerVars, workerVars, next, producers, item, sweep, writerError, encoded, main, callVars>>

Unpark ==
    /\ xpc = "parked" /\ ~Held
    /\ xpc' = "get"
    /\ UNCHANGED <<gateVars, flagVars, frameQ, outQ, readerVars, workerVars, next, producers, item, sweep, writerError, encoded, sealed, main, callVars>>

ReleaseQueued ==
    /\ xpc = "drain"
    /\ \/ /\ outQ[sweep] # <<>>
          /\ outQ' = [outQ EXCEPT ![sweep] = Tail(@)]
          /\ pause' = IF Head(outQ[sweep]) = EndMark THEN pause ELSE Released(pause)
          /\ UNCHANGED <<sweep, xpc>>
       \/ /\ outQ[sweep] = <<>>
          /\ IF sweep + 1 = NumThreads THEN xpc' = "done" /\ UNCHANGED sweep
                                       ELSE sweep' = sweep + 1 /\ UNCHANGED xpc
          /\ UNCHANGED <<outQ, pause>>
    /\ UNCHANGED <<recovery, flagVars, frameQ, readerVars, workerVars, next, producers, item, writerError, encoded, sealed, main, callVars>>

Writer == Fetch \/ Encode \/ Clear \/ Check \/ Unpark \/ ReleaseQueued

(***************************************************************************)
(* run_batch_inmem: wait for the workers, join the writer for at most 10 s *)
(* (only a parked or starved writer takes longer), then close or abort.    *)
(***************************************************************************)
Join ==
    /\ main = "running" /\ \A w \in Workers : wpc[w] = "done"
    /\ main' = "joining"
    /\ UNCHANGED <<gateVars, flagVars, frameQ, outQ, readerVars, workerVars, writerVars, callVars>>

Close ==
    /\ main = "joining"
    /\ xpc = "done" \/ WriterWaits
    /\ main' = CASE writerError -> "aborted"
                 [] ~writerError /\ processing /\ Len(encoded) # TotalFrames -> "parity"
                 [] OTHER -> "closed"
    /\ UNCHANGED <<gateVars, flagVars, frameQ, outQ, readerVars, workerVars, writerVars, callVars>>

(***************************************************************************)
(* pause_swap, resume_swap and stop_swap (queue_pause and queue_resume do  *)
(* the same two steps in the same order, with a save of the queue between).*)
(***************************************************************************)
Live == main \in {"running", "joining"}

CallBegins ==
    /\ call = "none" /\ calls < MaxCalls /\ Live /\ ~stopped
    /\ \E c \in {"pausing", "resuming", "stopping"} :
           /\ call' = c
           /\ pause' = IF c = "pausing" THEN Asked(pause) ELSE Resumed(pause)
    /\ calls' = calls + 1
    /\ UNCHANGED <<recovery, flagVars, frameQ, outQ, readerVars, workerVars, writerVars, main>>

CallEnds ==
    /\ call # "none"
    /\ pauseFlag' = (call = "pausing")
    /\ processing' = (processing /\ call # "stopping")
    /\ stopped' = (stopped \/ call = "stopping")
    /\ call' = "none"
    /\ UNCHANGED <<gateVars, frameQ, outQ, readerVars, workerVars, writerVars, main, calls>>

Next ==
    \/ Reader \/ (\E w \in Workers : Worker(w)) \/ Writer
    \/ Join \/ Close
    \/ CallBegins \/ CallEnds

\* Every thread is a running thread of the process and every handler returns.
Fairness ==
    /\ WF_vars(Reader) /\ WF_vars(Writer) /\ WF_vars(Join \/ Close) /\ WF_vars(CallEnds)
    /\ \A w \in Workers : WF_vars(Worker(w))

Spec == Init /\ [][Next]_vars /\ Fairness

(***************************************************************************)
(* Correctness.                                                            *)
(***************************************************************************)
WorkerStates == {"get", "gate", "begin", "work", "end", "leave", "drain", "wait",
                 "fallback", "put", "retire", "done"}

PauseType  == pause \in [requested : BOOLEAN, acked : BOOLEAN, active : Nat, pending : Nat]
GateType   == recovery \in [shared : Nat, waiting : Nat, exclusive : BOOLEAN]
FlagType   == processing \in BOOLEAN /\ pauseFlag \in BOOLEAN /\ stopped \in BOOLEAN
QueueType  == /\ frameQ \in [Workers -> Seq(Frames \cup {EndOfStream})]
              /\ outQ \in [Workers -> Seq(Output \cup {EndMark})]
ReaderType == /\ rpc \in {"poll", "rearm", "hold", "put", "end", "done"}
              /\ rnum \in Nat /\ rsent \in 0 .. NumThreads
WorkerType == /\ wpc \in [Workers -> WorkerStates] /\ job \in [Workers -> Frames]
              /\ out \in [Workers -> Kinds \cup {"oom", "error", "none"}]
              /\ again \subseteq Workers
WriterType == /\ xpc \in {"get", "encode", "clear", "check", "parked", "drain", "done"}
              /\ next \in Nat /\ producers \in Int /\ sweep \in Workers
              /\ item \in Output \cup {EndMark} /\ writerError \in BOOLEAN
              /\ encoded \in Seq(Output \cup {EndMark}) /\ sealed \in Nat
CallType   == /\ main \in {"running", "joining", "closed", "parity", "aborted"}
              /\ call \in {"none", "pausing", "resuming", "stopping"} /\ calls \in Nat

\* The pause counters, the recovery counters and every queue keep their ranges.
TypeOK == /\ PauseType /\ GateType /\ FlagType /\ QueueType /\ ReaderType
          /\ WorkerType /\ WriterType /\ CallType

\* A frame that is rerun after a GPU memory error has the GPU to itself: no other worker
\* is inside its model run (run_frame promises the rerun "with nothing else on the GPU").
RetryIsAlone ==
    \A w \in again : wpc[w] = "work" => \A v \in Workers \ {w} : wpc[v] # "work"

\* Until somebody stops the run, the video is every frame in order, none skipped, repeated
\* or refused, however the workers, the failures and the pauses interleave.
InOrder ==
    processing => \A i \in DOMAIN encoded : encoded[i].frame = i - 1 /\ encoded[i].kind # "refused"

HoldsOutput(w) ==
    \/ wpc[w] \in {"end", "leave"} /\ out[w] = "swapped"
    \/ wpc[w] = "put"

\* The places of the output queues that hold an output and no end mark.
Queued == {p \in Workers \X (1 .. QueueDepth) :
              p[2] <= Len(outQ[p[1]]) /\ outQ[p[1]][p[2]] # EndMark}

\* While the run is not stopped, the controller's count of undelivered output is exact: one
\* for each output a worker holds, a queue holds, or the writer has not yet cleared.
ReservationsExact ==
    processing =>
        pause.pending = Cardinality({w \in Workers : HoldsOutput(w)}) + Cardinality(Queued)
                        + (IF xpc \in {"encode", "clear"} THEN 1 ELSE 0)

\* A worker whose attempt failed and whose original frame is not written yet.
Replacing(w) == wpc[w] = "fallback" \/ (wpc[w] = "put" /\ out[w] = "original")

\* An acknowledged pause means no model runs and every swapped frame is with the encoder;
\* what is still undelivered can only be the original that stands in for a failed frame.
PausedIsDrained ==
    pause.acked /\ processing =>
        /\ pause.active = 0 /\ \A w \in Workers : wpc[w] # "work"
        /\ \A w \in Workers : HoldsOutput(w) => Replacing(w)
        /\ \A w \in Workers : \A i \in DOMAIN outQ[w] : outQ[w][i].kind # "swapped"

ThreadsDone == rpc = "done" /\ xpc = "done" /\ \A w \in Workers : wpc[w] = "done"

\* A run is closed unless it is left paused: no queue, gate or reservation blocks it for good.
\* Once it is stopped or its encoder failed, every thread comes down, wherever it was blocked.
RenderEnds ==
    /\ <>(~Live \/ [](pause.requested /\ processing))
    /\ ~processing ~> ThreadsDone
=============================================================================
