----------------------------- MODULE SwapBatcher -----------------------------
(* The cross-frame swap batcher (app/roop/swap_batcher.py) with the workers   *)
(* that hand tiles to it (ProcessMgr.py), the governor that changes its size  *)
(* (vram_governor.py) and the owner of the run that stops it                  *)
(* (procmgr_batch.py). A crop is named by the request that carries it, so an  *)
(* output is the request it was computed from.                                *)
EXTENDS Integers, Sequences, FiniteSets, FiniteSetsExt

CONSTANTS
    Workers,    \* threads that swap faces
    Rounds,     \* per worker: how often it hands in a face
    Tiles,      \* tiles of a face, all submitted before the first is awaited
    Ceiling,    \* the batch size the engine was warmed up for
    Pooled,     \* the model has sessions of its own: the guard excludes nobody
    LateStop    \* the owner may stop while workers are still at work

ASSUME SizesAssumption == /\ Rounds \in [Workers -> Nat \ {0}] /\ Tiles \in Nat \ {0}
                          /\ Ceiling \in Nat \ {0}
ASSUME SwitchAssumption == Pooled \in BOOLEAN /\ LateStop \in BOOLEAN

VARIABLES
    queue,      \* _queue, the requests nobody has taken
    maxBatch,   \* _max_batch
    stopped,    \* _stopped
    inside,     \* who is inside _guard_fn()
    thread,     \* the batcher thread: where it is, its batch, the answers it still has to set
    workers,    \* per worker: where it is, its round, its tile
    owner,      \* the thread in stop(): where it is, the requests it drained
    ans         \* per request: what its handle holds

vars == <<queue, maxBatch, stopped, inside, thread, workers, owner, ans>>

Requests == UNION {{<<w, n, t>> : n \in 1 .. Rounds[w], t \in 1 .. Tiles} : w \in Workers}
\* What a handle may hold besides an output.
NotAsked == <<"not asked">>
Waiting == <<"waiting">>
Failed == <<"failed">>
Batcher == "batcher"
Owner == "owner"

Current(w) == <<w, workers[w].round, workers[w].tile>>

Init == /\ queue = <<>> /\ maxBatch = Ceiling /\ stopped = FALSE /\ inside = {}
        /\ thread = [at |-> "awake", batch |-> <<>>, due |-> <<>>]
        /\ workers = [w \in Workers |-> [at |-> "next", round |-> 1, tile |-> 1]]
        /\ owner = [at |-> "rendering", left |-> <<>>]
        /\ ans = [r \in Requests |-> NotAsked]

\* An inline run keeps _cond until it is over; everybody else lets go of it in the same step.
LockFree == \A w \in Workers : workers[w].at \notin {"inline", "inline run"}

\* cond.notify: the batcher wakes if it sleeps.
Woken(t) == IF t.at = "asleep" THEN [t EXCEPT !.at = "awake"] ELSE t

Enter(p) == /\ Pooled \/ inside = {}
            /\ inside' = inside \cup {p}
Exit(p) == inside' = inside \ {p}

\* What the swap model makes of a batch: its outputs, one too few, or none (an exception).
RunFn(batch) == {batch, SubSeq(batch, 1, Len(batch) - 1), <<>>}

-------------------------------------------------------------------------------
(* The workers: _swap_batcher.submit for every tile, then wait for each.      *)

Go(w, at, tile) == workers' = [workers EXCEPT ![w].at = at, ![w].tile = tile]

\* The face is done, or its exception has left the frame: on to the next one.
NextRound(w) ==
    workers' = [workers EXCEPT ![w] =
        IF @.round = Rounds[w] THEN [@ EXCEPT !.at = "done"]
        ELSE [at |-> "next", round |-> @.round + 1, tile |-> 1]]

\* `if self._swap_batcher is not None`: without one the face is swapped directly.
BeginRound(w) ==
    /\ workers[w].at = "next"
    /\ IF owner.at = "gone" THEN NextRound(w) ELSE Go(w, "submit", 1)
    /\ UNCHANGED <<queue, maxBatch, stopped, inside, thread, owner, ans>>

\* The name is looked up for every tile: it may have become None, which raises.
SubmitToNobody(w) ==
    /\ workers[w].at = "submit" /\ owner.at = "gone"
    /\ NextRound(w)
    /\ UNCHANGED <<queue, maxBatch, stopped, inside, thread, owner, ans>>

\* After the handle of the last tile the worker waits for the first.
Handed(w) == IF workers[w].tile = Tiles THEN Go(w, "wait", 1)
             ELSE Go(w, "submit", workers[w].tile + 1)

SubmittedQuietly(r) ==
    /\ queue' = Append(queue, r)
    /\ thread' = IF Len(queue) + 1 >= maxBatch THEN Woken(thread) ELSE thread
Submitted(r) == queue' = Append(queue, r) /\ thread' = Woken(thread)

Submit(w) ==
    /\ workers[w].at = "submit" /\ owner.at # "gone" /\ LockFree /\ ~stopped
    /\ Submitted(Current(w))
    /\ ans' = [ans EXCEPT ![Current(w)] = Waiting]
    /\ Handed(w)
    /\ UNCHANGED <<maxBatch, stopped, inside, owner>>

\* submit after the stop: _run_inline, with _cond in hand.
SubmitLate(w) ==
    /\ workers[w].at = "submit" /\ owner.at # "gone" /\ LockFree /\ stopped
    /\ ans' = [ans EXCEPT ![Current(w)] = Waiting]
    /\ Go(w, "inline", workers[w].tile)
    /\ UNCHANGED <<queue, maxBatch, stopped, inside, thread, owner>>

InlineEnter(w) ==
    /\ workers[w].at = "inline" /\ Enter(w)
    /\ Go(w, "inline run", workers[w].tile)
    /\ UNCHANGED <<queue, maxBatch, stopped, thread, owner, ans>>

\* _run_inline: the one output, or the error (an empty result raises as well).
Answered(r) == ans' \in {[ans EXCEPT ![r] = v] : v \in {r, Failed}}

InlineEnd(w) ==
    /\ workers[w].at = "inline run" /\ Exit(w)
    /\ Answered(Current(w))
    /\ Handed(w)
    /\ UNCHANGED <<queue, maxBatch, stopped, thread, owner>>

\* wait: an error is raised and leaves the handles behind it unread.
Collect(w) ==
    /\ workers[w].at = "wait" /\ ans[Current(w)] # Waiting
    /\ IF ans[Current(w)] = Failed \/ workers[w].tile = Tiles THEN NextRound(w)
       ELSE Go(w, "wait", workers[w].tile + 1)
    /\ UNCHANGED <<queue, maxBatch, stopped, inside, thread, owner, ans>>

Worker(w) == \/ BeginRound(w) \/ SubmitToNobody(w) \/ Submit(w) \/ SubmitLate(w)
             \/ InlineEnter(w) \/ InlineEnd(w) \/ Collect(w)

-------------------------------------------------------------------------------
(* The batcher thread: _loop and _run_batch.                                  *)

Sleep ==
    /\ thread.at = "awake" /\ LockFree /\ queue = <<>>
    /\ thread' = [thread EXCEPT !.at = IF stopped THEN "gone" ELSE "asleep"]
    /\ UNCHANGED <<queue, maxBatch, stopped, inside, workers, owner, ans>>

\* The batch is cut when it is full, when the deadline of the first request passes or
\* at a stop: at any moment, since the deadline is short and the clock is not modelled.
Cut == IF Len(queue) < maxBatch THEN Len(queue) ELSE maxBatch

TakeBatch ==
    /\ thread.at = "awake" /\ LockFree /\ queue # <<>>
    /\ thread' = [thread EXCEPT !.at = "guard", !.batch = SubSeq(queue, 1, Cut)]
    /\ queue' = SubSeq(queue, Cut + 1, Len(queue))
    /\ UNCHANGED <<maxBatch, stopped, inside, workers, owner, ans>>

BatchEnter ==
    /\ thread.at = "guard" /\ Enter(Batcher)
    /\ thread' = [thread EXCEPT !.at = "run"]
    /\ UNCHANGED <<queue, maxBatch, stopped, workers, owner, ans>>

OutcomeFromTheEnd(batch, outs) ==
    [i \in DOMAIN batch |->
        <<batch[i], IF i < Len(outs) THEN outs[i + 1] ELSE Failed>>]
OutcomeZipped(batch, outs) ==
    IF outs = <<>> THEN [i \in DOMAIN batch |-> <<batch[i], Failed>>]
    ELSE [i \in DOMAIN outs |-> <<batch[i], outs[i]>>]

\* An exception, or a result of the wrong length, is an error of every request of the batch.
Outcome(batch, outs) ==
    [i \in DOMAIN batch |->
        <<batch[i], IF Len(outs) = Len(batch) THEN outs[i] ELSE Failed>>]

RunBatch ==
    /\ thread.at = "run" /\ Exit(Batcher)
    /\ \E outs \in RunFn(thread.batch) :
         thread' = [at |-> "deliver", batch |-> <<>>, due |-> Outcome(thread.batch, outs)]
    /\ UNCHANGED <<queue, maxBatch, stopped, workers, owner, ans>>

Deliver ==
    /\ thread.at = "deliver"
    /\ ans' = [ans EXCEPT ![Head(thread.due)[1]] = Head(thread.due)[2]]
    /\ thread' = [thread EXCEPT !.due = Tail(@),
                                !.at = IF Len(thread.due) = 1 THEN "awake" ELSE @]
    /\ UNCHANGED <<queue, maxBatch, stopped, inside, workers, owner>>

Thread == Sleep \/ TakeBatch \/ BatchEnter \/ RunBatch \/ Deliver

-------------------------------------------------------------------------------
(* The governor: runtime_step_down and runtime_restore call set_max_batch.    *)

BatchSteps == {8, 4, 2, 1}

SetMaxBatch(n) ==
    /\ LockFree
    /\ maxBatch' = IF n > Ceiling THEN Ceiling ELSE IF n < 1 THEN 1 ELSE n
    /\ thread' = Woken(thread)
    /\ UNCHANGED <<queue, stopped, inside, workers, owner, ans>>

StepDown ==
    LET lower == {s \in BatchSteps : s < maxBatch}
    IN /\ owner.at # "gone" /\ lower # {} /\ SetMaxBatch(Max(lower))

Restore ==
    LET higher == {s \in BatchSteps : s > maxBatch}
    IN /\ owner.at # "gone" /\ maxBatch < Ceiling
       /\ SetMaxBatch(IF higher = {} THEN Ceiling ELSE Min(higher))

Governor == StepDown \/ Restore

-------------------------------------------------------------------------------
(* The owner: stop(), after the workers were joined, or after the join of one *)
(* that is still at work ran out of time.                                     *)

Stop ==
    /\ owner.at = "rendering" /\ LockFree
    /\ LateStop \/ \A w \in Workers : workers[w].at = "done"
    /\ stopped' = TRUE /\ thread' = Woken(thread)
    /\ owner' = [owner EXCEPT !.at = "join"]
    /\ UNCHANGED <<queue, maxBatch, inside, workers, ans>>

\* The thread is joined for ten seconds, which a batch may outlast: the queue may be drained
\* at any moment of its work.
Drain ==
    /\ owner.at = "join" /\ LockFree
    /\ owner' = [at |-> "leftover", left |-> queue] /\ queue' = <<>>
    /\ UNCHANGED <<maxBatch, stopped, inside, thread, workers, ans>>

LeftEnter ==
    /\ owner.at = "leftover" /\ owner.left # <<>> /\ Enter(Owner)
    /\ owner' = [owner EXCEPT !.at = "leftover run"]
    /\ UNCHANGED <<queue, maxBatch, stopped, thread, workers, ans>>

LeftEnd ==
    /\ owner.at = "leftover run" /\ Exit(Owner)
    /\ Answered(Head(owner.left))
    /\ owner' = [at |-> "leftover", left |-> Tail(owner.left)]
    /\ UNCHANGED <<queue, maxBatch, stopped, thread, workers>>

\* self._swap_batcher = None.
Forget ==
    /\ owner.at = "leftover" /\ owner.left = <<>>
    /\ owner' = [owner EXCEPT !.at = "gone"]
    /\ UNCHANGED <<queue, maxBatch, stopped, inside, thread, workers, ans>>

StopSteps == Drain \/ LeftEnter \/ LeftEnd \/ Forget

Next == (\E w \in Workers : Worker(w)) \/ Thread \/ Governor \/ Stop \/ StopSteps

\* Every thread that can go on does, and every model run ends.
Fairness == /\ WF_vars(Thread) /\ WF_vars(StopSteps)
            /\ \A w \in Workers : WF_vars(Worker(w))

Spec == Init /\ [][Next]_vars /\ Fairness

-------------------------------------------------------------------------------
(* What the batcher promises.                                                 *)

Answers == Requests \cup {NotAsked, Waiting, Failed}
Places == [at : {"next", "submit", "inline", "inline run", "wait", "done"}, round : Nat, tile : 1 .. Tiles]
Threads == [at : {"awake", "asleep", "guard", "run", "deliver", "gone"},
            batch : Seq(Requests), due : Seq(Requests \X Answers)]
Stops == [at : {"rendering", "join", "leftover", "leftover run", "gone"}, left : Seq(Requests)]

TypeOK ==
    /\ queue \in Seq(Requests) /\ maxBatch \in Nat /\ stopped \in BOOLEAN
    /\ inside \subseteq Workers \cup {Batcher, Owner}
    /\ thread \in Threads
    /\ workers \in [Workers -> Places]
    /\ \A w \in Workers : Current(w) \in Requests
    /\ owner \in Stops
    /\ ans \in [Requests -> Answers]

\* The output a worker gets is the one computed from its own crop, or an error: neither the
\* cut of a batch, nor a short result, nor an inline run shifts answers between requests.
AnswersMatch == \A r \in Requests : ans[r] \in {r, NotAsked, Waiting, Failed}

InHand == queue \o thread.batch \o [i \in DOMAIN thread.due |-> thread.due[i][1]] \o owner.left
Inline(r) == \E w \in Workers : workers[w].at \in {"inline", "inline run"} /\ Current(w) = r

\* A request that has no answer yet is in exactly one place: the queue, the batch, the answers
\* being handed out, the requests drained by the stop or an inline run. An answered one is in
\* none, so no crop is swapped twice and no handle is set twice.
InOnePlace ==
    \A r \in Requests :
        Cardinality({i \in DOMAIN InHand : InHand[i] = r}) + (IF Inline(r) THEN 1 ELSE 0)
            = IF ans[r] = Waiting THEN 1 ELSE 0

\* However the governor lowers and restores the size, and whenever it does, no batch is larger
\* than the one the engine was warmed up for.
BatchFitsProfile == Len(thread.batch) <= Ceiling /\ maxBatch <= Ceiling

\* From the drain on nothing is in the queue, where nobody would look for it: a worker that
\* submits while the owner stops is either drained or runs its own request.
NothingLeftBehind == owner.at \in {"leftover", "leftover run", "gone"} => queue = <<>>

\* Nobody waits forever: every request handed in, before, during or after the stop, is answered,
\* and stop() returns, whatever the batcher thread is doing when its join runs out of time.
AllAnswered ==
    /\ \A r \in Requests : (ans[r] = Waiting) ~> (ans[r] # Waiting)
    /\ (owner.at = "join") ~> (owner.at = "gone")
=============================================================================
