------------------------------ MODULE StabDedup ------------------------------
(***************************************************************************)
(* Warm-up deduplication of the stabilised render: StabRawCache            *)
(* (roop/stab_dedup.py) between the recovery gate of roop/gpu_recovery.py  *)
(* and the blocks of ProcessMgr._run_stab_parallel.                        *)
(*                                                                         *)
(* A frame at the end of a block is run twice: for real by its own block,  *)
(* and as warm-up by the next.  Whoever comes first produces the raw       *)
(* result and publishes it, the other takes it, waiting when it must.  A   *)
(* real frame runs inside the gate and is rerun alone after a memory       *)
(* error; a warm-up frame runs outside of it.  The pause is reduced to     *)
(* what it does to the blocks (StabPipeline has the rest).                 *)
(***************************************************************************)
EXTENDS Integers, Sequences, FiniteSets

CONSTANTS
    Blocks, PerChunk,  \* blocks of the clip, and of a chunk
    Depth,             \* chunks in flight
    WarmUp,            \* frames two neighbouring blocks share; one face in each
    Width,             \* workers
    Cap,               \* max_bytes, in entries
    Faulty,            \* the keys whose computation may fail
    MaxPauses          \* bound on pauses that cut blocks short

Workers == 0 .. Width - 1
\* in_zone: the last WarmUp frames of every block that has a successor.
Keys    == 0 .. (Blocks - 1) * WarmUp - 1
Zone(b) == {k \in Keys : k \div WarmUp = b}

ASSUME DedupAssumption ==
    /\ Blocks \in Nat \ {0} /\ PerChunk \in Nat \ {0} /\ Depth \in Nat \ {0}
    /\ WarmUp \in Nat \ {0} /\ Width \in Nat \ {0}
    /\ Cap \in Nat /\ Faulty \subseteq Keys /\ MaxPauses \in Nat

VARIABLES
    table,       \* _table: key -> "absent", "making" (event not set) or "full"
    owned,       \* _owned: worker -> the key of its unpublished slot
    lost,        \* workers whose slot object is no longer the one in the table
    live,        \* _live_bytes, in entries
    active, waiting, exclusive,    \* RecoveryGate
    wpc, blk, at, again,           \* workers: where, block, visit, rerunning alone
    next, finished, settled,       \* next block of the queue; blocks finished; chunks retired
    processing, pausing, pauses

cacheVars == <<table, owned, lost, live>>
gateVars  == <<active, waiting, exclusive>>
blockVars == <<next, finished, settled>>
runVars   == <<processing, pausing, pauses>>
vars == <<cacheVars, gateVars, wpc, blk, at, again, blockVars, runVars>>

NoKey == -1

\* The frames of block b that two blocks process: its warm-up, then its own last frames.
Visits(b) == [i \in 1 .. WarmUp * Cardinality({b - 1, b} \cap 0 .. Blocks - 2) |->
                 IF b > 0 /\ i <= WarmUp THEN [key |-> (b - 1) * WarmUp + i - 1, main |-> FALSE]
                 ELSE [key |-> b * WarmUp + ((i - 1) % WarmUp), main |-> TRUE]]
Visit(w) == Visits(blk[w])[at[w]]
Key(w)   == Visit(w).key
Main(w)  == Visit(w).main
Waiters(k) == {w \in Workers : wpc[w] = "wait" /\ Key(w) = k}
\* Every worker that still refers to the slot of k: its waiters, and the one computing it.
Referrers(k) == Waiters(k) \cup {w \in Workers : owned[w] = k \/ (wpc[w] = "publish" /\ Key(w) = k)}

Init ==
    /\ table = [k \in Keys |-> "absent"] /\ owned = [w \in Workers |-> NoKey]
    /\ lost = {} /\ live = 0
    /\ active = 0 /\ waiting = 0 /\ exclusive = FALSE
    /\ wpc = [w \in Workers |-> "idle"] /\ blk = [w \in Workers |-> 0]
    /\ at = [w \in Workers |-> 1] /\ again = {}
    /\ next = 0 /\ finished = {} /\ settled = 0
    /\ processing = TRUE /\ pausing = FALSE /\ pauses = 0

Go(w, s) == wpc' = [wpc EXCEPT ![w] = s]

(***************************************************************************)
(* The block a worker runs.                                                *)
(***************************************************************************)
TakeBlock(w) ==
    /\ wpc[w] = "idle" /\ next < Blocks /\ next < (settled + Depth) * PerChunk
    /\ blk' = [blk EXCEPT ![w] = next] /\ at' = [at EXCEPT ![w] = 1]
    /\ next' = next + 1
    /\ Go(w, "visit")
    /\ UNCHANGED <<cacheVars, gateVars, again, finished, settled, runVars>>

FinishBlock(w) ==
    /\ wpc[w] = "visit" /\ (~processing \/ pausing \/ at[w] > Len(Visits(blk[w])))
    /\ finished' = finished \cup {blk[w]}
    /\ Go(w, "idle")
    /\ UNCHANGED <<cacheVars, gateVars, blk, at, again, next, settled, runVars>>

Enter(w) ==
    /\ wpc[w] = "visit" /\ processing /\ ~pausing /\ at[w] <= Len(Visits(blk[w]))
    /\ Main(w) => ~exclusive /\ waiting = 0
    /\ active' = IF Main(w) THEN active + 1 ELSE active
    /\ Go(w, "acquire")
    /\ UNCHANGED <<cacheVars, waiting, exclusive, blk, at, again, blockVars, runVars>>

(***************************************************************************)
(* StabRawCache.                                                           *)
(***************************************************************************)
\* The slot of k leaves the table: whoever refers to it holds a stale object from now on.
Remove(k) ==
    /\ table' = [table EXCEPT ![k] = "absent"]
    /\ lost' = lost \cup Referrers(k)

Acquire(w) ==
    /\ wpc[w] = "acquire"
    /\ \/ /\ table[Key(w)] = "absent"
          /\ table' = [table EXCEPT ![Key(w)] = "making"]
          /\ owned' = [owned EXCEPT ![w] = Key(w)]
          /\ lost' = lost \ {w} /\ Go(w, "compute") /\ UNCHANGED live
       \/ /\ table[Key(w)] = "making" /\ lost' = lost \ {w} /\ Go(w, "wait")
          /\ UNCHANGED <<table, owned, live>>
       \/ /\ table[Key(w)] = "full"
          /\ Remove(Key(w)) /\ live' = live - 1
          /\ Go(w, "leave") /\ UNCHANGED owned
    /\ UNCHANGED <<gateVars, blk, at, again, blockVars, runVars>>

\* Its event is set: the entry is taken, or the slot has gone and the worker computes itself.
Woken(w) ==
    /\ wpc[w] = "wait"
    /\ \/ /\ w \notin lost /\ table[Key(w)] = "full"
          /\ table' = [table EXCEPT ![Key(w)] = "absent"]
          /\ lost' = lost \cup (Referrers(Key(w)) \ {w})
          /\ live' = live - 1 /\ Go(w, "leave")
       \/ /\ w \in lost \/ ~processing
          /\ lost' = lost \ {w} /\ Go(w, "compute") /\ UNCHANGED <<table, live>>
    /\ UNCHANGED <<owned, gateVars, blk, at, again, blockVars, runVars>>

Compute(w) ==
    /\ wpc[w] = "compute"
    /\ Go(w, IF owned[w] = NoKey THEN "leave" ELSE "publish?")
    /\ UNCHANGED <<cacheVars, gateVars, blk, at, again, blockVars, runVars>>

DecideToKeep(w) ==
    /\ wpc[w] = "publish?"
    /\ owned' = [owned EXCEPT ![w] = NoKey]
    /\ Go(w, "publish")
    /\ UNCHANGED <<table, lost, live, gateVars, blk, at, again, blockVars, runVars>>

\* publish() decides under the lock, copies the arrays without it, and stores them under it.
Decide(w) ==
    /\ wpc[w] = "publish?"
    /\ owned' = [owned EXCEPT ![w] = NoKey]
    /\ IF live + 1 > Cap
       THEN /\ IF w \in lost THEN UNCHANGED table
                             ELSE table' = [table EXCEPT ![Key(w)] = "absent"]
            /\ lost' = (lost \cup (IF w \in lost THEN {} ELSE Waiters(Key(w)))) \ {w}
            /\ Go(w, "leave")
       ELSE Go(w, "publish") /\ UNCHANGED <<table, lost>>
    /\ UNCHANGED <<live, gateVars, blk, at, again, blockVars, runVars>>

Store(w) ==
    /\ wpc[w] = "publish"
    /\ live' = live + 1
    /\ IF w \in lost THEN UNCHANGED table ELSE table' = [table EXCEPT ![Key(w)] = "full"]
    /\ lost' = lost \ {w}
    /\ Go(w, "leave")
    /\ UNCHANGED <<owned, gateVars, blk, at, again, blockVars, runVars>>

AbandonKeepingSlot(w) ==
    /\ owned' = [owned EXCEPT ![w] = NoKey]
    /\ lost' = lost \ {w} /\ UNCHANGED table
Abandon(w) ==
    /\ owned' = [owned EXCEPT ![w] = NoKey]
    /\ IF owned[w] = NoKey \/ w \in lost
       THEN lost' = lost \ {w} /\ UNCHANGED table
       ELSE table' = [table EXCEPT ![owned[w]] = "absent"] /\ lost' = lost \cup Waiters(owned[w])

(***************************************************************************)
(* run_frame, and the `finally: abandon()` of both loops of the block.     *)
(***************************************************************************)

LeaveGate(w) ==
    IF w \in again THEN exclusive' = FALSE /\ again' = again \ {w} /\ UNCHANGED <<active, waiting>>
    ELSE /\ active' = IF Main(w) THEN active - 1 ELSE active
         /\ UNCHANGED <<exclusive, waiting, again>>

\* The frame ends, with its result or with an error: the gate is left, then the slot.
Leave(w) ==
    /\ wpc[w] = "leave" \/ (wpc[w] = "compute" /\ Key(w) \in Faulty)
    /\ LeaveGate(w)
    /\ Go(w, "abandon")
    /\ UNCHANGED <<cacheVars, blk, at, blockVars, runVars>>

EndVisit(w) ==
    /\ wpc[w] = "abandon"
    /\ Abandon(w)
    /\ at' = [at EXCEPT ![w] = @ + 1]
    /\ Go(w, "visit")
    /\ UNCHANGED <<live, gateVars, blk, again, blockVars, runVars>>

\* A memory error of a real frame: leave the gate, release the slot (before_wait), wait to
\* be alone, and run the frame again.
OutOfMemory(w) ==
    /\ wpc[w] = "compute" /\ Main(w) /\ w \notin again /\ Key(w) \in Faulty
    /\ active' = active - 1
    /\ Go(w, "before")
    /\ UNCHANGED <<cacheVars, waiting, exclusive, blk, at, again, blockVars, runVars>>

BeforeWaitNothing(w) ==
    /\ wpc[w] = "before"
    /\ waiting' = waiting + 1
    /\ Go(w, "drain")
    /\ UNCHANGED <<cacheVars, active, exclusive, blk, at, again, blockVars, runVars>>
BeforeWait(w) ==
    /\ wpc[w] = "before"
    /\ Abandon(w)
    /\ waiting' = waiting + 1
    /\ Go(w, "drain")
    /\ UNCHANGED <<live, active, exclusive, blk, at, again, blockVars, runVars>>

Alone(w) ==
    /\ wpc[w] = "drain"
    /\ \/ /\ ~exclusive /\ active = 0
          /\ exclusive' = TRUE /\ again' = again \cup {w} /\ Go(w, "acquire")
       \/ /\ (exclusive \/ active > 0) /\ ~processing
          /\ Go(w, "abandon") /\ UNCHANGED <<exclusive, again>>
    /\ waiting' = waiting - 1
    /\ UNCHANGED <<cacheVars, active, blk, at, blockVars, runVars>>

Worker(w) == \/ TakeBlock(w) \/ FinishBlock(w) \/ Enter(w)
             \/ Acquire(w) \/ Woken(w) \/ Compute(w) \/ Decide(w) \/ Store(w)
             \/ Leave(w) \/ EndVisit(w) \/ OutOfMemory(w) \/ BeforeWait(w) \/ Alone(w)

(***************************************************************************)
(* The coordinator retires the oldest chunk and drops what nobody will     *)
(* visit again: the frames before the tail carried into the next chunk.    *)
(***************************************************************************)
ChunkBlocks(c) == (c * PerChunk .. (c + 1) * PerChunk - 1) \cap 0 .. Blocks - 1
Before(b) == {k \in Keys : k \div WarmUp < b}
DropKeepingBytes(S) ==
    /\ table' = [k \in Keys |-> IF k \in S THEN "absent" ELSE table[k]]
    /\ lost' = lost \cup UNION {Referrers(k) : k \in {j \in S : table[j] # "absent"}}
    /\ UNCHANGED live
Drop(S) ==
    /\ table' = [k \in Keys |-> IF k \in S THEN "absent" ELSE table[k]]
    /\ lost' = lost \cup UNION {Referrers(k) : k \in {j \in S : table[j] # "absent"}}
    /\ live' = live - Cardinality({k \in S : table[k] = "full"})

Over == settled * PerChunk >= Blocks

Settle ==
    /\ processing /\ ~pausing /\ ~Over /\ ChunkBlocks(settled) \subseteq finished
    /\ settled' = settled + 1
    /\ Drop(Before((settled + 1) * PerChunk - 1))
    /\ UNCHANGED <<owned, gateVars, wpc, blk, at, again, next, finished, runVars>>

\* A pause cuts the blocks in flight short; after it their chunks are processed again.
Pause ==
    /\ processing /\ ~pausing /\ pauses < MaxPauses /\ ~Over
    /\ pausing' = TRUE /\ pauses' = pauses + 1
    /\ UNCHANGED <<cacheVars, gateVars, wpc, blk, at, again, blockVars, processing>>

Requeue ==
    /\ pausing /\ processing /\ \A w \in Workers : wpc[w] = "idle"
    /\ pausing' = FALSE
    /\ next' = settled * PerChunk
    /\ finished' = {b \in finished : b < settled * PerChunk}
    /\ UNCHANGED <<cacheVars, gateVars, wpc, blk, at, again, settled, processing, pauses>>

Stop ==
    /\ processing /\ ~Over
    /\ processing' = FALSE
    /\ UNCHANGED <<cacheVars, gateVars, wpc, blk, at, again, blockVars, pausing, pauses>>

Next == (\E w \in Workers : Worker(w)) \/ Settle \/ Pause \/ Requeue \/ Stop

\* Workers and the coordinator run; nobody has to pause or stop.
Fairness == WF_vars(Settle) /\ WF_vars(Requeue) /\ \A w \in Workers : WF_vars(Worker(w))

Spec == Init /\ [][Next]_vars /\ Fairness

(***************************************************************************)
(* Correctness.                                                            *)
(***************************************************************************)
WorkerStates == {"idle", "visit", "acquire", "wait", "compute", "publish?", "publish",
                 "leave", "abandon", "before", "drain"}

\* The gate counts workers and never goes below zero; the cache never counts below nothing.
TypeOK ==
    /\ table \in [Keys -> {"absent", "making", "full"}]
    /\ owned \in [Workers -> Keys \cup {NoKey}] /\ lost \subseteq Workers /\ live \in Nat
    /\ active \in 0 .. Width /\ waiting \in 0 .. Width /\ exclusive \in BOOLEAN
    /\ wpc \in [Workers -> WorkerStates] /\ blk \in [Workers -> 0 .. Blocks - 1]
    /\ at \in [Workers -> 1 .. 2 * WarmUp + 1] /\ again \subseteq Workers
    /\ next \in 0 .. Blocks /\ finished \subseteq 0 .. Blocks - 1 /\ settled \in Nat

\* The bytes the cache counts are the bytes it holds: no store, hand-over, drop or redone
\* block leaves the count behind, which would shut the cache for the rest of the render.
BytesExact == live = Cardinality({k \in Keys : table[k] = "full"})

\* The state is sound: the gate and the table have their types, and the count is exact.
BytesAccounted == TypeOK /\ BytesExact

\* The ceiling is passed by at most one entry of every other worker, those that looked at
\* the count before an entry that was being copied was added to it.
CeilingNearlyKept == live <= Cap + Width - 1

\* Whoever waits for a slot waits for a worker that is still computing or storing it: the
\* wait ends with its frame, not with the deadline of ten minutes.
NoOrphanedSlot ==
    \A k \in Keys : table[k] = "making" =>
        \E w \in Workers : w \notin lost /\ (owned[w] = k \/ (wpc[w] = "publish" /\ Key(w) = k))

Ended == Over \/ (~processing /\ \A w \in Workers : wpc[w] = "idle")

\* Every chunk is retired unless the run is stopped, and then every worker comes to rest:
\* no wait for a slot and no wait for the gate closes a circle.
RenderEnds == <>Ended
=============================================================================
