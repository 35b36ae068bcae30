--------------------------- MODULE StabDedup_proofs ---------------------------
(***************************************************************************)
(* The raw cache for any clip, any number of workers, any ceiling and any  *)
(* number of pauses: nobody waits for a slot without a producer, the       *)
(* ceiling is passed by one entry a worker at most, and the counts of the  *)
(* cache and of the gate are exact.                                        *)
(***************************************************************************)
EXTENDS StabDedup, TLAPS, FiniteSetTheorems

\* The frames a worker visits: where it is between the beginning and the end of a visit.
AtWork(w) == wpc[w] \notin {"idle", "visit"}

\* The key of a visit, seen from the block and the place in it.
KeyAt(b, i) == Visits(b)[i].key

\* Where a worker that owns a slot can be.
Owning == {"compute", "publish?", "leave", "before", "abandon"}

\* The types the slots depend on; a worker at work is at a frame of its block, and
\* the slot it owns is the one of that frame.
Shape ==
    /\ table \in [Keys -> {"absent", "making", "full"}]
    /\ owned \in [Workers -> Keys \cup {NoKey}] /\ lost \subseteq Workers /\ live \in Int
    /\ wpc \in [Workers -> WorkerStates]
    /\ blk \in [Workers -> 0 .. Blocks - 1] /\ at \in [Workers -> Nat \ {0}]
    /\ next \in Nat /\ settled \in Nat
    /\ \A w \in Workers : AtWork(w) => at[w] <= Len(Visits(blk[w]))
    /\ \A w \in Workers : owned[w] # NoKey => owned[w] = Key(w) /\ wpc[w] \in Owning

\* A worker holds a slot of the table: it computes it or is about to store it.
Making(w) == w \notin lost /\ (owned[w] # NoKey \/ wpc[w] = "publish")

\* A slot in the making has exactly one producer.
SlotInv ==
    /\ \A w \in Workers : Making(w) => table[Key(w)] = "making"
    /\ \A w, v \in Workers : Making(w) /\ Making(v) /\ Key(w) = Key(v) => w = v
    /\ \A k \in Keys : table[k] = "making" => \E w \in Workers : Making(w) /\ Key(w) = k

\* A block visits frames that exist.
LEMMA VisitKeys ==
    ASSUME NEW b \in 0 .. Blocks - 1, NEW i \in Nat \ {0}, i <= Len(Visits(b))
    PROVE  KeyAt(b, i) \in Keys
<1> DEFINE S == {b - 1, b} \cap 0 .. Blocks - 2
           n == WarmUp * Cardinality(S)
<1>0. Blocks \in Nat \ {0} /\ WarmUp \in Nat \ {0} /\ b \in Int /\ b - 1 # b
  BY DedupAssumption DEF DedupAssumption
<1>1. Cardinality({}) = 0 /\ Cardinality({b - 1}) = 1 /\ Cardinality({b - 1, b}) = 2
  <2>1. IsFiniteSet({b - 1}) /\ Cardinality({b - 1}) = 1 /\ Cardinality({}) = 0
    BY FS_EmptySet, FS_Singleton
  <2>2. Cardinality({b - 1} \cup {b}) = Cardinality({b - 1}) + 1
    BY <1>0, <2>1, FS_AddElement
  <2>3. {b - 1} \cup {b} = {b - 1, b}
    OBVIOUS
  <2> QED BY <2>1, <2>2, <2>3
<1>2. Cardinality({b}) = 1
  BY FS_Singleton
<1>3. Cardinality(S) \in {0, 1, 2}
  <2>1. S = {} \/ S = {b - 1} \/ S = {b} \/ S = {b - 1, b}
    OBVIOUS
  <2> QED BY <1>1, <1>2, <2>1
<1>4. b = Blocks - 1 => (b > 0 /\ Cardinality(S) = 1) \/ (b = 0 /\ Cardinality(S) = 0)
  <2>1. b = Blocks - 1 /\ b > 0 => S = {b - 1}
    BY <1>0
  <2>2. b = Blocks - 1 /\ b = 0 => S = {}
    BY <1>0
  <2>3. b > 0 \/ b = 0
    BY <1>0
  <2> HIDE DEF S
  <2> QED BY <1>1, <2>1, <2>2, <2>3
<1> HIDE DEF S
<1>5. n \in Nat
  BY <1>0, <1>3
<1>6. i \in 1 .. n /\ KeyAt(b, i) = IF b > 0 /\ i <= WarmUp THEN (b - 1) * WarmUp + i - 1
                                   ELSE b * WarmUp + ((i - 1) % WarmUp)
  BY <1>5 DEF KeyAt, Visits, S
<1>7. (i - 1) % WarmUp \in 0 .. WarmUp - 1
  BY <1>0
<1>8. CASE b > 0 /\ i <= WarmUp
  <2>1. (b - 1) * WarmUp \in Nat /\ b * WarmUp = (b - 1) * WarmUp + WarmUp
    BY <1>0, <1>8
  <2>2. b * WarmUp <= (Blocks - 1) * WarmUp /\ (Blocks - 1) * WarmUp \in Nat
    BY <1>0
  <2> QED BY <1>0, <1>6, <1>8, <2>1, <2>2 DEF Keys
<1>9. CASE ~(b > 0 /\ i <= WarmUp)
  <2>1. b # Blocks - 1
    BY <1>0, <1>4, <1>6, <1>9
  <2>2. b * WarmUp \in Nat /\ (b + 1) * WarmUp = b * WarmUp + WarmUp
    BY <1>0
  <2>3. (b + 1) * WarmUp <= (Blocks - 1) * WarmUp /\ (Blocks - 1) * WarmUp \in Nat
    BY <1>0, <2>1
  <2> QED BY <1>0, <1>6, <1>7, <1>9, <2>2, <2>3 DEF Keys
<1> QED BY <1>8, <1>9

\* A worker at work has a frame with a key.
LEMMA WorkKeys == Shape => \A w \in Workers : AtWork(w) => Key(w) \in Keys
<1> SUFFICES ASSUME Shape, NEW w \in Workers, AtWork(w) PROVE Key(w) \in Keys
  OBVIOUS
<1>1. Key(w) = KeyAt(blk[w], at[w])
  BY DEF Key, Visit, KeyAt
<1>2. blk[w] \in 0 .. Blocks - 1 /\ at[w] \in Nat \ {0} /\ at[w] <= Len(Visits(blk[w]))
  BY DEF Shape
<1> QED BY <1>1, <1>2, VisitKeys

\* The keys are finitely many, so a part of them can be counted.
LEMMA KeysFinite == \A S \in SUBSET Keys : IsFiniteSet(S) /\ Cardinality(S) \in Nat
<1>1. IsFiniteSet(Keys)
  <2>1. 0 \in Int /\ (Blocks - 1) * WarmUp - 1 \in Int
    BY DedupAssumption DEF DedupAssumption
  <2> QED BY <2>1, FS_Interval DEF Keys
<1> QED BY <1>1, FS_Subset, FS_CardinalityType

\* NoKey is no key.
LEMMA NoKeyApart == NoKey \notin Keys
BY DEF NoKey, Keys

\* The steps of a worker that leave the cache and its place in the block alone.
Moves(w) ==
    /\ UNCHANGED <<table, owned, lost, live, blk, at, next, settled>>
    /\ \E s \in WorkerStates :
          /\ wpc' = [wpc EXCEPT ![w] = s]
          /\ wpc[w] # "publish" /\ s # "publish"
          /\ s \notin {"idle", "visit"} =>
                at[w] <= Len(Visits(blk[w])) /\ (owned[w] # NoKey => s \in Owning)
          /\ owned[w] # NoKey => s \in Owning

\* Finishing a block, entering and leaving a frame, computing and waiting for the gate.
LEMMA MoveKinds ==
    ASSUME Shape, NEW w \in Workers,
           FinishBlock(w) \/ Enter(w) \/ Compute(w) \/ Leave(w) \/ OutOfMemory(w) \/ Alone(w)
    PROVE  Moves(w)
<1>0. /\ wpc[w] \in WorkerStates
      /\ AtWork(w) => at[w] <= Len(Visits(blk[w]))
      /\ owned[w] # NoKey => wpc[w] \in Owning
  BY DEF Shape
<1>1. CASE FinishBlock(w)
  BY <1>0, <1>1 DEF FinishBlock, Moves, Go, WorkerStates, Owning, cacheVars, gateVars
<1>2. CASE Enter(w)
  BY <1>0, <1>2 DEF Enter, Moves, Go, WorkerStates, Owning, cacheVars, blockVars
<1>3. CASE Compute(w)
  BY <1>0, <1>3 DEF Compute, Moves, Go, WorkerStates, Owning, AtWork, cacheVars, blockVars
<1>4. CASE Leave(w)
  BY <1>0, <1>4 DEF Leave, Moves, Go, WorkerStates, Owning, AtWork, cacheVars, blockVars
<1>5. CASE OutOfMemory(w)
  BY <1>0, <1>5 DEF OutOfMemory, Moves, Go, WorkerStates, Owning, AtWork, cacheVars, blockVars
<1>6. CASE Alone(w)
  BY <1>0, <1>6 DEF Alone, Moves, Go, WorkerStates, Owning, AtWork, cacheVars, blockVars
<1> QED BY <1>1, <1>2, <1>3, <1>4, <1>5, <1>6

\* Every step keeps the shape.
LEMMA ShapeStep == Shape /\ [Next]_vars => Shape'
<1> SUFFICES ASSUME Shape, [Next]_vars PROVE Shape'
  OBVIOUS
<1>0. \A w \in Workers : Key(w) = KeyAt(blk[w], at[w]) /\ Key(w)' = KeyAt(blk'[w], at'[w])
  BY DEF Key, Visit, KeyAt
<1>k. \A w \in Workers : AtWork(w) => Key(w) \in Keys
  BY WorkKeys
<1>t. /\ table \in [Keys -> {"absent", "making", "full"}]
      /\ owned \in [Workers -> Keys \cup {NoKey}] /\ lost \subseteq Workers /\ live \in Int
      /\ wpc \in [Workers -> WorkerStates]
      /\ blk \in [Workers -> 0 .. Blocks - 1] /\ at \in [Workers -> Nat \ {0}]
      /\ next \in Nat /\ settled \in Nat
      /\ \A w \in Workers : AtWork(w) => at[w] <= Len(Visits(blk[w]))
      /\ \A w \in Workers : owned[w] # NoKey => owned[w] = Key(w) /\ wpc[w] \in Owning
  BY DEF Shape
<1>r. \A k : Referrers(k) \subseteq Workers /\ Waiters(k) \subseteq Workers
  BY DEF Referrers, Waiters
<1>c. Blocks \in Nat /\ PerChunk \in Nat
  BY DedupAssumption DEF DedupAssumption
<1>1. ASSUME NEW w \in Workers, Moves(w) PROVE Shape'
  BY <1>0, <1>1, <1>t DEF Moves, Shape, AtWork
<1>2. ASSUME NEW w \in Workers, TakeBlock(w) PROVE Shape'
  <2>1. /\ next \in 0 .. Blocks - 1 /\ blk' = [blk EXCEPT ![w] = next]
        /\ at' = [at EXCEPT ![w] = 1] /\ next' = next + 1 /\ wpc' = [wpc EXCEPT ![w] = "visit"]
        /\ UNCHANGED <<table, owned, lost, live, settled>> /\ wpc[w] = "idle"
    BY <1>2, <1>t, <1>c DEF TakeBlock, Go, cacheVars
  <2>2. owned[w] = NoKey
    BY <1>t, <2>1 DEF Owning
  <2> QED BY <1>0, <1>t, <2>1, <2>2 DEF Shape, AtWork, WorkerStates
<1>3. ASSUME NEW w \in Workers, NEW s \in WorkerStates, AtWork(w),
             wpc' = [wpc EXCEPT ![w] = s], UNCHANGED <<blk, at, next, settled>>,
             table' \in [Keys -> {"absent", "making", "full"}], lost' \subseteq Workers, live' \in Int,
             \/ owned' = owned /\ (owned[w] = NoKey \/ s \in Owning)
             \/ owned' = [owned EXCEPT ![w] = NoKey]
             \/ owned' = [owned EXCEPT ![w] = Key(w)] /\ s \in Owning
      PROVE  Shape'
  BY <1>0, <1>3, <1>k, <1>t DEF Shape, AtWork
<1>4. ASSUME NEW w \in Workers, Acquire(w) PROVE Shape'
  <2>1. /\ AtWork(w) /\ UNCHANGED <<blk, at, next, settled>>
        /\ table' \in [Keys -> {"absent", "making", "full"}] /\ lost' \subseteq Workers /\ live' \in Int
    <3>1. AtWork(w) /\ UNCHANGED <<blk, at, next, settled>>
      BY <1>4 DEF Acquire, Remove, AtWork, blockVars
    <3>2. /\ \/ table' = [table EXCEPT ![Key(w)] = "making"]
             \/ table' = [table EXCEPT ![Key(w)] = "absent"]
             \/ table' = table
          /\ live' = live \/ live' = live - 1
      BY <1>4 DEF Acquire, Remove
    <3>4. table' \in [Keys -> {"absent", "making", "full"}] /\ live' \in Int
      <4>1. table' \in [Keys -> {"absent", "making", "full"}]
        BY <1>t, <3>2
      <4>2. live' \in Int
        BY <1>t, <3>2
      <4> QED BY <4>1, <4>2
    <3>3. lost' \subseteq Workers
      <4>1. Referrers(Key(w)) \subseteq Workers
        BY <1>r
      <4> QED BY <1>4, <1>t, <4>1 DEF Acquire, Remove
    <3> QED BY <3>1, <3>3, <3>4
  <2>2. \E s \in WorkerStates :
           /\ wpc' = [wpc EXCEPT ![w] = s]
           /\ \/ owned' = owned /\ (owned[w] = NoKey \/ s \in Owning)
              \/ owned' = [owned EXCEPT ![w] = NoKey]
              \/ owned' = [owned EXCEPT ![w] = Key(w)] /\ s \in Owning
    BY <1>4, <1>t DEF Acquire, Remove, Go, WorkerStates, Owning
  <2> QED BY <1>3, <2>1, <2>2
<1>5. ASSUME NEW w \in Workers, Woken(w) PROVE Shape'
  <2>1. /\ AtWork(w) /\ UNCHANGED <<blk, at, next, settled>>
        /\ table' \in [Keys -> {"absent", "making", "full"}] /\ lost' \subseteq Workers /\ live' \in Int
    <3>1. AtWork(w) /\ UNCHANGED <<blk, at, next, settled>>
      BY <1>5 DEF Woken, AtWork, blockVars
    <3>2. table' \in [Keys -> {"absent", "making", "full"}] /\ live' \in Int
      BY <1>5, <1>t DEF Woken
    <3>3. lost' \subseteq Workers
      <4>1. Referrers(Key(w)) \subseteq Workers
        BY <1>r
      <4> QED BY <1>5, <1>t, <4>1 DEF Woken
    <3> QED BY <3>1, <3>2, <3>3
  <2>2. \E s \in WorkerStates :
           /\ wpc' = [wpc EXCEPT ![w] = s]
           /\ \/ owned' = owned /\ (owned[w] = NoKey \/ s \in Owning)
              \/ owned' = [owned EXCEPT ![w] = NoKey]
              \/ owned' = [owned EXCEPT ![w] = Key(w)] /\ s \in Owning
    BY <1>5, <1>t DEF Woken, Go, WorkerStates, Owning
  <2> QED BY <1>3, <2>1, <2>2
<1>6. ASSUME NEW w \in Workers, Decide(w) PROVE Shape'
  <2>1. /\ AtWork(w) /\ UNCHANGED <<blk, at, next, settled>>
        /\ table' \in [Keys -> {"absent", "making", "full"}] /\ lost' \subseteq Workers /\ live' \in Int
    BY <1>6, <1>t, <1>r DEF Decide, Go, AtWork, blockVars
  <2>2. \E s \in WorkerStates :
           /\ wpc' = [wpc EXCEPT ![w] = s]
           /\ \/ owned' = owned /\ (owned[w] = NoKey \/ s \in Owning)
              \/ owned' = [owned EXCEPT ![w] = NoKey]
              \/ owned' = [owned EXCEPT ![w] = Key(w)] /\ s \in Owning
    BY <1>6, <1>t DEF Decide, Go, WorkerStates, Owning
  <2> QED BY <1>3, <2>1, <2>2
<1>7. ASSUME NEW w \in Workers, Store(w) PROVE Shape'
  <2>1. /\ AtWork(w) /\ UNCHANGED <<blk, at, next, settled>>
        /\ table' \in [Keys -> {"absent", "making", "full"}] /\ lost' \subseteq Workers /\ live' \in Int
    BY <1>7, <1>t, <1>r DEF Store, Go, AtWork, blockVars
  <2>2. \E s \in WorkerStates :
           /\ wpc' = [wpc EXCEPT ![w] = s]
           /\ \/ owned' = owned /\ (owned[w] = NoKey \/ s \in Owning)
              \/ owned' = [owned EXCEPT ![w] = NoKey]
              \/ owned' = [owned EXCEPT ![w] = Key(w)] /\ s \in Owning
    BY <1>7, <1>t DEF Store, Go, WorkerStates, Owning
  <2> QED BY <1>3, <2>1, <2>2
<1>8. ASSUME NEW w \in Workers, BeforeWait(w) PROVE Shape'
  BY <1>3, <1>8, <1>t, <1>r DEF BeforeWait, Abandon, Go, AtWork, WorkerStates, Owning, blockVars
<1>9. ASSUME NEW w \in Workers, EndVisit(w) PROVE Shape'
  <2>1. /\ owned' = [owned EXCEPT ![w] = NoKey] /\ at' = [at EXCEPT ![w] = @ + 1]
        /\ wpc' = [wpc EXCEPT ![w] = "visit"] /\ UNCHANGED <<live, blk, next, settled>>
        /\ table' \in [Keys -> {"absent", "making", "full"}] /\ lost' \subseteq Workers
    BY <1>9, <1>t, <1>r DEF EndVisit, Abandon, Go, blockVars
  <2> QED BY <1>0, <1>t, <2>1 DEF Shape, AtWork, WorkerStates
<1>10. CASE Settle
  <2>1. /\ UNCHANGED <<owned, wpc, blk, at, next>> /\ settled' = settled + 1
        /\ table' \in [Keys -> {"absent", "making", "full"}] /\ lost' \subseteq Workers
    BY <1>10, <1>t, <1>r DEF Settle, Drop
  <2>2. live' \in Int
    <3> DEFINE F == {k \in Before((settled + 1) * PerChunk - 1) : table[k] = "full"}
    <3>1. live' = live - Cardinality(F)
      BY <1>10 DEF Settle, Drop
    <3>2. F \in SUBSET Keys
      BY DEF Before
    <3> QED BY <1>t, <3>1, <3>2, KeysFinite
  <2> QED BY <1>0, <1>t, <2>1, <2>2 DEF Shape, AtWork
<1>11. CASE Pause \/ Stop \/ UNCHANGED vars
  <2>1. UNCHANGED <<table, owned, lost, live, wpc, blk, at, next, settled>>
    BY <1>11 DEF Pause, Stop, vars, cacheVars, blockVars
  <2> QED BY <1>0, <1>t, <2>1 DEF Shape, AtWork
<1>12. CASE Requeue
  <2>1. UNCHANGED <<table, owned, lost, live, wpc, blk, at, settled>> /\ next' = settled * PerChunk
    BY <1>12 DEF Requeue, cacheVars
  <2>2. next' \in Nat
    BY <1>c, <1>t, <2>1
  <2> QED BY <1>0, <1>t, <2>1, <2>2 DEF Shape, AtWork
<1> QED BY <1>1, <1>2, <1>4, <1>5, <1>6, <1>7, <1>8, <1>9, <1>10, <1>11, <1>12, MoveKinds
        DEF Next, Worker

\* A worker that is about to publish has a slot to publish.
PublishOwns == \A w \in Workers : wpc[w] = "publish?" => owned[w] # NoKey

\* Only a worker that owns its slot turns to publishing it.
LEMMA PublishOwnsStep == Shape /\ PublishOwns /\ [Next]_vars => PublishOwns'
<1> SUFFICES ASSUME Shape, PublishOwns, [Next]_vars PROVE PublishOwns'
  OBVIOUS
<1>t. owned \in [Workers -> Keys \cup {NoKey}] /\ wpc \in [Workers -> WorkerStates]
  BY DEF Shape
<1>1. ASSUME NEW w \in Workers, NEW s, wpc' = [wpc EXCEPT ![w] = s],
             \A v \in Workers \ {w} : owned'[v] = owned[v],
             s = "publish?" => owned'[w] # NoKey
      PROVE  PublishOwns'
  BY <1>1, <1>t DEF PublishOwns
<1>2. ASSUME NEW w \in Workers, Compute(w) PROVE PublishOwns'
  BY <1>1, <1>2 DEF Compute, Go, cacheVars
<1>3. ASSUME NEW w \in Workers, TakeBlock(w) \/ FinishBlock(w) \/ Enter(w) \/ Leave(w) \/ OutOfMemory(w)
      PROVE  PublishOwns'
  BY <1>1, <1>3 DEF TakeBlock, FinishBlock, Enter, Leave, OutOfMemory, Go, cacheVars
<1>4. ASSUME NEW w \in Workers, Alone(w) PROVE PublishOwns'
  BY <1>1, <1>4 DEF Alone, Go, cacheVars
<1>5. ASSUME NEW w \in Workers, Acquire(w) \/ Woken(w) PROVE PublishOwns'
  <2>1. /\ \E s \in {"compute", "wait", "leave"} : wpc' = [wpc EXCEPT ![w] = s]
        /\ owned' = owned \/ owned' = [owned EXCEPT ![w] = Key(w)]
    BY <1>5 DEF Acquire, Woken, Remove, Go
  <2> QED BY <1>1, <1>t, <2>1
<1>6. ASSUME NEW w \in Workers, Decide(w) \/ Store(w) PROVE PublishOwns'
  BY <1>1, <1>6, <1>t DEF Decide, Store, Go
<1>7. ASSUME NEW w \in Workers, BeforeWait(w) \/ EndVisit(w) PROVE PublishOwns'
  BY <1>1, <1>7, <1>t DEF BeforeWait, EndVisit, Abandon, Go
<1>8. CASE Settle \/ Pause \/ Requeue \/ Stop \/ UNCHANGED vars
  BY <1>8 DEF Settle, Pause, Requeue, Stop, vars, cacheVars, PublishOwns
<1> QED BY <1>2, <1>3, <1>4, <1>5, <1>6, <1>7, <1>8 DEF Next, Worker

\* Slots that leave the making together with their producers leave the others sound.
LEMMA ClearSlots ==
    ASSUME Shape, SlotInv, NEW S,
           \A k \in Keys : table'[k] = "making" <=> table[k] = "making" /\ k \notin S,
           \A w \in Workers : Making(w)' <=> Making(w) /\ Key(w) \notin S,
           \A w \in Workers : Making(w)' => Key(w)' = Key(w)
    PROVE  SlotInv'
<1>1. \A w \in Workers : Making(w) => Key(w) \in Keys
  BY WorkKeys DEF Shape, Making, AtWork, Owning
<1>2. ASSUME NEW w \in Workers, Making(w)' PROVE table'[Key(w)'] = "making"
  BY <1>1, <1>2 DEF SlotInv
<1>3. ASSUME NEW w \in Workers, NEW v \in Workers, Making(w)', Making(v)', Key(w)' = Key(v)'
      PROVE  w = v
  BY <1>3 DEF SlotInv
<1>4. ASSUME NEW k \in Keys, table'[k] = "making"
      PROVE  \E w \in Workers : Making(w)' /\ Key(w)' = k
  <2>1. table[k] = "making" /\ k \notin S
    BY <1>4
  <2>2. PICK w \in Workers : Making(w) /\ Key(w) = k
    BY <2>1 DEF SlotInv
  <2> QED BY <2>1, <2>2
<1> QED BY <1>2, <1>3, <1>4 DEF SlotInv

\* A step that neither makes nor ends a slot leaves them sound.
LEMMA KeepSlots ==
    ASSUME Shape, SlotInv,
           \A k \in Keys : table'[k] = "making" <=> table[k] = "making",
           \A w \in Workers : Making(w)' <=> Making(w),
           \A w \in Workers : Making(w)' => Key(w)' = Key(w)
    PROVE  SlotInv'
<1> DEFINE S == {}
<1>1. \A x : x \notin S
  OBVIOUS
<1> HIDE DEF S
<1>2. \A k \in Keys : table'[k] = "making" <=> table[k] = "making" /\ k \notin S
  BY <1>1
<1>3. \A w \in Workers : Making(w)' <=> Making(w) /\ Key(w) \notin S
  BY <1>1
<1> QED BY <1>2, <1>3, ClearSlots

\* Every step keeps one producer for a slot in the making.
LEMMA SlotStep == Shape /\ PublishOwns /\ SlotInv /\ [Next]_vars => SlotInv'
<1> SUFFICES ASSUME Shape, PublishOwns, SlotInv, [Next]_vars PROVE SlotInv'
  OBVIOUS
<1>k. \A w \in Workers : AtWork(w) => Key(w) \in Keys
  BY WorkKeys
<1>n. NoKey \notin Keys
  BY NoKeyApart
<1>t. /\ table \in [Keys -> {"absent", "making", "full"}]
      /\ owned \in [Workers -> Keys \cup {NoKey}] /\ lost \subseteq Workers
      /\ wpc \in [Workers -> WorkerStates]
      /\ blk \in [Workers -> 0 .. Blocks - 1] /\ at \in [Workers -> Nat \ {0}]
      /\ \A w \in Workers : owned[w] # NoKey => owned[w] = Key(w) /\ wpc[w] \in Owning
  BY DEF Shape
<1>m. \A w \in Workers : Making(w)' <=> w \notin lost' /\ (owned'[w] # NoKey \/ wpc'[w] = "publish")
  BY DEF Making
<1>s. ASSUME UNCHANGED <<blk, at>> PROVE \A w \in Workers : Key(w)' = Key(w)
  BY <1>s DEF Key, Visit
<1>u. /\ \A w \in Workers : Making(w) => table[Key(w)] = "making" /\ AtWork(w)
      /\ \A w, v \in Workers : Making(w) /\ Making(v) /\ Key(w) = Key(v) => w = v
  BY <1>t DEF SlotInv, Making, AtWork, Owning
<1>r. \A k : /\ Referrers(k) = Waiters(k) \cup {v \in Workers : owned[v] = k \/ (wpc[v] = "publish" /\ Key(v) = k)}
             /\ \A v \in Waiters(k) : v \in Workers /\ Key(v) = k /\ ~Making(v)
  BY <1>t DEF Referrers, Waiters, Making, Owning
<1>1. ASSUME NEW w \in Workers, Moves(w) PROVE SlotInv'
  <2>1. UNCHANGED <<table, owned, lost, blk, at>>
    BY <1>1 DEF Moves
  <2>2. \A v \in Workers : wpc'[v] = "publish" <=> wpc[v] = "publish"
    BY <1>1, <1>t DEF Moves
  <2>3. \A v \in Workers : Making(v)' <=> Making(v)
    BY <1>m, <2>1, <2>2 DEF Making
  <2>4. \A k \in Keys : table'[k] = "making" <=> table[k] = "making"
    BY <2>1
  <2>5. \A v \in Workers : Making(v)' => Key(v)' = Key(v)
    BY <1>s, <2>1
  <2> QED BY <2>3, <2>4, <2>5, KeepSlots
<1>2. ASSUME NEW w \in Workers, TakeBlock(w) PROVE SlotInv'
  <2>1. /\ UNCHANGED <<table, owned, lost>> /\ wpc' = [wpc EXCEPT ![w] = "visit"] /\ wpc[w] = "idle"
        /\ blk' = [blk EXCEPT ![w] = next] /\ at' = [at EXCEPT ![w] = 1]
    BY <1>2 DEF TakeBlock, Go, cacheVars
  <2>2. \A v \in Workers : Making(v)' <=> Making(v)
    BY <1>m, <1>t, <2>1 DEF Making
  <2>3. \A k \in Keys : table'[k] = "making" <=> table[k] = "making"
    BY <2>1
  <2>4. \A v \in Workers : Making(v)' => v # w
    BY <1>t, <1>m, <2>1 DEF Owning
  <2>5. \A v \in Workers : v # w => Key(v)' = Key(v)
    BY <1>t, <2>1 DEF Key, Visit
  <2> QED BY <2>2, <2>3, <2>4, <2>5, KeepSlots
<1>3. ASSUME NEW w \in Workers, UNCHANGED <<blk, at>>, NEW k \in Keys, NEW s,
             wpc' = [wpc EXCEPT ![w] = s], s # "publish",
             \A v \in Workers \ {w} : owned'[v] = owned[v],
             ~Making(w)',
             Making(w) => Key(w) = k,
             \A v \in Workers : Making(v) /\ Key(v) = k => v = w,
             table' = [table EXCEPT ![k] = "absent"] \/ table' = [table EXCEPT ![k] = "full"],
             \A v \in Workers \ {w} : Making(v) \/ v \notin lost' => (v \in lost <=> v \in lost')
      PROVE  SlotInv'
  <2>1. \A v \in Workers \ {w} : wpc'[v] = wpc[v]
    BY <1>3, <1>t
  <2>2. \A v \in Workers \ {w} : Making(v)' <=> Making(v) /\ Key(v) # k
    BY <1>3, <1>m, <2>1 DEF Making
  <2>3. \A v \in Workers : Making(v)' <=> Making(v) /\ Key(v) \notin {k}
    BY <1>3, <2>2
  <2>4. \A j \in Keys : table'[j] = "making" <=> table[j] = "making" /\ j \notin {k}
    BY <1>3, <1>t
  <2> QED BY <1>3, <1>s, <2>3, <2>4, ClearSlots
<1>4. ASSUME NEW w \in Workers, UNCHANGED <<table, blk, at>>, NEW s,
             wpc' = [wpc EXCEPT ![w] = s],
             \A v \in Workers \ {w} : owned'[v] = owned[v] /\ (v \in lost <=> v \in lost'),
             Making(w)' <=> Making(w)
      PROVE  SlotInv'
  <2>1. \A v \in Workers \ {w} : wpc'[v] = wpc[v]
    BY <1>4, <1>t
  <2>2. \A v \in Workers : Making(v)' <=> Making(v)
    BY <1>4, <1>m, <2>1 DEF Making
  <2>3. \A j \in Keys : table'[j] = "making" <=> table[j] = "making"
    BY <1>4
  <2> QED BY <1>4, <1>s, <2>2, <2>3, KeepSlots
<1>5. ASSUME NEW w \in Workers, Acquire(w) PROVE SlotInv'
  <2>0. /\ UNCHANGED <<blk, at>> /\ wpc[w] = "acquire" /\ owned[w] = NoKey /\ ~Making(w) /\ Key(w) \in Keys
    BY <1>5, <1>k, <1>t DEF Acquire, AtWork, Making, Owning
  <2>1. CASE /\ table[Key(w)] = "absent" /\ table' = [table EXCEPT ![Key(w)] = "making"]
             /\ owned' = [owned EXCEPT ![w] = Key(w)] /\ lost' = lost \ {w} /\ Go(w, "compute")
    <3>1. wpc' = [wpc EXCEPT ![w] = "compute"]
      BY <2>1 DEF Go
    <3>2. Making(w)' /\ \A v \in Workers \ {w} : Making(v)' <=> Making(v)
      BY <1>m, <1>n, <1>t, <2>0, <2>1, <3>1 DEF Making
    <3>3. \A v \in Workers : Making(v) => Key(v) # Key(w)
      BY <1>u, <2>1
    <3>4. \A v \in Workers : Key(v)' = Key(v)
      BY <1>s, <2>0
    <3>5. table'[Key(w)] = "making" /\ \A j \in Keys \ {Key(w)} : table'[j] = table[j]
      BY <1>t, <2>0, <2>1
    <3>6. \A v \in Workers : Making(v)' => table'[Key(v)'] = "making"
      BY <1>k, <1>u, <3>2, <3>3, <3>4, <3>5
    <3>7. \A v, u \in Workers : Making(v)' /\ Making(u)' /\ Key(v)' = Key(u)' => v = u
      BY <1>u, <3>2, <3>3, <3>4
    <3>8. ASSUME NEW j \in Keys, table'[j] = "making" PROVE \E v \in Workers : Making(v)' /\ Key(v)' = j
      <4>1. CASE j = Key(w)
        BY <3>2, <3>4, <4>1
      <4>2. CASE j # Key(w)
        <5>1. PICK v \in Workers : Making(v) /\ Key(v) = j
          BY <3>5, <3>8, <4>2 DEF SlotInv
        <5> QED BY <3>2, <3>4, <4>2, <5>1
      <4> QED BY <4>1, <4>2
    <3> QED BY <3>6, <3>7, <3>8 DEF SlotInv
  <2>2. CASE /\ lost' = lost \ {w} /\ Go(w, "wait") /\ UNCHANGED <<table, owned>>
    <3>1. ~Making(w)'
      BY <1>m, <1>t, <2>0, <2>2 DEF Go
    <3> QED BY <1>4, <2>0, <2>2, <3>1 DEF Go
  <2>3. CASE table[Key(w)] = "full" /\ Remove(Key(w)) /\ Go(w, "leave") /\ UNCHANGED owned
    <3>1. \A v \in Workers : Making(v) => Key(v) # Key(w)
      BY <1>u, <2>3
    <3>2. /\ table' = [table EXCEPT ![Key(w)] = "absent"] /\ lost' = lost \cup Referrers(Key(w))
          /\ wpc' = [wpc EXCEPT ![w] = "leave"]
      BY <2>3 DEF Remove, Go
    <3>3. ~Making(w)'
      BY <1>m, <1>t, <2>0, <2>3, <3>2
    <3>4. \A v \in Workers : Making(v) => v \notin Referrers(Key(w))
      BY <1>r, <1>t, <1>n, <2>0, <3>1
    <3> QED BY <1>3, <2>0, <2>3, <3>1, <3>2, <3>3, <3>4
  <2> QED BY <1>5, <2>1, <2>2, <2>3 DEF Acquire
<1>6. ASSUME NEW w \in Workers, Woken(w) PROVE SlotInv'
  <2>0. /\ UNCHANGED <<blk, at, owned>> /\ owned[w] = NoKey /\ ~Making(w) /\ Key(w) \in Keys
        /\ wpc[w] = "wait"
    BY <1>6, <1>k, <1>t DEF Woken, AtWork, Making, Owning, blockVars
  <2>1. CASE /\ table[Key(w)] = "full" /\ table' = [table EXCEPT ![Key(w)] = "absent"]
             /\ lost' = lost \cup (Referrers(Key(w)) \ {w}) /\ Go(w, "leave")
    <3>1. \A v \in Workers : Making(v) => Key(v) # Key(w)
      BY <1>u, <2>1
    <3>2. wpc' = [wpc EXCEPT ![w] = "leave"]
      BY <2>1 DEF Go
    <3>3. ~Making(w)'
      BY <1>m, <1>t, <2>0, <3>2
    <3>4. \A v \in Workers : Making(v) => v \notin Referrers(Key(w))
      BY <1>r, <1>t, <1>n, <2>0, <3>1
    <3> QED BY <1>3, <2>0, <2>1, <3>1, <3>2, <3>3, <3>4
  <2>2. CASE lost' = lost \ {w} /\ Go(w, "compute") /\ UNCHANGED table
    <3>1. ~Making(w)'
      BY <1>m, <1>t, <2>0, <2>2 DEF Go
    <3> QED BY <1>4, <2>0, <2>2, <3>1 DEF Go
  <2> QED BY <1>6, <2>1, <2>2 DEF Woken
<1>7. ASSUME NEW w \in Workers, Decide(w) PROVE SlotInv'
  <2>0. /\ UNCHANGED <<blk, at>> /\ owned[w] # NoKey /\ owned' = [owned EXCEPT ![w] = NoKey]
        /\ Key(w) \in Keys /\ wpc[w] = "publish?" /\ (Making(w) <=> w \notin lost)
    BY <1>7, <1>k, <1>t DEF Decide, AtWork, Making, PublishOwns, blockVars
  <2>1. CASE Go(w, "publish") /\ UNCHANGED <<table, lost>>
    <3>1. Making(w)' <=> Making(w)
      BY <1>m, <1>t, <2>0, <2>1 DEF Go
    <3> QED BY <1>4, <1>t, <2>0, <2>1, <3>1 DEF Go
  <2>2. CASE w \in lost /\ UNCHANGED table /\ lost' = (lost \cup {}) \ {w} /\ Go(w, "leave")
    <3>1. ~Making(w)' /\ ~Making(w)
      BY <1>m, <1>t, <2>0, <2>2 DEF Go
    <3> QED BY <1>4, <1>t, <2>0, <2>2, <3>1 DEF Go
  <2>3. CASE /\ w \notin lost /\ table' = [table EXCEPT ![Key(w)] = "absent"]
             /\ lost' = (lost \cup Waiters(Key(w))) \ {w} /\ Go(w, "leave")
    <3>1. wpc' = [wpc EXCEPT ![w] = "leave"]
      BY <2>3 DEF Go
    <3>2. ~Making(w)' /\ Making(w)
      BY <1>m, <1>t, <2>0, <2>3, <3>1
    <3>3. \A v \in Workers : Making(v) /\ Key(v) = Key(w) => v = w
      BY <1>u, <3>2
    <3>4. \A v \in Workers : Making(v) => v \notin Waiters(Key(w))
      BY <1>r
    <3> QED BY <1>3, <1>t, <2>0, <2>3, <3>1, <3>2, <3>3, <3>4
  <2> QED BY <1>7, <2>1, <2>2, <2>3 DEF Decide
<1>8. ASSUME NEW w \in Workers, Store(w) PROVE SlotInv'
  <2>0. /\ UNCHANGED <<blk, at, owned>> /\ owned[w] = NoKey /\ Key(w) \in Keys
        /\ wpc' = [wpc EXCEPT ![w] = "leave"] /\ lost' = lost \ {w} /\ (Making(w) <=> w \notin lost)
    BY <1>8, <1>k, <1>t DEF Store, AtWork, Making, Owning, blockVars, Go
  <2>1. ~Making(w)'
    BY <1>m, <1>t, <2>0
  <2>2. CASE w \in lost /\ UNCHANGED table
    BY <1>4, <2>0, <2>1, <2>2
  <2>3. CASE w \notin lost /\ table' = [table EXCEPT ![Key(w)] = "full"]
    <3>1. \A v \in Workers : Making(v) /\ Key(v) = Key(w) => v = w
      BY <1>u, <2>0, <2>3
    <3> QED BY <1>3, <2>0, <2>1, <2>3, <3>1
  <2> QED BY <1>8, <2>2, <2>3 DEF Store
<1>9. ASSUME NEW w \in Workers, BeforeWait(w) \/ EndVisit(w) PROVE SlotInv'
  <2>0. /\ Abandon(w) /\ blk' = blk /\ (at' = at \/ at' = [at EXCEPT ![w] = @ + 1])
        /\ \E s \in {"drain", "visit"} : wpc' = [wpc EXCEPT ![w] = s]
        /\ wpc[w] \in {"before", "abandon"} /\ Key(w) \in Keys
    BY <1>9, <1>k DEF BeforeWait, EndVisit, Go, AtWork, blockVars
  <2>1. /\ owned' = [owned EXCEPT ![w] = NoKey]
        /\ \A v \in Workers \ {w} : wpc'[v] = wpc[v] /\ owned'[v] = owned[v] /\ Key(v)' = Key(v)
        /\ wpc'[w] # "publish" /\ wpc[w] # "publish"
    BY <1>t, <2>0 DEF Abandon, Key, Visit
  <2>2. ~Making(w)'
    BY <1>m, <1>t, <2>1
  <2>3. CASE (owned[w] = NoKey \/ w \in lost) /\ lost' = lost \ {w} /\ UNCHANGED table
    <3>1. ~Making(w)
      BY <2>1, <2>3 DEF Making
    <3>2. \A v \in Workers : Making(v)' <=> Making(v)
      BY <1>m, <2>1, <2>2, <2>3, <3>1 DEF Making
    <3>3. \A j \in Keys : table'[j] = "making" <=> table[j] = "making"
      BY <2>3
    <3> QED BY <2>1, <2>2, <3>2, <3>3, KeepSlots
  <2>4. CASE /\ owned[w] # NoKey /\ w \notin lost
             /\ table' = [table EXCEPT ![owned[w]] = "absent"] /\ lost' = lost \cup Waiters(owned[w])
    <3>1. Making(w) /\ owned[w] = Key(w)
      BY <1>t, <2>4 DEF Making
    <3>2. \A v \in Workers : Making(v) => v \notin Waiters(Key(w))
      BY <1>r
    <3>3. \A v \in Workers : Making(v)' <=> Making(v) /\ Key(v) \notin {Key(w)}
      BY <1>m, <1>u, <2>1, <2>2, <2>4, <3>1, <3>2 DEF Making
    <3>4. \A j \in Keys : table'[j] = "making" <=> table[j] = "making" /\ j \notin {Key(w)}
      BY <1>t, <2>0, <2>4, <3>1
    <3> QED BY <2>1, <2>2, <3>3, <3>4, ClearSlots
  <2> QED BY <2>0, <2>3, <2>4 DEF Abandon
<1>10. CASE Settle
  <2> DEFINE S == Before((settled + 1) * PerChunk - 1)
             R == {j \in S : table[j] # "absent"}
  <2>1. /\ UNCHANGED <<owned, wpc, blk, at>>
        /\ table' = [k \in Keys |-> IF k \in S THEN "absent" ELSE table[k]]
        /\ lost' = lost \cup UNION {Referrers(k) : k \in R}
    BY <1>10 DEF Settle, Drop
  <2> HIDE DEF S
  <2>2. ASSUME NEW v \in Workers, Making(v) PROVE v \notin lost' <=> Key(v) \notin S
    <3>1. Key(v) \in S => Key(v) \in R /\ v \in Referrers(Key(v))
      BY <1>r, <1>t, <1>u, <2>2 DEF Making
    <3>2. ASSUME NEW k \in R, v \in Referrers(k), Key(v) \notin S PROVE FALSE
      <4>1. k \in S
        OBVIOUS
      <4>2. Key(v) = k \/ owned[v] = k
        BY <1>r, <3>2
      <4>3. owned[v] = k => Key(v) = k \/ k = NoKey
        BY <1>t
      <4>4. S \subseteq Keys
        BY DEF S, Before
      <4> QED BY <1>n, <3>2, <4>1, <4>2, <4>3, <4>4
    <3> QED BY <2>1, <2>2, <3>1, <3>2 DEF Making
  <2>3. \A v \in Workers : Making(v)' <=> Making(v) /\ Key(v) \notin S
    BY <1>m, <2>1, <2>2 DEF Making
  <2>4. \A j \in Keys : table'[j] = "making" <=> table[j] = "making" /\ j \notin S
    BY <2>1
  <2> QED BY <1>s, <2>1, <2>3, <2>4, ClearSlots
<1>11. CASE Pause \/ Requeue \/ Stop \/ UNCHANGED vars
  <2>1. UNCHANGED <<table, owned, lost, wpc, blk, at>>
    BY <1>11 DEF Pause, Requeue, Stop, vars, cacheVars, blockVars
  <2>2. \A v \in Workers : Making(v)' <=> Making(v)
    BY <1>m, <2>1 DEF Making
  <2>3. \A j \in Keys : table'[j] = "making" <=> table[j] = "making"
    BY <2>1
  <2> QED BY <1>s, <2>1, <2>2, <2>3, KeepSlots
<1> QED BY <1>1, <1>2, <1>5, <1>6, <1>7, <1>8, <1>9, <1>10, <1>11, MoveKinds DEF Next, Worker

\* The invariant of the slots.
SlotsSound == Shape /\ PublishOwns /\ SlotInv

\* The first state has no slots, and every step keeps them sound.
LEMMA SlotsHold == Spec => []SlotsSound
<1>1. Init => SlotsSound
  <2> SUFFICES ASSUME Init PROVE SlotsSound
    OBVIOUS
  <2>1. 0 \in 0 .. Blocks - 1
    BY DedupAssumption DEF DedupAssumption
  <2>2. Shape
    BY <2>1 DEF Init, Shape, AtWork, WorkerStates
  <2>3. \A w \in Workers : ~Making(w) /\ wpc[w] = "idle"
    BY DEF Init, Making
  <2>4. \A k \in Keys : table[k] = "absent"
    BY DEF Init
  <2> QED BY <2>2, <2>3, <2>4 DEF SlotsSound, PublishOwns, SlotInv
<1>2. SlotsSound /\ [Next]_vars => SlotsSound'
  BY ShapeStep, PublishOwnsStep, SlotStep DEF SlotsSound
<1> QED BY <1>1, <1>2, PTL DEF Spec

\* Whoever waits for a slot waits for a worker that computes or stores it
\* (StabRawCache.acquire, publish, abandon and drop).
THEOREM SlotsHaveProducers == Spec => []NoOrphanedSlot
<1>1. SlotsSound => NoOrphanedSlot
  <2> SUFFICES ASSUME SlotsSound, NEW k \in Keys, table[k] = "making"
               PROVE  \E w \in Workers : w \notin lost /\ (owned[w] = k \/ (wpc[w] = "publish" /\ Key(w) = k))
    BY DEF NoOrphanedSlot
  <2>1. PICK w \in Workers : Making(w) /\ Key(w) = k
    BY DEF SlotsSound, SlotInv
  <2> QED BY <2>1 DEF SlotsSound, Shape, Making
<1> QED BY <1>1, SlotsHold, PTL

\* The workers that have looked at the ceiling and have not yet counted their entry.
Storing == {w \in Workers : wpc[w] = "publish"}

\* What is counted and what is about to be.
CeilingInv == live + Cardinality(Storing) <= Cap + Width - 1

\* The workers are Width, and those that store are some of them.
LEMMA StoringCounted ==
    /\ \A S \in SUBSET Workers : IsFiniteSet(S) /\ Cardinality(S) \in 0 .. Width
    /\ Width \in Nat \ {0} /\ Cap \in Nat
<1>1. Width \in Nat \ {0} /\ Cap \in Nat
  BY DedupAssumption DEF DedupAssumption
<1>2. IsFiniteSet(Workers) /\ Cardinality(Workers) = Width
  <2>1. 0 \in Int /\ Width - 1 \in Int
    BY <1>1
  <2> QED BY <1>1, <2>1, FS_Interval DEF Workers
<1>3. ASSUME NEW S \in SUBSET Workers PROVE IsFiniteSet(S) /\ Cardinality(S) \in 0 .. Width
  <2>1. IsFiniteSet(S) /\ Cardinality(S) <= Width
    BY <1>2, FS_Subset
  <2> QED BY <1>1, <2>1, FS_CardinalityType
<1> QED BY <1>1, <1>3

\* A worker passes the ceiling only on a count that was below it.
LEMMA CeilingStep == Shape /\ CeilingInv /\ [Next]_vars => CeilingInv'
<1> SUFFICES ASSUME Shape, CeilingInv, [Next]_vars PROVE CeilingInv'
  OBVIOUS
<1>t. wpc \in [Workers -> WorkerStates] /\ live \in Int
  BY DEF Shape
<1>c. /\ Width \in Nat \ {0} /\ Cap \in Nat
      /\ \A S \in SUBSET Workers : IsFiniteSet(S) /\ Cardinality(S) \in 0 .. Width
  BY StoringCounted
<1>d. Storing \in SUBSET Workers /\ Storing' \in SUBSET Workers
  BY DEF Storing, Workers
<1>e. live + Cardinality(Storing) <= Cap + Width - 1
  BY DEF CeilingInv
<1>1. ASSUME Storing' = Storing, live' \in Int, live' <= live PROVE CeilingInv'
  BY <1>1, <1>c, <1>d, <1>e, <1>t DEF CeilingInv
<1>2. ASSUME NEW w \in Workers, NEW s, wpc' = [wpc EXCEPT ![w] = s], wpc[w] # "publish", s # "publish"
      PROVE  Storing' = Storing
  BY <1>2, <1>t DEF Storing
<1>3. ASSUME NEW w \in Workers, Moves(w) PROVE CeilingInv'
  <2>1. live' = live /\ Storing' = Storing
    BY <1>2, <1>3 DEF Moves
  <2> QED BY <1>1, <1>t, <2>1
<1>4. ASSUME NEW w \in Workers, TakeBlock(w) \/ BeforeWait(w) \/ EndVisit(w) PROVE CeilingInv'
  <2>1. /\ live' = live /\ wpc[w] # "publish"
        /\ \E s \in {"visit", "drain"} : wpc' = [wpc EXCEPT ![w] = s]
    BY <1>4 DEF TakeBlock, BeforeWait, EndVisit, Go, cacheVars
  <2>2. Storing' = Storing
    BY <1>2, <2>1
  <2> QED BY <1>1, <1>t, <2>1, <2>2
<1>5. ASSUME NEW w \in Workers, Acquire(w) \/ Woken(w) PROVE CeilingInv'
  <2>1. /\ live' = live \/ live' = live - 1
        /\ wpc[w] # "publish"
        /\ \E s \in {"compute", "wait", "leave"} : wpc' = [wpc EXCEPT ![w] = s]
    BY <1>5 DEF Acquire, Woken, Go
  <2>2. Storing' = Storing
    BY <1>2, <2>1
  <2> QED BY <1>1, <1>t, <2>1, <2>2
<1>6. ASSUME NEW w \in Workers, Decide(w) PROVE CeilingInv'
  <2>1. CASE live + 1 > Cap
    <3>1. live' = live /\ wpc[w] # "publish" /\ wpc' = [wpc EXCEPT ![w] = "leave"]
      BY <1>6, <2>1 DEF Decide, Go
    <3>2. Storing' = Storing
      BY <1>2, <3>1
    <3> QED BY <1>1, <1>t, <3>1, <3>2
  <2>2. CASE ~(live + 1 > Cap)
    <3>1. live' = live
      BY <1>6 DEF Decide
    <3>2. Cardinality(Storing') \in 0 .. Width
      BY <1>c, <1>d
    <3> QED BY <1>c, <1>t, <2>2, <3>1, <3>2 DEF CeilingInv
  <2> QED BY <2>1, <2>2
<1>7. ASSUME NEW w \in Workers, Store(w) PROVE CeilingInv'
  <2>1. live' = live + 1 /\ wpc[w] = "publish" /\ wpc' = [wpc EXCEPT ![w] = "leave"]
    BY <1>7 DEF Store, Go
  <2>2. w \in Storing /\ Storing' = Storing \ {w}
    BY <1>t, <2>1 DEF Storing
  <2>3. Cardinality(Storing') = Cardinality(Storing) - 1
    BY <1>c, <1>d, <2>2, FS_RemoveElement
  <2>4. Cardinality(Storing) \in Int
    BY <1>c, <1>d
  <2> QED BY <1>c, <1>e, <1>t, <2>1, <2>3, <2>4 DEF CeilingInv
<1>8. CASE Settle
  <2> DEFINE F == {k \in Before((settled + 1) * PerChunk - 1) : table[k] = "full"}
  <2>1. live' = live - Cardinality(F) /\ Storing' = Storing
    BY <1>8 DEF Settle, Drop, Storing
  <2>2. F \in SUBSET Keys
    BY DEF Before
  <2>3. Cardinality(F) \in Nat
    BY <2>2, KeysFinite
  <2> HIDE DEF F
  <2>4. live' \in Int /\ live' <= live
    BY <1>t, <2>1, <2>3
  <2> QED BY <1>1, <2>1, <2>4
<1>9. CASE Pause \/ Requeue \/ Stop \/ UNCHANGED vars
  <2>1. live' = live /\ Storing' = Storing
    BY <1>9 DEF Pause, Requeue, Stop, vars, cacheVars, Storing
  <2> QED BY <1>1, <1>t, <2>1
<1> QED BY <1>3, <1>4, <1>5, <1>6, <1>7, <1>8, <1>9, MoveKinds DEF Next, Worker

\* The entries in memory pass max_bytes by one for every other worker at most, whatever
\* is published at the same time (StabRawCache.publish decides and counts in two steps).
THEOREM CeilingHeld == Spec => []CeilingNearlyKept
<1>1. Init => CeilingInv
  <2> SUFFICES ASSUME Init PROVE CeilingInv
    OBVIOUS
  <2>1. Storing = {} /\ live = 0
    BY DEF Init, Storing
  <2>2. Cardinality(Storing) = 0
    BY <2>1, FS_EmptySet
  <2> QED BY <2>1, <2>2, StoringCounted DEF CeilingInv
<1>2. SlotsSound /\ CeilingInv /\ [Next]_vars => CeilingInv'
  BY CeilingStep DEF SlotsSound
<1>3. SlotsSound /\ CeilingInv => CeilingNearlyKept
  <2> SUFFICES ASSUME SlotsSound, CeilingInv PROVE CeilingNearlyKept
    OBVIOUS
  <2>1. Storing \in SUBSET Workers
    BY DEF Storing
  <2>2. Cardinality(Storing) \in Nat /\ live \in Int /\ Width \in Nat /\ Cap \in Nat
    BY <2>1, StoringCounted DEF SlotsSound, Shape
  <2> QED BY <2>2 DEF CeilingInv, CeilingNearlyKept
<1> QED BY <1>1, <1>2, <1>3, SlotsHold, PTL DEF Spec

(***************************************************************************)
(* The bytes are counted exactly.  A store, or a drop of one's own slot,   *)
(* counts only if the slot is still in the table, so it matters that no    *)
(* producer ever loses its slot: the coordinator drops only what blocks    *)
(* before the ones in work have visited.                                   *)
(***************************************************************************)

\* A block visits no more frames than it shares with two neighbours, and none that
\* was shared before its own warm-up.
LEMMA VisitPlaces ==
    ASSUME NEW b \in 0 .. Blocks - 1
    PROVE  /\ Len(Visits(b)) \in 0 .. 2 * WarmUp
           /\ \A i \in Nat \ {0} : i <= Len(Visits(b)) => KeyAt(b, i) \div WarmUp >= b - 1
<1> DEFINE S == {b - 1, b} \cap 0 .. Blocks - 2
           n == WarmUp * Cardinality(S)
<1>0. Blocks \in Nat \ {0} /\ WarmUp \in Nat \ {0} /\ b \in Nat /\ b - 1 # b
  BY DedupAssumption DEF DedupAssumption
<1>1. Cardinality(S) \in {0, 1, 2}
  <2>1. IsFiniteSet({b - 1}) /\ Cardinality({b - 1}) = 1 /\ Cardinality({b}) = 1 /\ Cardinality({}) = 0
    BY FS_EmptySet, FS_Singleton
  <2>2. Cardinality({b - 1} \cup {b}) = Cardinality({b - 1}) + 1
    BY <1>0, <2>1, FS_AddElement
  <2>3. {b - 1} \cup {b} = {b - 1, b}
    OBVIOUS
  <2>4. Cardinality({b - 1, b}) = 2
    BY <2>1, <2>2, <2>3
  <2>5. S = {} \/ S = {b - 1} \/ S = {b} \/ S = {b - 1, b}
    OBVIOUS
  <2> HIDE DEF S
  <2> QED BY <2>1, <2>4, <2>5
<1> HIDE DEF S
<1>2. n \in 0 .. 2 * WarmUp
  BY <1>0, <1>1
<1>3. Len(Visits(b)) = n
  BY <1>2 DEF Visits, S
<1> HIDE DEF n
<1>4. ASSUME NEW k \in Int, NEW c \in Int, c * WarmUp <= k PROVE k \div WarmUp >= c
  <2> DEFINE d == k \div WarmUp
             r == k % WarmUp
  <2>1. d \in Int /\ r \in 0 .. WarmUp - 1 /\ k = WarmUp * d + r
    BY <1>0
  <2> HIDE DEF d, r
  <2>2. ASSUME d <= c - 1 PROVE FALSE
    <3>1. WarmUp * d <= WarmUp * (c - 1) /\ WarmUp * (c - 1) = c * WarmUp - WarmUp
      BY <1>0, <2>1, <2>2
    <3>2. c * WarmUp \in Int /\ WarmUp * d \in Int
      BY <1>0, <2>1
    <3> QED BY <1>0, <1>4, <2>1, <3>1, <3>2
  <2>3. d >= c
    BY <2>1, <2>2
  <2> QED BY <2>3 DEF d
<1>5. ASSUME NEW i \in Nat \ {0}, i <= n PROVE KeyAt(b, i) \div WarmUp >= b - 1
  <2>1. i \in 1 .. n /\ KeyAt(b, i) = IF b > 0 /\ i <= WarmUp THEN (b - 1) * WarmUp + i - 1
                                      ELSE b * WarmUp + ((i - 1) % WarmUp)
    BY <1>2, <1>5 DEF KeyAt, Visits, S, n
  <2>2. (i - 1) % WarmUp \in Nat
    BY <1>0, <1>5
  <2>3. (b - 1) * WarmUp \in Int /\ b * WarmUp \in Int /\ (b - 1) * WarmUp <= b * WarmUp
    BY <1>0
  <2>4. KeyAt(b, i) \in Int /\ (b - 1) * WarmUp <= KeyAt(b, i)
    BY <1>0, <1>5, <2>1, <2>2, <2>3
  <2> QED BY <1>0, <1>4, <2>4
<1> QED BY <1>2, <1>3, <1>5

\* The blocks: those in work are neither settled nor finished, and nobody shares one.
BlockInv ==
    /\ next \in 0 .. Blocks /\ finished \subseteq 0 .. next - 1
    /\ settled * PerChunk <= next \/ next = Blocks
    /\ \A w \in Workers : wpc[w] # "idle" =>
          settled * PerChunk <= blk[w] /\ blk[w] < next /\ blk[w] \notin finished
    /\ \A w, v \in Workers : wpc[w] # "idle" /\ wpc[v] # "idle" /\ blk[w] = blk[v] => w = v
    /\ pausing => settled * PerChunk < Blocks

\* A retired chunk is finished, so nobody works in it.
LEMMA ChunkOver ==
    ASSUME Shape, BlockInv, ChunkBlocks(settled) \subseteq finished
    PROVE  /\ \A w \in Workers : wpc[w] # "idle" => (settled + 1) * PerChunk <= blk[w]
           /\ (settled + 1) * PerChunk <= next \/ next = Blocks
<1>0. PerChunk \in Nat \ {0} /\ settled \in Nat /\ Blocks \in Nat
  BY DedupAssumption DEF DedupAssumption, Shape
<1>1. PICK a \in Nat, e \in Nat : a = settled * PerChunk /\ e = (settled + 1) * PerChunk /\ e = a + PerChunk
  BY <1>0
<1>2. \A b \in 0 .. Blocks - 1 : a <= b /\ b < e => b \in finished
  BY <1>0, <1>1 DEF ChunkBlocks
<1>3. \A w \in Workers : wpc[w] # "idle" => e <= blk[w]
  <2> SUFFICES ASSUME NEW w \in Workers, wpc[w] # "idle" PROVE e <= blk[w]
    OBVIOUS
  <2>1. blk[w] \in 0 .. Blocks - 1 /\ a <= blk[w] /\ blk[w] \notin finished
    BY <1>1 DEF BlockInv, Shape
  <2> QED BY <1>0, <1>1, <1>2, <2>1
<1>4. e <= next \/ next = Blocks
  <2>1. next \in 0 .. Blocks /\ finished \subseteq 0 .. next - 1 /\ (a <= next \/ next = Blocks)
    BY <1>1 DEF BlockInv
  <2>2. next \notin finished
    BY <1>0, <2>1
  <2> QED BY <1>0, <1>1, <1>2, <2>1, <2>2
<1> QED BY <1>1, <1>3, <1>4

\* Every step keeps the blocks apart.
LEMMA BlockStep == Shape /\ BlockInv /\ [Next]_vars => BlockInv'
<1> SUFFICES ASSUME Shape, BlockInv, [Next]_vars PROVE BlockInv'
  OBVIOUS
<1>c. Blocks \in Nat \ {0} /\ PerChunk \in Nat \ {0} /\ settled \in Nat
  BY DedupAssumption DEF DedupAssumption, Shape
<1>t. wpc \in [Workers -> WorkerStates] /\ blk \in [Workers -> 0 .. Blocks - 1]
  BY DEF Shape
<1>p. PICK a \in Nat, e \in Nat : a = settled * PerChunk /\ e = (settled + 1) * PerChunk /\ e = a + PerChunk
  BY <1>c
<1>b. /\ next \in 0 .. Blocks /\ finished \subseteq 0 .. next - 1
      /\ a <= next \/ next = Blocks
      /\ \A w \in Workers : wpc[w] # "idle" => a <= blk[w] /\ blk[w] < next /\ blk[w] \notin finished
      /\ \A w, v \in Workers : wpc[w] # "idle" /\ wpc[v] # "idle" /\ blk[w] = blk[v] => w = v
      /\ pausing => a < Blocks
  BY <1>p DEF BlockInv
<1>1. ASSUME UNCHANGED <<blk, next, finished, settled>>, pausing' = pausing \/ a < Blocks,
             \A w \in Workers : wpc'[w] = "idle" <=> wpc[w] = "idle"
      PROVE  BlockInv'
  BY <1>1, <1>b, <1>p DEF BlockInv
<1>2. ASSUME NEW w \in Workers, NEW s, wpc' = [wpc EXCEPT ![w] = s], s # "idle", wpc[w] # "idle",
             UNCHANGED <<blk, next, finished, settled, pausing>>
      PROVE  BlockInv'
  <2>1. \A v \in Workers : wpc'[v] = "idle" <=> wpc[v] = "idle"
    BY <1>2, <1>t
  <2> QED BY <1>1, <1>2, <2>1
<1>3. ASSUME NEW w \in Workers,
             Enter(w) \/ Compute(w) \/ Leave(w) \/ OutOfMemory(w) \/ Alone(w) \/ Store(w)
      PROVE  BlockInv'
  <2>1. /\ UNCHANGED <<blk, next, finished, settled, pausing>> /\ wpc[w] # "idle"
        /\ \E s \in WorkerStates \ {"idle"} : wpc' = [wpc EXCEPT ![w] = s]
    BY <1>3 DEF Enter, Compute, Leave, OutOfMemory, Alone, Store, Go, WorkerStates, blockVars, runVars
  <2> QED BY <1>2, <2>1
<1>4. ASSUME NEW w \in Workers, Acquire(w) \/ Woken(w) \/ Decide(w) \/ BeforeWait(w) \/ EndVisit(w)
      PROVE  BlockInv'
  <2>1. /\ UNCHANGED <<blk, next, finished, settled, pausing>> /\ wpc[w] # "idle"
        /\ \E s \in WorkerStates \ {"idle"} : wpc' = [wpc EXCEPT ![w] = s]
    BY <1>4 DEF Acquire, Woken, Decide, BeforeWait, EndVisit, Go, WorkerStates, blockVars, runVars
  <2> QED BY <1>2, <2>1
<1>5. ASSUME NEW w \in Workers, TakeBlock(w) PROVE BlockInv'
  <2>1. /\ next < Blocks /\ blk' = [blk EXCEPT ![w] = next] /\ next' = next + 1
        /\ wpc' = [wpc EXCEPT ![w] = "visit"] /\ UNCHANGED <<finished, settled, pausing>>
    BY <1>5 DEF TakeBlock, Go, runVars
  <2>2. next \notin finished /\ a <= next /\ next \in 0 .. Blocks - 1
    BY <1>b, <1>c, <2>1
  <2>3. \A v \in Workers : v # w => blk'[v] = blk[v] /\ wpc'[v] = wpc[v]
    BY <1>t, <2>1
  <2>4. blk'[w] = next /\ wpc'[w] = "visit"
    BY <1>t, <2>1
  <2>5. next' \in 0 .. Blocks /\ finished' \subseteq 0 .. next' - 1 /\ a <= next'
    BY <1>b, <1>c, <1>p, <2>1, <2>2
  <2>6. ASSUME NEW v \in Workers, wpc'[v] # "idle"
        PROVE  a <= blk'[v] /\ blk'[v] < next' /\ blk'[v] \notin finished'
    <3>1. CASE v = w
      BY <2>1, <2>2, <2>4, <3>1
    <3>2. CASE v # w
      BY <1>b, <1>t, <2>1, <2>3, <2>6, <3>2
    <3> QED BY <3>1, <3>2
  <2>7. ASSUME NEW v \in Workers, NEW u \in Workers, wpc'[v] # "idle", wpc'[u] # "idle",
               blk'[v] = blk'[u]
        PROVE  v = u
    <3>1. \A x \in Workers : x # w /\ wpc'[x] # "idle" => blk'[x] < next
      BY <1>b, <2>3
    <3> QED BY <1>b, <2>3, <2>4, <2>7, <3>1
  <2> QED BY <1>b, <1>p, <2>1, <2>5, <2>6, <2>7 DEF BlockInv
<1>6. ASSUME NEW w \in Workers, FinishBlock(w) PROVE BlockInv'
  <2>1. /\ finished' = finished \cup {blk[w]} /\ wpc' = [wpc EXCEPT ![w] = "idle"]
        /\ wpc[w] # "idle" /\ UNCHANGED <<blk, next, settled, pausing>>
    BY <1>6 DEF FinishBlock, Go, runVars
  <2>2. \A v \in Workers : wpc'[v] # "idle" => v # w /\ wpc[v] # "idle"
    BY <1>t, <2>1
  <2>3. blk[w] \in 0 .. next - 1
    BY <1>b, <1>t, <2>1
  <2> QED BY <1>b, <1>p, <2>1, <2>2, <2>3 DEF BlockInv
<1>7. CASE Settle
  <2>1. /\ ~pausing /\ pausing' = pausing /\ settled' = settled + 1
        /\ UNCHANGED <<wpc, blk, next, finished>> /\ ChunkBlocks(settled) \subseteq finished
    BY <1>7 DEF Settle, runVars
  <2>2. /\ \A w \in Workers : wpc[w] # "idle" => e <= blk[w]
        /\ e <= next \/ next = Blocks
    BY <1>p, <2>1, ChunkOver
  <2>3. settled' * PerChunk = e
    BY <1>p, <2>1
  <2> QED BY <1>b, <2>1, <2>2, <2>3 DEF BlockInv
<1>8. CASE Pause \/ Stop \/ UNCHANGED vars
  <2>1. /\ UNCHANGED <<wpc, blk, next, finished, settled>> /\ (pausing' = pausing \/ ~Over)
    BY <1>8 DEF Pause, Stop, vars, blockVars, runVars
  <2>2. ~Over => a < Blocks
    BY <1>c, <1>p DEF Over
  <2> QED BY <1>1, <2>1, <2>2
<1>9. CASE Requeue
  <2>1. /\ pausing /\ ~pausing' /\ UNCHANGED <<wpc, settled>> /\ \A w \in Workers : wpc[w] = "idle"
        /\ next' = a /\ finished' = {b \in finished : b < a}
    BY <1>9, <1>p DEF Requeue
  <2>2. next' \in 0 .. Blocks /\ finished' \subseteq 0 .. next' - 1
    <3>1. next' \in 0 .. Blocks
      BY <1>b, <1>c, <1>p, <2>1
    <3>2. \A b \in finished' : b \in Nat /\ b < a
      BY <1>b, <1>c, <2>1
    <3> QED BY <1>p, <2>1, <3>1, <3>2
  <2> QED BY <1>p, <2>1, <2>2 DEF BlockInv
<1> QED BY <1>3, <1>4, <1>5, <1>6, <1>7, <1>8, <1>9 DEF Next, Worker

\* Nobody loses the slot it computes or stores.
NeverLost == \A w \in Workers : owned[w] # NoKey \/ wpc[w] = "publish" => w \notin lost

\* A retired chunk takes no slot from the workers.
LEMMA DropSpares ==
    ASSUME Shape, BlockInv, ChunkBlocks(settled) \subseteq finished
    PROVE  \A w \in Workers : AtWork(w) => Key(w) \notin Before((settled + 1) * PerChunk - 1)
<1> SUFFICES ASSUME NEW w \in Workers, AtWork(w)
             PROVE  Key(w) \notin Before((settled + 1) * PerChunk - 1)
  OBVIOUS
<1>0. WarmUp \in Nat \ {0} /\ PerChunk \in Nat \ {0} /\ settled \in Nat
  BY DedupAssumption DEF DedupAssumption, Shape
<1>1. PICK e \in Nat : e = (settled + 1) * PerChunk
  BY <1>0
<1>2. blk[w] \in 0 .. Blocks - 1 /\ e <= blk[w]
  BY <1>1, ChunkOver DEF AtWork, Shape
<1>3. at[w] \in Nat \ {0} /\ at[w] <= Len(Visits(blk[w])) /\ Key(w) = KeyAt(blk[w], at[w])
  BY DEF Shape, AtWork, Key, Visit, KeyAt
<1>4. Key(w) \div WarmUp >= blk[w] - 1
  BY <1>2, <1>3, VisitPlaces
<1>5. Key(w) \in Keys
  BY WorkKeys
<1>6. Key(w) \div WarmUp \in Int
  BY <1>0, <1>5 DEF Keys
<1>7. ~(Key(w) \div WarmUp < e - 1)
  BY <1>1, <1>2, <1>4, <1>6
<1> QED BY <1>1, <1>7 DEF Before

\* Every step leaves the slots to their producers.
LEMMA NeverLostStep == SlotsSound /\ BlockInv /\ NeverLost /\ [Next]_vars => NeverLost'
<1> SUFFICES ASSUME Shape, PublishOwns, SlotInv, BlockInv, NeverLost, [Next]_vars PROVE NeverLost'
  BY DEF SlotsSound
<1>t. /\ owned \in [Workers -> Keys \cup {NoKey}] /\ lost \subseteq Workers
      /\ wpc \in [Workers -> WorkerStates]
      /\ \A w \in Workers : owned[w] # NoKey => owned[w] = Key(w) /\ wpc[w] \in Owning
  BY DEF Shape
<1>k. \A w \in Workers : AtWork(w) => Key(w) \in Keys
  BY WorkKeys
<1>n. NoKey \notin Keys
  BY NoKeyApart
<1>m. /\ \A w \in Workers : owned[w] # NoKey \/ wpc[w] = "publish" => Making(w)
      /\ \A w \in Workers : Making(w) => table[Key(w)] = "making"
  BY DEF Making, NeverLost, SlotInv
<1>r. \A k : /\ Referrers(k) = Waiters(k) \cup {v \in Workers : owned[v] = k \/ (wpc[v] = "publish" /\ Key(v) = k)}
             /\ \A v \in Waiters(k) : v \in Workers /\ owned[v] = NoKey /\ wpc[v] = "wait"
  BY <1>t DEF Referrers, Waiters, Owning
<1>f. ASSUME NEW k \in Keys, table[k] # "making", NEW v \in Referrers(k)
      PROVE  owned[v] = NoKey /\ wpc[v] # "publish"
  <2>1. \A u \in Workers : owned[u] # NoKey \/ wpc[u] = "publish" => Key(u) # k
    BY <1>f, <1>m
  <2> QED BY <1>f, <1>n, <1>r, <1>t, <2>1
<1>1. ASSUME NEW w \in Workers, NEW s, wpc' = [wpc EXCEPT ![w] = s],
             \A v \in Workers \ {w} : owned'[v] = owned[v],
             \A v \in Workers \ {w} : owned[v] # NoKey \/ wpc[v] = "publish" => (v \in lost' => v \in lost),
             owned'[w] # NoKey \/ s = "publish" => w \notin lost'
      PROVE  NeverLost'
  <2>1. \A v \in Workers \ {w} : wpc'[v] = wpc[v]
    BY <1>1, <1>t
  <2>2. wpc'[w] = s
    BY <1>1, <1>t
  <2> QED BY <1>1, <2>1, <2>2 DEF NeverLost
<1>2. ASSUME NEW w \in Workers, Moves(w) PROVE NeverLost'
  <2>1. UNCHANGED <<owned, lost>> /\ \E s \in WorkerStates : wpc' = [wpc EXCEPT ![w] = s] /\ s # "publish"
    BY <1>2 DEF Moves
  <2> QED BY <1>1, <2>1 DEF NeverLost
<1>3. ASSUME NEW w \in Workers, TakeBlock(w) \/ Store(w) PROVE NeverLost'
  <2>1. /\ owned' = owned /\ lost' \subseteq lost
        /\ \E s \in {"visit", "leave"} : wpc' = [wpc EXCEPT ![w] = s]
    BY <1>3 DEF TakeBlock, Store, Go, cacheVars
  <2> QED BY <1>1, <2>1 DEF NeverLost
<1>4. ASSUME NEW w \in Workers, Acquire(w) PROVE NeverLost'
  <2>0. owned[w] = NoKey /\ Key(w) \in Keys
    BY <1>4, <1>k, <1>t DEF Acquire, AtWork, Owning
  <2>1. CASE lost' = lost \ {w} /\ Go(w, "compute") /\ owned' = [owned EXCEPT ![w] = Key(w)]
    BY <1>1, <1>t, <2>1 DEF Go
  <2>2. CASE lost' = lost \ {w} /\ Go(w, "wait") /\ UNCHANGED owned
    BY <1>1, <1>t, <2>2 DEF Go
  <2>3. CASE table[Key(w)] = "full" /\ Remove(Key(w)) /\ Go(w, "leave") /\ UNCHANGED owned
    <3>1. lost' = lost \cup Referrers(Key(w)) /\ wpc' = [wpc EXCEPT ![w] = "leave"]
      BY <2>3 DEF Remove, Go
    <3>2. \A v \in Referrers(Key(w)) : owned[v] = NoKey /\ wpc[v] # "publish"
      BY <1>f, <2>0, <2>3
    <3> QED BY <1>1, <2>0, <2>3, <3>1, <3>2
  <2> QED BY <1>4, <2>1, <2>2, <2>3 DEF Acquire
<1>5. ASSUME NEW w \in Workers, Woken(w) PROVE NeverLost'
  <2>0. owned[w] = NoKey /\ Key(w) \in Keys /\ owned' = owned
    BY <1>5, <1>k, <1>t DEF Woken, AtWork, Owning
  <2>1. CASE lost' = lost \ {w} /\ Go(w, "compute")
    BY <1>1, <2>0, <2>1 DEF Go
  <2>2. CASE /\ table[Key(w)] = "full" /\ lost' = lost \cup (Referrers(Key(w)) \ {w}) /\ Go(w, "leave")
    <3>1. \A v \in Referrers(Key(w)) : owned[v] = NoKey /\ wpc[v] # "publish"
      BY <1>f, <2>0, <2>2
    <3> QED BY <1>1, <2>0, <2>2, <3>1 DEF Go
  <2> QED BY <1>5, <2>1, <2>2 DEF Woken
<1>6. ASSUME NEW w \in Workers, Decide(w) PROVE NeverLost'
  <2>0. owned' = [owned EXCEPT ![w] = NoKey] /\ owned'[w] = NoKey /\ w \notin lost
    BY <1>6, <1>t DEF Decide, PublishOwns, NeverLost
  <2>1. /\ lost' = lost \/ lost' = (lost \cup Waiters(Key(w))) \ {w}
        /\ \E s \in WorkerStates : wpc' = [wpc EXCEPT ![w] = s]
    BY <1>6, <2>0 DEF Decide, Go, WorkerStates
  <2>2. \A v \in Waiters(Key(w)) : owned[v] = NoKey /\ wpc[v] # "publish"
    BY <1>r
  <2> QED BY <1>1, <1>t, <2>0, <2>1, <2>2
<1>7. ASSUME NEW w \in Workers, BeforeWait(w) \/ EndVisit(w) PROVE NeverLost'
  <2>0. Abandon(w) /\ \E s \in {"drain", "visit"} : wpc' = [wpc EXCEPT ![w] = s]
    BY <1>7 DEF BeforeWait, EndVisit, Go
  <2>1. /\ owned' = [owned EXCEPT ![w] = NoKey] /\ owned'[w] = NoKey
        /\ lost' = lost \ {w} \/ lost' = lost \cup Waiters(owned[w])
    BY <1>t, <2>0 DEF Abandon
  <2>2. \A v \in Waiters(owned[w]) : owned[v] = NoKey /\ wpc[v] # "publish"
    BY <1>r
  <2> QED BY <1>1, <1>t, <2>0, <2>1, <2>2
<1>8. CASE Settle
  <2> DEFINE S == Before((settled + 1) * PerChunk - 1)
             R == {j \in S : table[j] # "absent"}
  <2>1. UNCHANGED <<owned, wpc>> /\ lost' = lost \cup UNION {Referrers(k) : k \in R}
    BY <1>8 DEF Settle, Drop
  <2>2. \A w \in Workers : AtWork(w) => Key(w) \notin S
    BY <1>8, DropSpares DEF Settle
  <2>3. S \subseteq Keys
    BY DEF Before
  <2> HIDE DEF S
  <2>4. ASSUME NEW v \in Workers, owned[v] # NoKey \/ wpc[v] = "publish", NEW k \in R, v \in Referrers(k)
        PROVE  FALSE
    <3>1. AtWork(v) /\ Key(v) \notin S /\ k \in S
      BY <1>t, <2>2, <2>4 DEF AtWork, Owning
    <3>2. Key(v) = k \/ owned[v] = k
      BY <1>r, <2>4
    <3>3. owned[v] = k => Key(v) = k
      BY <1>n, <1>t, <2>3, <3>1
    <3> QED BY <3>1, <3>2, <3>3
  <2> QED BY <2>1, <2>4 DEF NeverLost
<1>9. CASE Pause \/ Requeue \/ Stop \/ UNCHANGED vars
  <2>1. UNCHANGED <<owned, wpc, lost>>
    BY <1>9 DEF Pause, Requeue, Stop, vars, cacheVars
  <2> QED BY <2>1 DEF NeverLost
<1> QED BY <1>2, <1>3, <1>4, <1>5, <1>6, <1>7, <1>8, <1>9, MoveKinds DEF Next, Worker

\* The entries the cache holds.
Full == {k \in Keys : table[k] = "full"}

\* Every step counts what it adds and what it takes away.
LEMMA BytesStep == SlotsSound /\ NeverLost /\ BlockInv /\ BytesExact /\ [Next]_vars => BytesExact'
<1> SUFFICES ASSUME Shape, PublishOwns, SlotInv, NeverLost, BlockInv, live = Cardinality(Full), [Next]_vars
             PROVE  live' = Cardinality(Full')
  BY DEF SlotsSound, BytesExact, Full
<1>t. /\ table \in [Keys -> {"absent", "making", "full"}] /\ live \in Int
      /\ owned \in [Workers -> Keys \cup {NoKey}]
      /\ \A w \in Workers : owned[w] # NoKey => owned[w] = Key(w) /\ wpc[w] \in Owning
  BY DEF Shape
<1>k. \A w \in Workers : AtWork(w) => Key(w) \in Keys
  BY WorkKeys
<1>m. /\ \A w \in Workers : owned[w] # NoKey \/ wpc[w] = "publish" => w \notin lost
      /\ \A w \in Workers : owned[w] # NoKey \/ wpc[w] = "publish" => table[Key(w)] = "making"
  BY DEF Making, NeverLost, SlotInv
<1>f. IsFiniteSet(Full) /\ Full \subseteq Keys
  BY KeysFinite DEF Full
<1>1. ASSUME live' = live, \A k \in Keys : table'[k] = "full" <=> table[k] = "full"
      PROVE  live' = Cardinality(Full')
  <2>1. Full' = Full
    BY <1>1 DEF Full
  <2> QED BY <1>1, <2>1
<1>2. ASSUME NEW k \in Keys, table[k] = "full", table' = [table EXCEPT ![k] = "absent"], live' = live - 1
      PROVE  live' = Cardinality(Full')
  <2>1. k \in Full /\ Full' = Full \ {k}
    BY <1>2, <1>t DEF Full
  <2> QED BY <1>2, <1>f, <2>1, FS_RemoveElement
<1>3. ASSUME NEW k \in Keys, table[k] = "making", table' = [table EXCEPT ![k] = "absent"], live' = live
      PROVE  live' = Cardinality(Full')
  BY <1>1, <1>3, <1>t
<1>4. ASSUME NEW w \in Workers, Moves(w) \/ TakeBlock(w) PROVE live' = Cardinality(Full')
  BY <1>1, <1>4 DEF Moves, TakeBlock, cacheVars
<1>5. ASSUME NEW w \in Workers, Acquire(w) PROVE live' = Cardinality(Full')
  <2>0. Key(w) \in Keys
    BY <1>5, <1>k DEF Acquire, AtWork
  <2>1. CASE table[Key(w)] = "absent" /\ table' = [table EXCEPT ![Key(w)] = "making"] /\ live' = live
    BY <1>1, <1>t, <2>0, <2>1
  <2>2. CASE table' = table /\ live' = live
    BY <1>1, <2>2
  <2>3. CASE table[Key(w)] = "full" /\ table' = [table EXCEPT ![Key(w)] = "absent"] /\ live' = live - 1
    BY <1>2, <2>0, <2>3
  <2> QED BY <1>5, <2>1, <2>2, <2>3 DEF Acquire, Remove
<1>6. ASSUME NEW w \in Workers, Woken(w) PROVE live' = Cardinality(Full')
  <2>0. Key(w) \in Keys
    BY <1>6, <1>k DEF Woken, AtWork
  <2>1. CASE table' = table /\ live' = live
    BY <1>1, <2>1
  <2>2. CASE table[Key(w)] = "full" /\ table' = [table EXCEPT ![Key(w)] = "absent"] /\ live' = live - 1
    BY <1>2, <2>0, <2>2
  <2> QED BY <1>6, <2>1, <2>2 DEF Woken
<1>7. ASSUME NEW w \in Workers, Decide(w) PROVE live' = Cardinality(Full')
  <2>0. Key(w) \in Keys /\ table[Key(w)] = "making"
    BY <1>7, <1>k, <1>m DEF Decide, AtWork, PublishOwns
  <2>1. live' = live /\ (table' = table \/ table' = [table EXCEPT ![Key(w)] = "absent"])
    BY <1>7 DEF Decide
  <2> QED BY <1>1, <1>3, <2>0, <2>1
<1>8. ASSUME NEW w \in Workers, Store(w) PROVE live' = Cardinality(Full')
  <2>0. Key(w) \in Keys /\ table[Key(w)] = "making" /\ w \notin lost
    BY <1>8, <1>k, <1>m DEF Store, AtWork
  <2>1. live' = live + 1 /\ table' = [table EXCEPT ![Key(w)] = "full"]
    BY <1>8, <2>0 DEF Store
  <2>2. Key(w) \notin Full /\ Full' = Full \cup {Key(w)}
    <3>1. PICK k \in Keys : k = Key(w)
      BY <2>0
    <3>2. k \notin Full /\ table' = [table EXCEPT ![k] = "full"]
      BY <2>0, <2>1, <3>1 DEF Full
    <3>3. Full' = Full \cup {k}
      BY <1>t, <3>2 DEF Full
    <3> QED BY <3>1, <3>2, <3>3
  <2> QED BY <1>f, <2>1, <2>2, FS_AddElement
<1>9. ASSUME NEW w \in Workers, BeforeWait(w) \/ EndVisit(w) PROVE live' = Cardinality(Full')
  <2>1. live' = live /\ Abandon(w)
    BY <1>9 DEF BeforeWait, EndVisit
  <2>2. CASE table' = table
    BY <1>1, <2>1, <2>2
  <2>3. CASE owned[w] # NoKey /\ table' = [table EXCEPT ![owned[w]] = "absent"]
    <3>1. owned[w] \in Keys /\ table[owned[w]] = "making"
      BY <1>m, <1>t, <2>3
    <3> QED BY <1>3, <2>1, <2>3, <3>1
  <2> QED BY <2>1, <2>2, <2>3 DEF Abandon
<1>10. CASE Settle
  <2>1. PICK S : S = Before((settled + 1) * PerChunk - 1)
    OBVIOUS
  <2>2. /\ table' = [k \in Keys |-> IF k \in S THEN "absent" ELSE table[k]]
        /\ live' = live - Cardinality({k \in S : table[k] = "full"})
    BY <1>10, <2>1 DEF Settle, Drop
  <2>3. S \subseteq Keys
    BY <2>1 DEF Before
  <2>4. Full' = Full \ S /\ {k \in S : table[k] = "full"} = Full \cap S
    BY <1>t, <2>2, <2>3 DEF Full
  <2>5. Cardinality(Full \ S) = Cardinality(Full) - Cardinality(Full \cap S)
    BY <1>f, FS_Difference
  <2>6. Cardinality(Full') = Cardinality(Full \ S)
    BY <2>4
  <2> QED BY <2>2, <2>4, <2>5, <2>6
<1>11. CASE Pause \/ Requeue \/ Stop \/ UNCHANGED vars
  BY <1>1, <1>11 DEF Pause, Requeue, Stop, vars, cacheVars
<1> QED BY <1>4, <1>5, <1>6, <1>7, <1>8, <1>9, <1>10, <1>11, MoveKinds DEF Next, Worker

\* Where a worker is inside the gate, if its frame is a real one.
Inside == {"acquire", "wait", "compute", "publish?", "publish", "leave"}

\* Who the gate counts: real frames inside, those that wait to be alone, the one that is.
Counted  == {w \in Workers : wpc[w] \in Inside /\ Main(w) /\ w \notin again}
Draining == {w \in Workers : wpc[w] = "drain"}

GateInv ==
    /\ active = Cardinality(Counted) /\ waiting = Cardinality(Draining) /\ exclusive \in BOOLEAN
    /\ again \subseteq Workers /\ \A w \in again : wpc[w] \in Inside

\* A set of workers that gains or loses one is counted up or down by one.
LEMMA CountOne ==
    ASSUME NEW S \in SUBSET Workers, NEW w \in Workers
    PROVE  /\ w \in S => Cardinality(S \ {w}) = Cardinality(S) - 1
           /\ w \notin S => Cardinality(S \cup {w}) = Cardinality(S) + 1
           /\ Cardinality(S) \in Nat
<1>1. IsFiniteSet(S) /\ Cardinality(S) \in 0 .. Width /\ Width \in Nat
  BY StoringCounted
<1>2. w \in S => Cardinality(S \ {w}) = Cardinality(S) - 1
  BY <1>1, FS_RemoveElement
<1>3. w \notin S => Cardinality(S \cup {w}) = Cardinality(S) + 1
  BY <1>1, FS_AddElement
<1> QED BY <1>1, <1>2, <1>3

\* Every step leaves the gate with the counts of who is in it.
LEMMA GateStep == Shape /\ GateInv /\ [Next]_vars => GateInv'
<1> SUFFICES ASSUME Shape, GateInv, [Next]_vars PROVE GateInv'
  OBVIOUS
<1>t. wpc \in [Workers -> WorkerStates] /\ Counted \subseteq Workers /\ Draining \subseteq Workers
  BY DEF Shape, Counted, Draining
<1>g. /\ active = Cardinality(Counted) /\ waiting = Cardinality(Draining) /\ exclusive \in BOOLEAN
      /\ again \subseteq Workers /\ \A w \in again : wpc[w] \in Inside
  BY DEF GateInv
<1>s. ASSUME UNCHANGED <<blk, at>> PROVE \A w \in Workers : Main(w)' = Main(w)
  BY <1>s DEF Main, Visit
<1>1. ASSUME UNCHANGED gateVars, UNCHANGED again,
             \A w \in Workers : /\ wpc'[w] \in Inside <=> wpc[w] \in Inside
                                /\ wpc'[w] = "drain" <=> wpc[w] = "drain"
                                /\ wpc[w] \in Inside => Main(w)' = Main(w)
      PROVE  GateInv'
  <2>1. Counted' = Counted /\ Draining' = Draining
    BY <1>1 DEF Counted, Draining
  <2> QED BY <1>1, <1>g, <2>1 DEF GateInv, gateVars
<1>2. ASSUME NEW w \in Workers, NEW s, wpc' = [wpc EXCEPT ![w] = s], UNCHANGED <<gateVars, blk, at, again>>,
             s \in Inside <=> wpc[w] \in Inside, s # "drain", wpc[w] # "drain"
      PROVE  GateInv'
  <2>1. \A v \in Workers : Main(v)' = Main(v)
    BY <1>2, <1>s
  <2>2. \A v \in Workers : wpc'[v] = IF v = w THEN s ELSE wpc[v]
    BY <1>2, <1>t
  <2> QED BY <1>1, <1>2, <2>1, <2>2
<1>3. ASSUME NEW w \in Workers, FinishBlock(w) \/ Compute(w) \/ Decide(w) \/ Store(w) PROVE GateInv'
  <2>1. /\ UNCHANGED <<gateVars, blk, at, again>>
        /\ \E s \in WorkerStates : /\ wpc' = [wpc EXCEPT ![w] = s] /\ s # "drain"
                                   /\ s \in Inside <=> wpc[w] \in Inside
        /\ wpc[w] # "drain"
    BY <1>3 DEF FinishBlock, Compute, Decide, Store, Go, WorkerStates, Inside
  <2> QED BY <1>2, <2>1
<1>4. ASSUME NEW w \in Workers, Acquire(w) \/ Woken(w) PROVE GateInv'
  <2>1. /\ UNCHANGED <<gateVars, blk, at, again>> /\ wpc[w] # "drain" /\ wpc[w] \in Inside
        /\ \E s \in Inside : wpc' = [wpc EXCEPT ![w] = s]
    BY <1>4 DEF Acquire, Woken, Go, Inside
  <2> QED BY <1>2, <2>1 DEF Inside
<1>5. ASSUME NEW w \in Workers, TakeBlock(w) \/ EndVisit(w) PROVE GateInv'
  <2>1. /\ UNCHANGED <<gateVars, again>> /\ wpc[w] \in {"idle", "abandon"}
        /\ wpc' = [wpc EXCEPT ![w] = "visit"]
        /\ \E b, i : blk' = [blk EXCEPT ![w] = b] /\ at' = [at EXCEPT ![w] = i]
    <3>1. CASE TakeBlock(w)
      BY <3>1 DEF TakeBlock, Go
    <3>2. CASE EndVisit(w)
      BY <3>2 DEF EndVisit, Go, Shape
    <3> QED BY <1>5, <3>1, <3>2
  <2>2. \A v \in Workers \ {w} : Main(v)' = Main(v) /\ wpc'[v] = wpc[v]
    BY <1>t, <2>1 DEF Main, Visit, Shape
  <2>3. wpc'[w] = "visit" /\ "visit" \notin Inside /\ wpc[w] \notin Inside /\ wpc[w] # "drain"
    BY <1>t, <2>1 DEF Inside
  <2> QED BY <1>1, <2>1, <2>2, <2>3
<1>6. ASSUME NEW w \in Workers, Enter(w) PROVE GateInv'
  <2>1. /\ wpc[w] = "visit" /\ wpc' = [wpc EXCEPT ![w] = "acquire"]
        /\ active' = (IF Main(w) THEN active + 1 ELSE active)
        /\ UNCHANGED <<waiting, exclusive, blk, at, again>>
    BY <1>6 DEF Enter, Go
  <2>2. w \notin again /\ w \notin Counted
    BY <1>g, <2>1 DEF Inside, Counted
  <2>3. Counted' = IF Main(w) THEN Counted \cup {w} ELSE Counted
    BY <1>s, <1>t, <2>1, <2>2 DEF Counted, Inside
  <2>4. Draining' = Draining
    BY <1>t, <2>1 DEF Draining
  <2>5. active' = Cardinality(Counted')
    BY <1>g, <1>t, <2>1, <2>2, <2>3, CountOne
  <2>6. \A v \in again : wpc'[v] \in Inside
    BY <1>g, <1>t, <2>1, <2>2
  <2> QED BY <1>g, <2>1, <2>4, <2>5, <2>6 DEF GateInv
<1>7. ASSUME NEW w \in Workers, Leave(w) PROVE GateInv'
  <2>1. /\ wpc[w] \in {"leave", "compute"} /\ wpc' = [wpc EXCEPT ![w] = "abandon"]
        /\ LeaveGate(w) /\ UNCHANGED <<blk, at>>
    BY <1>7 DEF Leave, Go
  <2>2. Draining' = Draining /\ waiting' = waiting
    BY <1>t, <2>1 DEF Draining, LeaveGate
  <2>3. CASE w \in again
    <3>1. again' = again \ {w} /\ active' = active /\ exclusive' = FALSE
      BY <2>1, <2>3 DEF LeaveGate
    <3>2. Counted' = Counted
      BY <1>s, <1>t, <2>1, <2>3, <3>1 DEF Counted, Inside
    <3>3. again' \subseteq Workers /\ \A v \in again' : wpc'[v] \in Inside
      BY <1>g, <1>t, <2>1, <3>1
    <3> QED BY <1>g, <2>2, <3>1, <3>2, <3>3 DEF GateInv
  <2>4. CASE w \notin again
    <3>1. /\ again' = again /\ exclusive' = exclusive
          /\ active' = IF Main(w) THEN active - 1 ELSE active
      BY <2>1, <2>4 DEF LeaveGate
    <3>2. Counted' = Counted \ {w} /\ (w \in Counted <=> Main(w))
      BY <1>s, <1>t, <2>1, <2>4, <3>1 DEF Counted, Inside
    <3>3. active' = Cardinality(Counted')
      <4>1. Main(w) => active' = Cardinality(Counted')
        BY <1>g, <1>t, <3>1, <3>2, CountOne
      <4>2. ~Main(w) => Counted' = Counted /\ active' = active
        BY <3>1, <3>2
      <4> QED BY <1>g, <4>1, <4>2
    <3>4. \A v \in again : wpc'[v] \in Inside
      BY <1>g, <1>t, <2>1, <2>4
    <3> QED BY <1>g, <2>2, <3>1, <3>3, <3>4 DEF GateInv
  <2> QED BY <2>3, <2>4
<1>8. ASSUME NEW w \in Workers, OutOfMemory(w) PROVE GateInv'
  <2>1. /\ wpc[w] = "compute" /\ Main(w) /\ w \notin again /\ active' = active - 1
        /\ wpc' = [wpc EXCEPT ![w] = "before"] /\ UNCHANGED <<waiting, exclusive, blk, at, again>>
    BY <1>8 DEF OutOfMemory, Go
  <2>2. w \in Counted /\ Counted' = Counted \ {w} /\ Draining' = Draining
    BY <1>s, <1>t, <2>1 DEF Counted, Draining, Inside
  <2>3. active' = Cardinality(Counted')
    BY <1>g, <1>t, <2>1, <2>2, CountOne
  <2>4. \A v \in again : wpc'[v] \in Inside
    BY <1>g, <1>t, <2>1
  <2> QED BY <1>g, <2>1, <2>2, <2>3, <2>4 DEF GateInv
<1>9. ASSUME NEW w \in Workers, BeforeWait(w) PROVE GateInv'
  <2>1. /\ wpc[w] = "before" /\ waiting' = waiting + 1
        /\ wpc' = [wpc EXCEPT ![w] = "drain"] /\ UNCHANGED <<active, exclusive, blk, at, again>>
    BY <1>9 DEF BeforeWait, Go
  <2>2. w \notin Draining /\ Draining' = Draining \cup {w} /\ Counted' = Counted /\ w \notin again
    BY <1>g, <1>s, <1>t, <2>1 DEF Counted, Draining, Inside
  <2>3. waiting' = Cardinality(Draining')
    BY <1>g, <1>t, <2>1, <2>2, CountOne
  <2>4. \A v \in again : wpc'[v] \in Inside
    BY <1>g, <1>t, <2>1, <2>2
  <2> QED BY <1>g, <2>1, <2>2, <2>3, <2>4 DEF GateInv
<1>10. ASSUME NEW w \in Workers, Alone(w) PROVE GateInv'
  <2>1. wpc[w] = "drain" /\ waiting' = waiting - 1 /\ UNCHANGED <<active, blk, at>>
    BY <1>10 DEF Alone
  <2>2. \/ wpc' = [wpc EXCEPT ![w] = "acquire"] /\ again' = again \cup {w} /\ exclusive' = TRUE
        \/ wpc' = [wpc EXCEPT ![w] = "abandon"] /\ again' = again /\ exclusive' = exclusive
    BY <1>10 DEF Alone, Go
  <2>3. w \in Draining /\ Draining' = Draining \ {w} /\ w \notin again
    BY <1>g, <1>t, <2>1, <2>2 DEF Draining, Inside
  <2>4. Counted' = Counted
    BY <1>s, <1>t, <2>1, <2>2 DEF Counted, Inside
  <2>5. waiting' = Cardinality(Draining')
    BY <1>g, <1>t, <2>1, <2>3, CountOne
  <2>6. again' \subseteq Workers /\ \A v \in again' : wpc'[v] \in Inside
    BY <1>g, <1>t, <2>2, <2>3 DEF Inside
  <2> QED BY <1>g, <2>1, <2>2, <2>4, <2>5, <2>6 DEF GateInv
<1>11. CASE Settle \/ Pause \/ Requeue \/ Stop \/ UNCHANGED vars
  <2>1. UNCHANGED <<gateVars, wpc, blk, at, again>>
    BY <1>11 DEF Settle, Pause, Requeue, Stop, vars
  <2> QED BY <1>1, <1>s, <2>1
<1> QED BY <1>3, <1>4, <1>5, <1>6, <1>7, <1>8, <1>9, <1>10, <1>11 DEF Next, Worker

\* A worker is never further than one past the longest block.
AtBound == at \in [Workers -> 1 .. 2 * WarmUp + 1]

\* A visit ends at a place of the block.
LEMMA AtStep == Shape /\ AtBound /\ [Next]_vars => AtBound'
<1> SUFFICES ASSUME Shape, AtBound, [Next]_vars PROVE AtBound'
  OBVIOUS
<1>0. WarmUp \in Nat \ {0}
  BY DedupAssumption DEF DedupAssumption
<1>1. ASSUME NEW w \in Workers, EndVisit(w) PROVE AtBound'
  <2>1. at' = [at EXCEPT ![w] = @ + 1] /\ AtWork(w)
    BY <1>1 DEF EndVisit, AtWork
  <2>2. at[w] <= Len(Visits(blk[w])) /\ Len(Visits(blk[w])) \in 0 .. 2 * WarmUp
    BY <2>1, VisitPlaces DEF Shape
  <2>3. at[w] + 1 \in 1 .. 2 * WarmUp + 1
    BY <1>0, <2>2 DEF AtBound
  <2> QED BY <2>1, <2>3 DEF AtBound
<1>2. ASSUME NEW w \in Workers, TakeBlock(w) PROVE AtBound'
  <2>1. at' = [at EXCEPT ![w] = 1] /\ 1 \in 1 .. 2 * WarmUp + 1
    BY <1>0, <1>2 DEF TakeBlock
  <2> QED BY <2>1 DEF AtBound
<1>3. CASE at' = at
  BY <1>3 DEF AtBound
<1>4. ASSUME NEW w \in Workers, Worker(w) PROVE EndVisit(w) \/ TakeBlock(w) \/ at' = at
  BY <1>4 DEF Worker, FinishBlock, Enter, Acquire, Woken, Compute, Decide, Store, Leave, OutOfMemory,
              BeforeWait, Alone
<1>5. CASE Settle \/ Pause \/ Requeue \/ Stop \/ UNCHANGED vars
  BY <1>3, <1>5 DEF Settle, Pause, Requeue, Stop, vars
<1> QED BY <1>1, <1>2, <1>3, <1>4, <1>5 DEF Next

\* The invariant of the bytes and the gate.
CountsSound == SlotsSound /\ BlockInv /\ NeverLost /\ BytesExact /\ GateInv /\ AtBound

\* The bytes counted are the bytes held, and the gate never counts below zero or past the
\* workers, whatever is stored, dropped, abandoned, redone or run again alone
\* (StabRawCache._live_bytes, RecoveryGate).
THEOREM CountsAreExact == Spec => []BytesAccounted
<1>1. Init => CountsSound
  <2> SUFFICES ASSUME Init PROVE CountsSound
    OBVIOUS
  <2>0. Blocks \in Nat \ {0} /\ PerChunk \in Nat \ {0} /\ WarmUp \in Nat \ {0}
    BY DedupAssumption DEF DedupAssumption
  <2>1. SlotsSound
    <3>1. 0 \in 0 .. Blocks - 1
      BY <2>0
    <3>2. Shape
      BY <3>1 DEF Init, Shape, AtWork, WorkerStates
    <3>3. \A w \in Workers : ~Making(w) /\ wpc[w] = "idle"
      BY DEF Init, Making
    <3>4. \A k \in Keys : table[k] = "absent"
      BY DEF Init
    <3> QED BY <3>2, <3>3, <3>4 DEF SlotsSound, PublishOwns, SlotInv
  <2>2. BlockInv
    BY <2>0 DEF Init, BlockInv
  <2>3. NeverLost
    BY DEF Init, NeverLost
  <2>4. BytesExact
    <3>1. live = 0 /\ {k \in Keys : table[k] = "full"} = {}
      BY DEF Init
    <3> QED BY <3>1, FS_EmptySet DEF BytesExact
  <2>5. GateInv
    <3>1. Counted = {} /\ Draining = {}
      BY DEF Init, Counted, Draining, Inside
    <3>2. Cardinality(Counted) = 0 /\ Cardinality(Draining) = 0
      BY <3>1, FS_EmptySet
    <3> QED BY <3>2 DEF Init, GateInv
  <2>6. AtBound
    BY <2>0 DEF Init, AtBound
  <2> QED BY <2>1, <2>2, <2>3, <2>4, <2>5, <2>6 DEF CountsSound
<1>2. CountsSound /\ [Next]_vars => CountsSound'
  BY ShapeStep, PublishOwnsStep, SlotStep, BlockStep, NeverLostStep, BytesStep, GateStep, AtStep
  DEF CountsSound, SlotsSound
<1>3. CountsSound => BytesAccounted
  <2> SUFFICES ASSUME CountsSound PROVE TypeOK /\ BytesExact
    BY DEF BytesAccounted
  <2>1. Shape /\ BlockInv /\ BytesExact /\ GateInv /\ AtBound
    BY DEF CountsSound, SlotsSound
  <2>2. live \in Nat
    BY <2>1, KeysFinite DEF BytesExact
  <2>3. active \in 0 .. Width /\ waiting \in 0 .. Width
    <3>1. Counted \in SUBSET Workers /\ Draining \in SUBSET Workers
      BY DEF Counted, Draining
    <3> QED BY <2>1, <3>1, StoringCounted DEF GateInv
  <2>4. next \in 0 .. Blocks /\ finished \subseteq 0 .. Blocks - 1
    <3>1. Blocks \in Nat /\ next \in 0 .. Blocks /\ finished \subseteq 0 .. next - 1
      BY <2>1, DedupAssumption DEF BlockInv, DedupAssumption
    <3>2. 0 .. next - 1 \subseteq 0 .. Blocks - 1
      BY <3>1
    <3> QED BY <3>1, <3>2
  <2> QED BY <2>1, <2>2, <2>3, <2>4 DEF TypeOK, Shape, GateInv, AtBound
<1> QED BY <1>1, <1>2, <1>3, PTL DEF Spec
=============================================================================
