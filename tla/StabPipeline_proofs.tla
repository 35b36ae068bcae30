------------------------ MODULE StabPipeline_proofs ------------------------
(***************************************************************************)
(* Theorems about StabPipeline for any clip, chunk and block size, any     *)
(* number of workers, any queue capacities, failures and user calls.       *)
(***************************************************************************)
EXTENDS StabPipeline, FiniteSetTheorems, SequenceTheorems, WellFoundedInduction, NaturalsInduction, TLAPS

-----------------------------------------------------------------------------
(* The inductive invariant.                                                 *)

\* The raw frames a, a + 1, ... of a piece of n frames.
Span(a, n) == [i \in 1 .. n |-> a + i - 1]
EndOf(c)   == c.start + Len(c.chunk)

ChunkRec == [no : Nat, start : Nat, chunk : Seq(Nat), carry : Seq(Nat), got : SUBSET Nat,
             left : Nat, interrupted : BOOLEAN]
BlockRec == [no : Nat, first : Nat, last : Nat]
AtRec    == [no : Int, ci : Nat, main : Nat, end : Nat]
PauseRec == [requested : BOOLEAN, acked : BOOLEAN, active : Nat, pending : Nat]
Items    == {[g \in S |-> g] : S \in SUBSET Frames}

Handing  == phase \in {"enqueue", "part"}
Torn     == {"pool", "stopWriter", "joinWriter", "joinReader", "closed"}
Late     == {"joinWriter", "joinReader", "closed"}
Phases   == {"top", "drain", "enqueue", "retire", "part", "boundary", "look", "leave"} \cup Torn
Busy     == {w \in Workers : wpc[w] \in {"frame", "run", "fallback"}}

FlagTypes == /\ pause \in PauseRec
             /\ processing \in BOOLEAN /\ pauseFlag \in BOOLEAN /\ stopped \in BOOLEAN
             /\ call \in {"none", "pausing", "resuming", "stopping"}
             /\ workerError \in BOOLEAN /\ writerError \in BOOLEAN
             /\ readerError \in BOOLEAN /\ raised \in BOOLEAN
ReaderTypes == /\ rpc \in {"read", "put", "sentinel", "done"} /\ held \in Seq(Nat)
               /\ decoded \in 0 .. TotalFrames /\ prefetch \in Seq(Seq(Int))
WorkerTypes == /\ workQ \in Seq(BlockRec \cup {Quit})
               /\ wpc \in [Workers -> {"idle", "frame", "run", "fallback", "done"}]
               /\ at \in [Workers -> AtRec]
CoordTypes == /\ phase \in Phases /\ back \in {"top", "drain"}
              /\ inflight \in Seq(ChunkRec) /\ retry \in Seq(ChunkRec)
              /\ bad \in BOOLEAN /\ requeued \in BOOLEAN /\ writerStop \in BOOLEAN /\ consumerDone \in BOOLEAN
              /\ IF Handing THEN hand \in ChunkRec ELSE hand = NoChunk
              /\ carry \in Seq(Nat) /\ chunkStart \in Nat /\ chunkNo \in Nat
WriterTypes == /\ writeQ \in Seq(Items \cup {EndOfWrites}) /\ Len(writeQ) <= QueueCap
               /\ xpc \in {"write", "safe", "parked", "done", "dead"}
               /\ load \in Items /\ written \in SUBSET Frames
               /\ encoded \in Seq(Nat)

Types == FlagTypes /\ ReaderTypes /\ WorkerTypes /\ CoordTypes /\ WriterTypes

\* The end mark of the reader, which the coordinator may put back, is alone and last.
Marked(p)  == p # <<>> /\ p[Len(p)] = EndOfStream
Waiting(p) == IF Marked(p) THEN SubSeq(p, 1, Len(p) - 1) ELSE p
MarkInv == /\ \A i \in 1 .. Len(Waiting(prefetch)) :
                  Len(Waiting(prefetch)[i]) \in 1 .. Chunk /\ Waiting(prefetch)[i] # EndOfStream
           /\ Marked(prefetch) => rpc = "done"
           /\ back = "drain" => rpc = "done" /\ ~Marked(prefetch) /\ (~requeued => prefetch = <<>>)
           /\ rpc # "put" => held = <<>>
           /\ rpc = "put" => Len(held) \in 1 .. Chunk

\* Where the coordinator's loop is, and what it has in hand there.
LoopInv == /\ phase = "enqueue" => ~hand.interrupted
           /\ phase \in {"top", "drain", "enqueue"} => retry = <<>>
           /\ phase \in {"retire", "part"} => (bad <=> retry # <<>>)
           /\ phase = "part" => ~bad
           /\ phase \in {"boundary", "look"} => inflight = <<>>
           /\ phase \in {"top", "drain"} => back = phase
           /\ Len(inflight) + Len(retry) + (IF Handing THEN 1 ELSE 0) <= Depth
           /\ Len(Waiting(prefetch)) + Len(inflight) + Len(retry) + (IF Handing THEN 1 ELSE 0) <= QueueCap + Depth

ErrorInv == /\ workerError \/ readerError => ~processing
            /\ raised => workerError
            /\ writerError <=> xpc = "dead"

\* The end of the writer: its mark is last, and nothing comes after it.
WriterInv == /\ xpc = "done" => phase \in Late /\ load = NoFrames /\ writeQ = <<>>
             /\ writerStop => phase \in Late
             /\ \A i \in 1 .. Len(writeQ) : writeQ[i] = EndOfWrites => i = Len(writeQ) /\ phase \in Late
             /\ phase \in {"joinReader", "closed"} => WriterGone

Phased == MarkInv /\ LoopInv /\ ErrorInv /\ WriterInv

\* A chunk of the grid: its frames, and the raw frames before them.
ChunkOK(c) == /\ Len(c.chunk) \in 1 .. Chunk /\ c.chunk = Span(c.start, Len(c.chunk))
              /\ Len(c.carry) = Smaller(WarmUp, c.start) /\ c.carry = Span(c.start - Len(c.carry), Len(c.carry))
              /\ EndOf(c) <= TotalFrames
              /\ c.got \subseteq c.start .. EndOf(c) - 1
              /\ c.left <= Len(c.chunk)

First(s, e) == IF s = <<>> THEN e ELSE s[1].start
Chain(s, e) == \A i \in 1 .. Len(s) : EndOf(s[i]) = IF i = Len(s) THEN e ELSE s[i + 1].start

\* Pieces of the clip that follow on each other, from frame a up to frame b.
Pieces(s, a, b) ==
    \E f \in [0 .. Len(s) -> 0 .. TotalFrames] :
        /\ f[0] = a /\ f[Len(s)] = b
        /\ \A i \in 1 .. Len(s) : Len(s[i]) >= 1 /\ f[i] = f[i - 1] + Len(s[i]) /\ s[i] = Span(f[i - 1], Len(s[i]))

ShapeInv == /\ \A i \in 1 .. Len(inflight) : ChunkOK(inflight[i]) /\ inflight[i].no < chunkNo
            /\ \A i, j \in 1 .. Len(inflight) : i < j => inflight[i].no < inflight[j].no
            /\ \A i \in 1 .. Len(retry) : ChunkOK(retry[i])
            /\ Handing => ChunkOK(hand)

\* The grid, from the chunk the pause sent back first to the frame the decoder reads next.
GridInv == processing =>
            /\ chunkStart <= TotalFrames
            /\ Len(carry) = Smaller(WarmUp, chunkStart) /\ carry = Span(chunkStart - Len(carry), Len(carry))
            /\ Chain(inflight, chunkStart)
            /\ phase \in {"retire", "part", "boundary", "look"} => Chain(retry, First(inflight, chunkStart))
            /\ Handing => EndOf(hand) = First(inflight, chunkStart)
            /\ rpc = "put" => held = Span(decoded - Len(held), Len(held))
            /\ phase \notin Late => Pieces(Waiting(prefetch), chunkStart, decoded - Len(held))
            /\ rpc \in {"sentinel", "done"} => decoded = TotalFrames

\* The first frames of the blocks of a chunk that are queued or with a worker.
Owed(c) == {workQ[k].first : k \in {j \in 1 .. Len(workQ) : workQ[j].no = c.no}}
           \cup {at[w].main - Len(c.carry) : w \in {v \in Busy : at[v].no = c.no}}

QuitInv == /\ phase \in Torn => \A k \in 1 .. Len(workQ) : workQ[k] = Quit
           /\ phase \notin Torn => \A k \in 1 .. Len(workQ) : workQ[k] # Quit
           /\ phase \notin Torn => \A w \in Workers : wpc[w] # "done"
           /\ phase \in Torn \ {"pool"} => \A w \in Workers : wpc[w] = "done"

\* The frames of a queued block b, and those still to do of a worker's block a.
InBlock(c, b, g) == c.start + b.first <= g /\ g < c.start + b.last
InWork(c, a, g)  == a.main <= g - BaseGlobal(c) /\ a.ci <= g - BaseGlobal(c) /\ g - BaseGlobal(c) < a.end

QueuedOK(c, b) == b.first < b.last /\ b.last <= Len(c.chunk) /\ \A g \in c.got : ~InBlock(c, b, g)
WorkOK(c, a)   == /\ Len(c.carry) <= a.main /\ a.main < a.end /\ a.ci < a.end /\ a.end <= Len(c.carry) + Len(c.chunk)
                  /\ \A g \in c.got : ~InWork(c, a, g)
FailOK(c, a)   == a.main <= a.ci /\ IndexAt(c, a.ci) \in Faulty

\* The blocks of a chunk that are out do not overlap, have no result yet, and are counted in it.
BlocksOf(c) ==
    /\ \A k \in 1 .. Len(workQ) : workQ[k].no = c.no => QueuedOK(c, workQ[k])
    /\ \A k \in 1 .. Len(workQ), w \in Busy :
          workQ[k].no = c.no /\ at[w].no = c.no => at[w].end <= Len(c.carry) + workQ[k].first
    /\ \A w \in Busy : at[w].no = c.no => WorkOK(c, at[w])
    /\ \A w \in Busy : at[w].no = c.no /\ wpc[w] = "fallback" => FailOK(c, at[w])
    /\ Cardinality(Owed(c)) <= c.left

\* A frame of a chunk that was not interrupted has its result, or somebody has it to do.
Covered(c) ==
    \A g \in c.start .. EndOf(c) - 1 :
        \/ g \in c.got
        \/ \E k \in 1 .. Len(workQ) : workQ[k].no = c.no /\ InBlock(c, workQ[k], g)
        \/ \E w \in Busy : at[w].no = c.no /\ InWork(c, at[w], g)

\* Whoever has a block of a chunk finds it in flight, and no two have the same frame of it.
KnownInv == /\ \A k \in 1 .. Len(workQ) : workQ[k] # Quit => \E i \in 1 .. Len(inflight) : inflight[i].no = workQ[k].no
            /\ \A w \in Busy : \E i \in 1 .. Len(inflight) : inflight[i].no = at[w].no
ApartInv == /\ \A k, l \in 1 .. Len(workQ) :
                  k < l /\ workQ[k].no = workQ[l].no /\ workQ[k] # Quit => workQ[k].last <= workQ[l].first
            /\ \A w, v \in Busy : w # v /\ at[w].no = at[v].no => at[w].end <= at[v].main \/ at[v].end <= at[w].main
WorkInv  == \A i \in 1 .. Len(inflight) : BlocksOf(inflight[i])
CoverInv == processing /\ phase \notin Torn =>
               \A i \in 1 .. Len(inflight) : ~inflight[i].interrupted => Covered(inflight[i])

BlockInv == QuitInv /\ KnownInv /\ ApartInv /\ WorkInv /\ CoverInv

\* Nobody has stopped the run or lost it; such a run never comes back.
Going == processing /\ ~writerError

\* With every frame in S, all the frames before it.
Downward(S) == \A g \in S : 0 .. g \subseteq S
Put(i)  == written \cup DOMAIN load \cup {g \in Frames : \E j \in 1 .. i : g \in DOMAIN writeQ[j]}
Handed  == Put(Len(writeQ)) \cup hand.got
Due == IF retry # <<>> THEN retry[1].start
       ELSE IF hand.interrupted THEN hand.start ELSE First(inflight, chunkStart)

EncodedInv == /\ \A i \in 1 .. Len(encoded) : encoded[i] = i - 1
              /\ written = 0 .. Len(encoded) - 1
HandInv == Going =>
            /\ \A i \in 0 .. Len(writeQ) : Downward(Put(i))
            /\ Downward(Handed)
            /\ phase \notin Torn \cup {"leave"} => 0 .. Due - 1 \subseteq Handed
            /\ phase \in Torn \cup {"leave"} =>
                  inflight = <<>> /\ retry = <<>> /\ 0 .. TotalFrames - 1 \subseteq Handed

Running == {w \in Workers : wpc[w] = "run"}
PauseInv == /\ pause.active = Cardinality(Running)
            /\ pause.acked => pause.requested
            /\ ReservationsExact /\ PausedIsDrained

Inv == Types /\ Phased /\ ShapeInv /\ GridInv /\ BlockInv /\ EncodedInv /\ HandInv /\ PauseInv

-----------------------------------------------------------------------------
(* Induction on a set of naturals.                                          *)

LEMMA NatMin ==
    ASSUME NEW T, T \subseteq Nat, T # {}
    PROVE  \E x \in T : \A y \in T : x <= y
<1> DEFINE R == OpToRel(<, Nat)
<1>1. IsWellFoundedOn(R, Nat)
  BY NatLessThanWellFounded
<1> HIDE DEF R
<1>2. PICK x \in T : \A y \in T : ~(<<y, x>> \in R)
  BY <1>1, WFMin
<1>3. ASSUME NEW y \in T PROVE x <= y
  <2>1. x \in Nat /\ y \in Nat
    OBVIOUS
  <2>2. y < x => <<y, x>> \in R
    BY <2>1 DEF R, OpToRel
  <2> QED  BY <1>2, <2>1, <2>2
<1> QED  BY <1>3

LEMMA SetInduction ==
    ASSUME NEW A, 0 \in A, \A n \in Nat : n \in A => n + 1 \in A
    PROVE  \A n \in Nat : n \in A
<1> DEFINE T == Nat \ A
<1>1. SUFFICES ASSUME T # {} PROVE FALSE
  OBVIOUS
<1>2. PICK x \in T : \A y \in T : x <= y
  BY <1>1, NatMin
<1>3. x # 0 /\ x - 1 \in Nat
  BY <1>2
<1>4. x - 1 \in A
  BY <1>2, <1>3
<1> QED  BY <1>2, <1>3, <1>4

-----------------------------------------------------------------------------
(* Sums.  f holds the sum of the first n numbers of s, for every n.         *)

Sums(f, s) == /\ f \in [0 .. Len(s) -> Nat]
              /\ f[0] = 0
              /\ \A i \in 1 .. Len(s) : f[i] = f[i - 1] + s[i]

LEMMA SumsOf ==
    ASSUME NEW s \in Seq(Nat), NEW f,
           f = [i \in 0 .. Len(s) |-> IF i = 0 THEN 0 ELSE f[i - 1] + s[i]]
    PROVE  Sums(f, s)
<1>1. /\ DOMAIN f = 0 .. Len(s)
      /\ \A i \in 0 .. Len(s) : f[i] = IF i = 0 THEN 0 ELSE f[i - 1] + s[i]
  OBVIOUS
<1>2. Len(s) \in Nat /\ \A i \in 1 .. Len(s) : s[i] \in Nat
  OBVIOUS
<1> DEFINE A == {k \in Nat : k <= Len(s) => f[k] \in Nat}
<1>3. 0 \in A
  BY <1>1, <1>2
<1>4. ASSUME NEW n \in Nat, n \in A PROVE n + 1 \in A
  <2>1. n + 1 <= Len(s) => f[n + 1] = f[n] + s[n + 1] /\ s[n + 1] \in Nat
    BY <1>1, <1>2
  <2>2. n + 1 <= Len(s) => n <= Len(s)
    BY <1>2
  <2> QED  BY <1>4, <2>1, <2>2
<1> HIDE DEF A
<1>5. \A n \in Nat : n \in A
  BY <1>3, <1>4, SetInduction
<1>6. \A i \in 0 .. Len(s) : f[i] \in Nat
  BY <1>2, <1>5 DEF A
<1>7. f \in [0 .. Len(s) -> Nat]
  <2>1. f = [i \in 0 .. Len(s) |-> f[i]]
    OBVIOUS
  <2> QED  BY <1>6, <2>1
<1>8. \A i \in 1 .. Len(s) : f[i] = f[i - 1] + s[i]
  BY <1>1, <1>2
<1>9. f[0] = 0
  BY <1>1, <1>2
<1> QED  BY <1>7, <1>8, <1>9 DEF Sums

LEMMA SumsExist ==
    ASSUME NEW s \in Seq(Nat)
    PROVE  \E f : Sums(f, s) /\ SumOf(s) = f[Len(s)]
<1> DEFINE Obeys(f, n) == f = [i \in 0 .. n |-> IF i = 0 THEN 0 ELSE f[i - 1] + s[i]]
           A == {k \in Nat : \E f : Obeys(f, k)}
<1>1. 0 \in A
  <2> DEFINE f == [i \in 0 .. 0 |-> 0]
  <2>1. Obeys(f, 0)
    OBVIOUS
  <2> QED  BY <2>1
<1>2. ASSUME NEW k \in Nat, k \in A PROVE k + 1 \in A
  <2>1. PICK f : Obeys(f, k)
    BY <1>2
  <2> DEFINE g == [i \in 0 .. k + 1 |-> IF i = k + 1 THEN f[k] + s[k + 1] ELSE f[i]]
  <2>2. \A i \in 0 .. k : f[i] = IF i = 0 THEN 0 ELSE f[i - 1] + s[i]
    BY <2>1
  <2>3. ASSUME NEW i \in 0 .. k + 1 PROVE g[i] = IF i = 0 THEN 0 ELSE g[i - 1] + s[i]
    <3>1. CASE i = k + 1
      <4>1. g[i] = f[k] + s[k + 1] /\ g[i - 1] = f[k] /\ i # 0
        BY <3>1
      <4> QED  BY <3>1, <4>1
    <3>2. CASE i # k + 1
      <4>1. i \in 0 .. k /\ g[i] = f[i]
        BY <3>2
      <4>2. i # 0 => i - 1 \in 0 .. k + 1 /\ i - 1 # k + 1
        BY <4>1
      <4>3. i # 0 => g[i - 1] = f[i - 1]
        BY <4>2
      <4> QED  BY <2>2, <4>1, <4>3
    <3> QED  BY <3>1, <3>2
  <2>4. g = [i \in 0 .. k + 1 |-> g[i]]
    OBVIOUS
  <2> HIDE DEF g
  <2>5. Obeys(g, k + 1)
    BY <2>3, <2>4
  <2>6. \E h : Obeys(h, k + 1)
    BY <2>5
  <2> HIDE DEF Obeys
  <2> QED  BY <2>6
<1> HIDE DEF A
<1>3. \A k \in Nat : k \in A
  BY <1>1, <1>2, SetInduction
<1>4. \E f : Obeys(f, Len(s))
  BY <1>3 DEF A
<1> DEFINE g == CHOOSE h : h = [i \in 0 .. Len(s) |-> IF i = 0 THEN 0 ELSE h[i - 1] + s[i]]
<1>5. Obeys(g, Len(s))
  BY <1>4
<1>6. SumOf(s) = g[Len(s)]
  BY DEF SumOf
<1> HIDE DEF g
<1>7. Sums(g, s)
  BY <1>5, SumsOf
<1> QED  BY <1>6, <1>7

\* Any function that obeys the recursion holds the sum.
LEMMA SumIs ==
    ASSUME NEW s \in Seq(Nat), NEW f, Sums(f, s)
    PROVE  SumOf(s) = f[Len(s)]
<1>1. PICK g : Sums(g, s) /\ SumOf(s) = g[Len(s)]
  BY SumsExist
<1> DEFINE A == {k \in Nat : k <= Len(s) => f[k] = g[k]}
<1>2. 0 \in A
  BY <1>1 DEF Sums
<1>3. ASSUME NEW k \in Nat, k \in A PROVE k + 1 \in A
  <2>1. CASE k + 1 <= Len(s)
    <3>1. k + 1 \in 1 .. Len(s) /\ k + 1 - 1 = k /\ k <= Len(s)
      BY <2>1
    <3>2. f[k + 1] = f[k] + s[k + 1] /\ g[k + 1] = g[k] + s[k + 1]
      BY <1>1, <3>1 DEF Sums
    <3> QED  BY <1>3, <3>1, <3>2
  <2> QED  BY <2>1
<1> HIDE DEF A
<1>4. Len(s) \in A
  BY <1>2, <1>3, SetInduction
<1> QED  BY <1>1, <1>4 DEF A

LEMMA SumEmpty == SumOf(<<>>) = 0
<1> DEFINE f == [i \in 0 .. 0 |-> 0]
<1>1. Sums(f, <<>>)
  BY DEF Sums
<1>2. <<>> \in Seq(Nat) /\ Len(<<>>) = 0 /\ f[0] = 0
  OBVIOUS
<1> QED  BY <1>1, <1>2, SumIs

\* s with another number in front.
LEMMA SumFirst ==
    ASSUME NEW s \in Seq(Nat), NEW t \in Seq(Nat), Len(s) = Len(t) + 1,
           \A i \in 1 .. Len(t) : s[i + 1] = t[i]
    PROVE  SumOf(s) = s[1] + SumOf(t)
<1>0. Len(t) \in Nat /\ s[1] \in Nat /\ \A i \in 1 .. Len(t) + 1 : s[i] \in Nat
  OBVIOUS
<1>1. PICK f : Sums(f, t) /\ SumOf(t) = f[Len(t)]
  BY SumsExist
<1> DEFINE n == Len(t)
           g == [i \in 0 .. n + 1 |-> IF i = 0 THEN 0 ELSE s[1] + f[i - 1]]
<1>2. /\ f \in [0 .. n -> Nat] /\ f[0] = 0
      /\ \A i \in 1 .. n : f[i] = f[i - 1] + s[i + 1]
  BY <1>1 DEF Sums
<1>3. g[0] = 0 /\ g[n + 1] = s[1] + f[n] /\ g \in [0 .. n + 1 -> Nat]
  BY <1>0, <1>2
<1>4. ASSUME NEW i \in 1 .. n + 1 PROVE g[i] = g[i - 1] + s[i]
  <2>1. CASE i = 1
    BY <1>0, <1>2, <2>1
  <2>2. CASE i # 1
    <3>1. PICK j \in 1 .. n : i = j + 1
      BY <1>0, <2>2
    <3>2. g[i] = s[1] + f[j] /\ g[i - 1] = s[1] + f[j - 1]
      BY <1>0, <3>1
    <3>3. f[j] = f[j - 1] + s[i] /\ f[j - 1] \in Nat /\ s[i] \in Nat
      <4>1. j - 1 \in 0 .. n
        BY <1>0, <3>1
      <4> QED  BY <1>0, <1>2, <3>1, <4>1
    <3> HIDE DEF g
    <3> QED  BY SMTT(30), <1>0, <3>2, <3>3
  <2> QED  BY <2>1, <2>2
<1> HIDE DEF g
<1>5. Sums(g, s)
  BY <1>3, <1>4 DEF Sums
<1> QED  BY <1>1, <1>3, <1>5, SumIs

\* s with another number at the end.
LEMMA SumLast ==
    ASSUME NEW s \in Seq(Nat), NEW t \in Seq(Nat), Len(s) = Len(t) + 1,
           \A i \in 1 .. Len(t) : s[i] = t[i]
    PROVE  SumOf(s) = SumOf(t) + s[Len(s)]
<1>0. Len(t) \in Nat /\ s[Len(t) + 1] \in Nat
  OBVIOUS
<1>1. PICK f : Sums(f, t) /\ SumOf(t) = f[Len(t)]
  BY SumsExist
<1> DEFINE n == Len(t)
           g == [i \in 0 .. n + 1 |-> IF i = n + 1 THEN f[n] + s[n + 1] ELSE f[i]]
<1>2. /\ f \in [0 .. n -> Nat] /\ f[0] = 0
      /\ \A i \in 1 .. n : f[i] = f[i - 1] + s[i]
  BY <1>1 DEF Sums
<1>3. g[0] = 0 /\ g[n + 1] = f[n] + s[n + 1] /\ g \in [0 .. n + 1 -> Nat]
  <2>1. f[n] \in Nat /\ f[n] + s[n + 1] \in Nat
    BY <1>0, <1>2
  <2>2. \A i \in 0 .. n + 1 : i # n + 1 => i \in 0 .. n
    BY <1>0
  <2> QED  BY <1>0, <1>2, <2>1, <2>2
<1>4. ASSUME NEW i \in 1 .. n + 1 PROVE g[i] = g[i - 1] + s[i]
  <2>1. CASE i = n + 1
    BY <1>0, <1>2, <2>1
  <2>2. CASE i # n + 1
    <3>1. i \in 1 .. n /\ i - 1 \in 0 .. n + 1 /\ i - 1 # n + 1
      BY <1>0, <2>2
    <3>2. g[i] = f[i] /\ g[i - 1] = f[i - 1]
      BY <1>0, <3>1
    <3> QED  BY <1>2, <3>1, <3>2
  <2> QED  BY <2>1, <2>2
<1> HIDE DEF g
<1>5. Sums(g, s)
  BY <1>3, <1>4 DEF Sums
<1> QED  BY <1>1, <1>3, <1>5, SumIs

\* One number of the sequence is another one.
LEMMA SumChange ==
    ASSUME NEW s \in Seq(Nat), NEW t \in Seq(Nat), Len(s) = Len(t), NEW k \in 1 .. Len(s),
           \A i \in 1 .. Len(s) : i # k => s[i] = t[i], s[k] <= t[k]
    PROVE  SumOf(t) = SumOf(s) + (t[k] - s[k])
<1>0. Len(s) \in Nat /\ \A i \in 1 .. Len(s) : s[i] \in Nat /\ t[i] \in Nat
  OBVIOUS
<1>1. PICK f : Sums(f, s) /\ SumOf(s) = f[Len(s)]
  BY SumsExist
<1> DEFINE n == Len(s)
           d == t[k] - s[k]
           g == [i \in 0 .. n |-> IF i < k THEN f[i] ELSE f[i] + d]
<1>2. /\ f \in [0 .. n -> Nat] /\ f[0] = 0
      /\ \A i \in 1 .. n : f[i] = f[i - 1] + s[i]
  BY <1>1 DEF Sums
<1>d. d \in Nat /\ t[k] = s[k] + d
  BY <1>0
<1> HIDE DEF d
<1>3. g[0] = 0 /\ g[n] = f[n] + d /\ g \in [0 .. n -> Nat]
  BY <1>0, <1>2, <1>d
<1>4. ASSUME NEW i \in 1 .. n PROVE g[i] = g[i - 1] + t[i]
  <2>0. /\ f[i] = f[i - 1] + s[i] /\ s[i] \in Nat /\ f[i - 1] \in Nat /\ f[i] \in Nat /\ i - 1 \in 0 .. n
        /\ g[i] = (IF i < k THEN f[i] ELSE f[i] + d) /\ g[i - 1] = (IF i - 1 < k THEN f[i - 1] ELSE f[i - 1] + d)
    <3>1. i - 1 \in 0 .. n /\ i \in 0 .. n
      BY <1>0
    <3> QED  BY <1>0, <1>2, <3>1
  <2> HIDE DEF g
  <2>1. CASE i < k
    BY <1>0, <2>0, <2>1
  <2>2. CASE i = k
    <3>1. g[i] = f[i] + d /\ g[i - 1] = f[i - 1]
      BY <1>0, <2>0, <2>2
    <3>2. t[i] = s[i] + d
      BY <1>d, <2>2
    <3> QED  BY SMTT(30), <1>d, <2>0, <3>1, <3>2
  <2>3. CASE i > k
    <3>1. g[i] = f[i] + d /\ g[i - 1] = f[i - 1] + d /\ t[i] = s[i]
      BY <1>0, <2>0, <2>3
    <3> QED  BY <1>d, <2>0, <3>1
  <2> QED  BY <1>0, <2>1, <2>2, <2>3
<1>5. Sums(g, t)
  BY <1>3, <1>4 DEF Sums
<1> HIDE DEF g
<1>6. SumOf(t) = g[Len(t)]
  BY <1>5, SumIs
<1> QED  BY <1>1, <1>3, <1>6 DEF d

LEMMA SumNat == ASSUME NEW s \in Seq(Nat) PROVE SumOf(s) \in Nat
<1>1. PICK f : Sums(f, s) /\ SumOf(s) = f[Len(s)]
  BY SumsExist
<1>2. Len(s) \in 0 .. Len(s)
  OBVIOUS
<1> QED  BY <1>1, <1>2 DEF Sums

\* No number of the sequence is above the sum.
LEMMA SumAbove == ASSUME NEW s \in Seq(Nat), NEW k \in 1 .. Len(s) PROVE s[k] <= SumOf(s)
<1> DEFINE t == [s EXCEPT ![k] = 0]
<1>1. /\ t \in Seq(Nat) /\ Len(t) = Len(s) /\ t[k] = 0
      /\ \A i \in 1 .. Len(s) : i # k => t[i] = s[i]
  BY ExceptSeq
<1> HIDE DEF t
<1>2. s[k] \in Nat /\ t[k] <= s[k] /\ k \in 1 .. Len(t)
  BY <1>1
<1>3. SumOf(s) = SumOf(t) + (s[k] - t[k])
  BY <1>1, <1>2, SumChange
<1>4. SumOf(t) \in Nat
  BY <1>1, SumNat
<1> QED  BY <1>1, <1>2, <1>3, <1>4

-----------------------------------------------------------------------------
(* What each thread leaves alone.                                           *)

LEMMA Sizes ==
    /\ TotalFrames \in Nat \ {0} /\ Block \in Nat \ {0} /\ Chunk \in Nat \ {0} /\ WarmUp \in Nat
    /\ Width \in Nat \ {0} /\ Depth \in Nat \ {0} /\ QueueCap \in Nat \ {0}
    /\ Faulty \subseteq Frames /\ Frames = 0 .. TotalFrames - 1 /\ Workers = 0 .. Width - 1
BY StabAssumption DEF StabAssumption, Frames, Workers

LEMMA ReaderFrame ==
    Reader =>
        /\ UNCHANGED <<pause, pauseFlag, stopped, workQ, wpc, at, workerError, phase, back, inflight,
                       hand, retry, bad, carry, chunkStart, chunkNo, requeued, consumerDone, writerStop,
                       raised, writeQ, xpc, load, written, writerError, encoded, sealed, call, calls>>
        /\ processing' => processing
BY DEF Reader, Decode, PutChunk, SendSentinel, flagVars, readerVars, workerVars, settleVars, gridVars,
       endVars, coordVars, queueVars, writerVars, callVars

LEMMA WorkerFrame ==
    ASSUME NEW w, Worker(w)
    PROVE  /\ UNCHANGED <<pauseFlag, stopped, rpc, held, decoded, readerError, prefetch, phase, back,
                          hand, retry, bad, carry, chunkStart, chunkNo, requeued, consumerDone, writerStop,
                          raised, writeQ, xpc, load, written, writerError, encoded, sealed, call, calls>>
           /\ processing' => processing
<1> USE DEF flagVars, readerVars, workerVars, settleVars, gridVars, endVars, coordVars, queueVars, writerVars, callVars
<1>1. CASE TakeBlock(w)
  BY <1>1 DEF TakeBlock
<1>2. CASE HandBack(w) \/ Enter(w)
  BY <1>2 DEF HandBack, Enter
<1>3. CASE Run(w) \/ Fallback(w)
  BY <1>3 DEF Run, Fallback
<1> QED  BY <1>1, <1>2, <1>3 DEF Worker

LEMMA CoordFrame ==
    Coordinator =>
        /\ UNCHANGED <<pauseFlag, stopped, rpc, held, decoded, readerError, wpc, at, workerError,
                       xpc, load, written, writerError, encoded, sealed, call, calls>>
        /\ processing' => processing /\ (processing' # processing => phase = "pool")
<1> USE DEF flagVars, readerVars, workerVars, settleVars, gridVars, endVars, coordVars, queueVars, writerVars,
            callVars, outsideVars
<1> SUFFICES ASSUME Coordinator
             PROVE /\ UNCHANGED <<pauseFlag, stopped, rpc, held, decoded, readerError, wpc, at, workerError,
                       xpc, load, written, writerError, encoded, sealed, call, calls>>
                   /\ processing' => processing /\ (processing' # processing => phase = "pool")
  OBVIOUS
<1>1. CASE Dispatch \/ TakeEnd \/ NothingLeft \/ Drained
  BY <1>1 DEF Dispatch, TakeEnd, NothingLeft, Drained
<1>2. CASE Settle \/ Enqueue \/ Retire
  BY <1>2 DEF Settle, Enqueue, Retire
<1>3. CASE EnqueuePart \/ AllRetired \/ Boundary \/ Requeue
  BY <1>3 DEF EnqueuePart, AllRetired, Boundary, Requeue
<1>4. CASE Leave \/ StopWriter \/ JoinWriter \/ JoinReader
  BY <1>4 DEF Leave, StopWriter, JoinWriter, JoinReader
<1>5. CASE JoinPool
  BY <1>5 DEF JoinPool
<1> QED  BY <1>1, <1>2, <1>3, <1>4, <1>5 DEF Coordinator

LEMMA WriterFrame ==
    Writer =>
        UNCHANGED <<processing, pauseFlag, stopped, rpc, held, decoded, readerError, prefetch, workQ, wpc, at,
                    workerError, phase, back, inflight, hand, retry, bad, carry, chunkStart, chunkNo, requeued,
                    consumerDone, writerStop, raised, call, calls>>
BY DEF Writer, TakeItem, WriteFrame, AtSafePoint, Unpark, flagVars, readerVars, workerVars, settleVars, gridVars,
       endVars, coordVars, queueVars, writerVars, callVars

LEMMA CallFrame ==
    CallBegins \/ CallEnds =>
        /\ UNCHANGED <<rpc, held, decoded, readerError, prefetch, workQ, wpc, at, workerError, phase, back, inflight,
                       hand, retry, bad, carry, chunkStart, chunkNo, requeued, consumerDone, writerStop,
                       raised, writeQ, xpc, load, written, writerError, encoded, sealed>>
        /\ processing' => processing
        /\ pause' \in {pause, Asked(pause), Resumed(pause)}
<1> USE DEF flagVars, readerVars, workerVars, settleVars, gridVars, endVars, coordVars, queueVars, writerVars, callVars
<1>1. CASE CallBegins
  BY <1>1 DEF CallBegins
<1>2. CASE CallEnds
  BY <1>2 DEF CallEnds
<1> QED  BY <1>1, <1>2

LEMMA Stutter ==
    UNCHANGED vars =>
        UNCHANGED <<pause, processing, pauseFlag, stopped, rpc, held, decoded, readerError, prefetch, workQ, wpc, at,
                    workerError, phase, back, inflight, hand, retry, bad, carry, chunkStart, chunkNo, requeued,
                    consumerDone, writerStop, raised, writeQ, xpc, load, written, writerError, encoded, sealed,
                    call, calls>>
BY DEF vars, flagVars, readerVars, workerVars, settleVars, gridVars, endVars, coordVars, queueVars, writerVars, callVars

-----------------------------------------------------------------------------
(* Types.                                                                   *)

\* Every operation of the pause controller maps a controller state to one.
LEMMA PauseOps ==
    ASSUME NEW p \in PauseRec
    PROVE  /\ Asked(p) \in PauseRec /\ Resumed(p) \in PauseRec /\ Entered(p) \in PauseRec
           /\ Left(p) \in PauseRec /\ Reserved(p) \in PauseRec /\ Left(Reserved(p)) \in PauseRec
           /\ Released(p) \in PauseRec /\ \A n \in Nat : ReleasedMany(p, n) \in PauseRec
<1> USE DEF PauseRec
<1>0. ASSUME NEW q \in PauseRec PROVE Ack(q) \in PauseRec
  <2> DEFINE b == q.acked \/ (q.requested /\ q.active = 0 /\ q.pending = 0)
  <2>1. b \in BOOLEAN
    OBVIOUS
  <2>2. Ack(q) = [q EXCEPT !.acked = b]
    BY DEF Ack
  <2> HIDE DEF b
  <2> QED BY <2>1, <2>2
<1>1. [p EXCEPT !.requested = TRUE] \in PauseRec
  OBVIOUS
<1>2. Entered(p) \in PauseRec
  BY DEF Entered
<1>3. \A b \in BOOLEAN : [p EXCEPT !.requested = b, !.acked = b] \in PauseRec
  OBVIOUS
<1>4. Resumed(p) \in PauseRec
  BY <1>3 DEF Resumed
<1>5. \A q \in PauseRec : [q EXCEPT !.active = IF @ = 0 THEN 0 ELSE @ - 1] \in PauseRec
  OBVIOUS
<1>6. [p EXCEPT !.pending = @ + 1] \in PauseRec
  OBVIOUS
<1>7. [p EXCEPT !.pending = IF @ = 0 THEN 0 ELSE @ - 1] \in PauseRec
  OBVIOUS
<1>8. \A n \in Nat : [p EXCEPT !.pending = IF @ < n THEN 0 ELSE @ - n] \in PauseRec
  OBVIOUS
<1>9. Reserved(p) \in PauseRec
  BY <1>0, <1>6 DEF Reserved
<1>10. \A q \in PauseRec : Left(q) \in PauseRec
  BY <1>0, <1>5 DEF Left
<1> QED BY <1>0, <1>1, <1>2, <1>4, <1>7, <1>8, <1>9, <1>10 DEF Asked, Released, ReleasedMany

\* The results of a chunk, by their frames: what is stored under a frame is that frame.
Ident(S) == [g \in S |-> g]

LEMMA ItemsAre == /\ \A S : S \subseteq Frames => Ident(S) \in Items /\ DOMAIN Ident(S) = S
                  /\ \A f \in Items : f = Ident(DOMAIN f) /\ DOMAIN f \subseteq Frames
                  /\ NoFrames \in Items /\ DOMAIN NoFrames = {}
                  /\ DOMAIN EndOfWrites = {-1} /\ EndOfWrites \notin Items
<1>1. \A S : S \subseteq Frames => Ident(S) \in Items /\ DOMAIN Ident(S) = S
  BY DEF Items, Ident
<1>2. \A f \in Items : f = Ident(DOMAIN f) /\ DOMAIN f \subseteq Frames
  BY DEF Items, Ident
<1>3. NoFrames = Ident({})
  BY DEF NoFrames, Ident
<1>4. DOMAIN EndOfWrites = {-1} /\ -1 \notin Frames
  BY Sizes DEF EndOfWrites
<1> QED  BY <1>1, <1>2, <1>3, <1>4

LEMMA NoChunkIs == /\ NoChunk \notin ChunkRec /\ ~NoChunk.interrupted /\ NoChunk.got = {}
                   /\ NoChunk.no = -1
<1>1. NoChunk.no = -1
  BY DEF NoChunk
<1>2. \A c \in ChunkRec : c.no \in Nat
  BY DEF ChunkRec
<1> QED  BY <1>1, <1>2 DEF NoChunk

-----------------------------------------------------------------------------
(* Chunks in flight, and what a worker does to them.                        *)

LEMMA InflightTypes ==
    ASSUME Inv
    PROVE  /\ inflight \in Seq(ChunkRec) /\ Len(inflight) \in Nat
           /\ \A i \in 1 .. Len(inflight) : inflight[i] \in ChunkRec /\ ChunkOK(inflight[i]) /\ BlocksOf(inflight[i])
BY DEF Inv, Types, CoordTypes, ShapeInv, BlockInv, WorkInv

\* The number of a chunk names it.
LEMMA ChunkOfIs ==
    ASSUME Inv, NEW i \in 1 .. Len(inflight)
    PROVE  /\ ChunkOf(inflight[i].no) = i
           /\ \A j \in 1 .. Len(inflight) : inflight[j].no = inflight[i].no => j = i
<1>1. \A j \in 1 .. Len(inflight) : inflight[j].no = inflight[i].no => j = i
  <2> SUFFICES ASSUME NEW j \in 1 .. Len(inflight), inflight[j].no = inflight[i].no, j # i PROVE FALSE
    OBVIOUS
  <2>1. inflight[i].no \in Nat /\ inflight[j].no \in Nat /\ Len(inflight) \in Nat
    BY InflightTypes DEF ChunkRec
  <2>2. i < j \/ j < i
    BY <2>1
  <2>3. \A a, b \in 1 .. Len(inflight) : a < b => inflight[a].no < inflight[b].no
    BY DEF Inv, ShapeInv
  <2>4. inflight[i].no < inflight[j].no \/ inflight[j].no < inflight[i].no
    BY <2>2, <2>3
  <2> QED  BY <2>1, <2>4
<1>2. DOMAIN inflight = 1 .. Len(inflight)
  BY InflightTypes
<1> QED  BY <1>1, <1>2 DEF ChunkOf

LEMMA QueueTypes ==
    ASSUME Inv
    PROVE  /\ workQ \in Seq(BlockRec \cup {Quit}) /\ Len(workQ) \in Nat
           /\ \A k \in 1 .. Len(workQ) : /\ workQ[k].first \in Nat /\ workQ[k].last \in Nat /\ workQ[k].no \in Int
                                         /\ workQ[k] # Quit <=> workQ[k].no \in Nat
           /\ \A w \in Workers : at[w] \in AtRec /\ at[w].no \in Int /\ at[w].ci \in Nat /\ at[w].main \in Nat /\ at[w].end \in Nat
           /\ Busy \subseteq Workers /\ IsFiniteSet(Workers)
<1>1. workQ \in Seq(BlockRec \cup {Quit}) /\ Len(workQ) \in Nat /\ at \in [Workers -> AtRec]
  BY DEF Inv, Types, WorkerTypes
<1>2. /\ Quit.first = 0 /\ Quit.last = 0 /\ Quit.no = -1
      /\ \A b \in BlockRec : b.first \in Nat /\ b.last \in Nat /\ b.no \in Nat
  BY DEF BlockRec, Quit
<1>3. \A k \in 1 .. Len(workQ) : workQ[k] \in BlockRec \/ workQ[k] = Quit
  BY <1>1
<1>4. IsFiniteSet(Workers)
  BY Sizes, FS_Interval
<1>5. \A w \in Workers : at[w] \in AtRec
  BY <1>1
<1> QED  BY <1>1, <1>2, <1>3, <1>4, <1>5 DEF Busy, AtRec

LEMMA OwedFinite ==
    ASSUME Inv, NEW c
    PROVE  IsFiniteSet(Owed(c)) /\ Cardinality(Owed(c)) \in Nat
<1> DEFINE K == {j \in 1 .. Len(workQ) : workQ[j].no = c.no}
           V == {v \in Busy : at[v].no = c.no}
           A == {workQ[k].first : k \in K}
           B == {at[w].main - Len(c.carry) : w \in V}
<1>1. IsFiniteSet(K) /\ IsFiniteSet(V)
  <2>1. IsFiniteSet(1 .. Len(workQ)) /\ K \in SUBSET (1 .. Len(workQ)) /\ V \in SUBSET Workers
    BY QueueTypes, FS_Interval
  <2> QED  BY <2>1, QueueTypes, FS_Subset
<1> HIDE DEF K, V
<1>2. IsFiniteSet(A)
  <2> DEFINE f == [k \in K |-> workQ[k].first]
  <2>1. f \in [K -> A] /\ A = {f[k] : k \in K}
    OBVIOUS
  <2>2. f \in Surjection(K, A)
    BY <2>1 DEF Surjection
  <2> QED  BY <1>1, <2>2, FS_Surjection
<1>3. IsFiniteSet(B)
  <2> DEFINE f == [w \in V |-> at[w].main - Len(c.carry)]
  <2>1. f \in [V -> B] /\ B = {f[w] : w \in V}
    OBVIOUS
  <2>2. f \in Surjection(V, B)
    BY <2>1 DEF Surjection
  <2> QED  BY <1>1, <2>2, FS_Surjection
<1> HIDE DEF A, B
<1>4. IsFiniteSet(A \cup B)
  BY <1>2, <1>3, FS_Union
<1>5. Owed(c) = A \cup B
  BY DEF Owed, A, B, K, V
<1> QED  BY <1>4, <1>5, FS_CardinalityType

\* A chunk from which a block is out cannot be done.
LEMMA OwedPositive ==
    ASSUME Inv, NEW i \in 1 .. Len(inflight), Owed(inflight[i]) # {}
    PROVE  inflight[i].left \in Nat \ {0}
<1>1. Cardinality(Owed(inflight[i])) <= inflight[i].left /\ inflight[i].left \in Nat
  BY InflightTypes DEF BlocksOf, ChunkRec
<1>2. IsFiniteSet(Owed(inflight[i])) /\ Cardinality(Owed(inflight[i])) \in Nat
  BY OwedFinite
<1>3. Cardinality(Owed(inflight[i])) # 0
  BY <1>2, FS_EmptySet
<1> QED  BY <1>1, <1>2, <1>3

LEMMA BusyChunk ==
    ASSUME Inv, NEW w \in Busy
    PROVE  \E i \in 1 .. Len(inflight) :
              /\ inflight[i].no = at[w].no /\ Now(w) = inflight[i] /\ ChunkOf(at[w].no) = i
              /\ inflight[i].left \in Nat \ {0}
<1>1. PICK i \in 1 .. Len(inflight) : inflight[i].no = at[w].no
  BY DEF Inv, BlockInv, KnownInv
<1>2. Now(w) = inflight[i] /\ ChunkOf(at[w].no) = i
  BY <1>1, ChunkOfIs DEF Now
<1>3. at[w].main - Len(inflight[i].carry) \in Owed(inflight[i])
  BY <1>1 DEF Owed
<1> QED  BY <1>1, <1>2, <1>3, OwedPositive

LEMMA QueueChunk ==
    ASSUME Inv, NEW k \in 1 .. Len(workQ), workQ[k] # Quit
    PROVE  \E i \in 1 .. Len(inflight) :
              inflight[i].no = workQ[k].no /\ ChunkOf(workQ[k].no) = i /\ inflight[i].left \in Nat \ {0}
<1>1. PICK i \in 1 .. Len(inflight) : inflight[i].no = workQ[k].no
  BY DEF Inv, BlockInv, KnownInv
<1>2. ChunkOf(workQ[k].no) = i
  BY <1>1, ChunkOfIs
<1>3. workQ[k].first \in Owed(inflight[i])
  BY <1>1 DEF Owed
<1> QED  BY <1>1, <1>2, <1>3, OwedPositive

\* The chunk at place i is another one now, the rest is as it was.
Touched(i, d) == /\ inflight' \in Seq(ChunkRec) /\ Len(inflight') = Len(inflight) /\ inflight'[i] = d
                 /\ \A j \in 1 .. Len(inflight) : j # i => inflight'[j] = inflight[j]

\* d is the chunk c in another state.
Same(c, d) == /\ d \in ChunkRec
              /\ d.no = c.no /\ d.start = c.start /\ d.chunk = c.chunk /\ d.carry = c.carry

\* A chunk with a block less to do.
Lighter(c, d) == Same(c, d) /\ d.got = c.got /\ d.left = c.left - 1 /\ (c.interrupted => d.interrupted)

LEMMA LeftField ==
    ASSUME NEW c \in ChunkRec, NEW l \in Nat
    PROVE  /\ Same(c, [c EXCEPT !.left = l]) /\ [c EXCEPT !.left = l].left = l
           /\ [c EXCEPT !.left = l].got = c.got /\ [c EXCEPT !.left = l].interrupted = c.interrupted
BY DEF Same, ChunkRec

LEMMA InterruptedField ==
    ASSUME NEW c \in ChunkRec, NEW b \in BOOLEAN
    PROVE  /\ Same(c, [c EXCEPT !.interrupted = b]) /\ [c EXCEPT !.interrupted = b].interrupted = b
           /\ [c EXCEPT !.interrupted = b].got = c.got /\ [c EXCEPT !.interrupted = b].left = c.left
BY DEF Same, ChunkRec

LEMMA GotField ==
    ASSUME NEW c \in ChunkRec, NEW g \in SUBSET Nat, NEW d, d = [c EXCEPT !.got = g]
    PROVE  Same(c, d) /\ d.got = g /\ d.left = c.left /\ d.interrupted = c.interrupted
BY DEF Same, ChunkRec

LEMMA TouchedIs ==
    ASSUME Inv, NEW i \in 1 .. Len(inflight), NEW d \in ChunkRec,
           DOMAIN inflight' = 1 .. Len(inflight), inflight'[i] = d,
           inflight' = [j \in 1 .. Len(inflight) |-> inflight'[j]],
           \A j \in 1 .. Len(inflight) : inflight[j].no # inflight[i].no => inflight'[j] = inflight[j]
    PROVE  Touched(i, d)
<1>1. \A j \in 1 .. Len(inflight) : j # i => inflight'[j] = inflight[j]
  BY ChunkOfIs
<1>2. \A j \in 1 .. Len(inflight) : inflight'[j] \in ChunkRec
  BY <1>1, InflightTypes
<1>3. [j \in 1 .. Len(inflight) |-> inflight'[j]] \in Seq(ChunkRec)
  BY <1>2, InflightTypes
<1>4. inflight' \in Seq(ChunkRec) /\ Len(inflight') = Len(inflight)
  BY <1>3, InflightTypes
<1> QED  BY <1>1, <1>4 DEF Touched

LEMMA InterruptEffect ==
    ASSUME Inv, NEW i \in 1 .. Len(inflight), inflight[i].left \in Nat \ {0},
           Mark(inflight[i].no, LAMBDA c : Interrupted(Finished(c)))
    PROVE  \E d \in ChunkRec : Touched(i, d) /\ Lighter(inflight[i], d) /\ d.interrupted
<1>0. DOMAIN inflight = 1 .. Len(inflight) /\ inflight[i] \in ChunkRec
  BY InflightTypes
<1> DEFINE e == Finished(inflight[i])
           d == Interrupted(e)
<1>1. e \in ChunkRec /\ Lighter(inflight[i], e)
  <2>1. inflight[i].left - 1 \in Nat
    OBVIOUS
  <2>2. PICK l \in Nat : l = inflight[i].left - 1
    BY <2>1
  <2>3. e = [inflight[i] EXCEPT !.left = l]
    BY <2>2 DEF Finished
  <2> HIDE DEF d
  <2>4. Same(inflight[i], e) /\ e.left = l /\ e.got = inflight[i].got /\ e.interrupted = inflight[i].interrupted
    BY <1>0, <2>3, LeftField
  <2> QED  BY <2>2, <2>4 DEF Lighter, Same
<1>2. /\ inflight' = [j \in 1 .. Len(inflight) |-> inflight'[j]] /\ DOMAIN inflight' = 1 .. Len(inflight)
      /\ inflight'[i] = d
      /\ \A j \in 1 .. Len(inflight) : inflight[j].no # inflight[i].no => inflight'[j] = inflight[j]
  BY <1>0 DEF Mark
<1> HIDE DEF e
<1>3. d \in ChunkRec /\ d.interrupted /\ Lighter(inflight[i], d)
  <2>1. PICK b \in BOOLEAN : b = TRUE
    OBVIOUS
  <2>2. Same(e, [e EXCEPT !.interrupted = b]) /\ [e EXCEPT !.interrupted = b].interrupted = b
        /\ [e EXCEPT !.interrupted = b].got = e.got /\ [e EXCEPT !.interrupted = b].left = e.left
    BY <1>1, InterruptedField
  <2>3. d = [e EXCEPT !.interrupted = b]
    BY <2>1 DEF Interrupted
  <2> HIDE DEF d
  <2>4. Same(e, d) /\ d.interrupted = b /\ d.got = e.got /\ d.left = e.left
    BY <2>2, <2>3
  <2> QED  BY <1>1, <2>1, <2>4 DEF Lighter, Same
<1> HIDE DEF d
<1>4. Touched(i, d)
  BY <1>2, <1>3, TouchedIs
<1> QED  BY <1>3, <1>4

LEMMA FinishEffect ==
    ASSUME Inv, NEW i \in 1 .. Len(inflight), inflight[i].left \in Nat \ {0},
           \/ Mark(inflight[i].no, Finished)
           \/ Mark(inflight[i].no, LAMBDA c : Interrupted(Finished(c)))
    PROVE  \E d \in ChunkRec : Touched(i, d) /\ Lighter(inflight[i], d)
<1>0. DOMAIN inflight = 1 .. Len(inflight) /\ inflight[i] \in ChunkRec
  BY InflightTypes
<1>1. CASE Mark(inflight[i].no, LAMBDA c : Interrupted(Finished(c)))
  BY <1>1, InterruptEffect
<1>2. CASE Mark(inflight[i].no, Finished)
  <2> DEFINE d == Finished(inflight[i])
  <2>1. d \in ChunkRec /\ Lighter(inflight[i], d)
    <3>1. inflight[i].left - 1 \in Nat
      OBVIOUS
    <3>2. PICK l \in Nat : l = inflight[i].left - 1
      BY <3>1
    <3>3. d = [inflight[i] EXCEPT !.left = l]
      BY <3>2 DEF Finished
    <3> HIDE DEF d
    <3>4. Same(inflight[i], d) /\ d.left = l /\ d.got = inflight[i].got /\ d.interrupted = inflight[i].interrupted
      BY <1>0, <3>3, LeftField
    <3> QED  BY <3>2, <3>4 DEF Lighter, Same
  <2>2. /\ inflight' = [j \in 1 .. Len(inflight) |-> inflight'[j]] /\ DOMAIN inflight' = 1 .. Len(inflight)
        /\ inflight'[i] = d
        /\ \A j \in 1 .. Len(inflight) : inflight[j].no # inflight[i].no => inflight'[j] = inflight[j]
    BY <1>0, <1>2 DEF Mark
  <2> HIDE DEF d
  <2>3. Touched(i, d)
    BY <2>1, <2>2, TouchedIs
  <2> QED  BY <1>2, <2>1, <2>3
<1> QED  BY <1>1, <1>2

\* The frames of a chunk, by their places in it.
LEMMA Places ==
    ASSUME NEW c \in ChunkRec, ChunkOK(c)
    PROVE  /\ Len(c.carry) \in Nat /\ Len(c.chunk) \in Nat \ {0} /\ Len(c.carry) <= c.start /\ c.start \in Nat
           /\ BaseGlobal(c) \in Nat /\ BaseGlobal(c) + Len(c.carry) = c.start
           /\ EndOf(c) \in Nat /\ EndOf(c) <= TotalFrames /\ c.start < EndOf(c)
           /\ \A p \in Nat : IndexAt(c, p) = BaseGlobal(c) + p
           /\ \A p \in 0 .. Len(Combined(c)) - 1 : FrameAt(c, p) = IndexAt(c, p)
           /\ Len(Combined(c)) = Len(c.carry) + Len(c.chunk)
           /\ IsFiniteSet(c.got) /\ Cardinality(c.got) \in Nat /\ c.got \subseteq Frames
<1>1. /\ c.start \in Nat /\ c.carry \in Seq(Nat) /\ c.chunk \in Seq(Nat) /\ Len(c.chunk) \in 1 .. Chunk
      /\ c.carry = Span(c.start - Len(c.carry), Len(c.carry)) /\ c.chunk = Span(c.start, Len(c.chunk))
      /\ EndOf(c) <= TotalFrames /\ c.got \subseteq c.start .. EndOf(c) - 1
      /\ Len(c.carry) = Smaller(WarmUp, c.start)
  BY DEF ChunkRec, ChunkOK
<1>2. Len(c.carry) \in Nat /\ Len(c.chunk) \in Nat \ {0} /\ Len(c.carry) <= c.start
  BY <1>1, Sizes DEF Smaller
<1>3. /\ BaseGlobal(c) \in Nat /\ BaseGlobal(c) + Len(c.carry) = c.start /\ EndOf(c) \in Nat /\ c.start < EndOf(c)
      /\ \A p \in Nat : IndexAt(c, p) = BaseGlobal(c) + p
  BY SMTT(30), <1>1, <1>2 DEF BaseGlobal, EndOf, IndexAt
<1>4. /\ Len(Combined(c)) = Len(c.carry) + Len(c.chunk)
      /\ \A i \in 1 .. Len(c.carry) + Len(c.chunk) :
            Combined(c)[i] = IF i <= Len(c.carry) THEN c.carry[i] ELSE c.chunk[i - Len(c.carry)]
  BY <1>1, ConcatProperties DEF Combined
<1>5. ASSUME NEW p \in 0 .. Len(Combined(c)) - 1 PROVE FrameAt(c, p) = IndexAt(c, p)
  <2> DEFINE n == Len(c.carry)
             m == Len(c.chunk)
             a == c.start
             b == BaseGlobal(c)
  <2>0. n \in Nat /\ m \in Nat /\ a \in Nat /\ b \in Nat /\ b + n = a /\ Len(Combined(c)) = n + m
    BY <1>1, <1>2, <1>3, <1>4
  <2>1. c.carry = Span(a - n, n) /\ c.chunk = Span(a, m)
    BY <1>1
  <2>2. \A i \in 1 .. n + m : Combined(c)[i] = IF i <= n THEN c.carry[i] ELSE c.chunk[i - n]
    BY <1>4
  <2>3. FrameAt(c, p) = Combined(c)[p + 1] /\ \A q \in Nat : IndexAt(c, q) = b + q
    BY <1>3 DEF FrameAt
  <2> HIDE DEF n, m, a, b
  <2>4. p \in Nat /\ p + 1 \in 1 .. n + m
    BY <2>0
  <2>5. IndexAt(c, p) = b + p
    BY <2>3, <2>4
  <2>6. CASE p + 1 <= n
    <3>1. Combined(c)[p + 1] = c.carry[p + 1]
      BY <2>2, <2>4, <2>6
    <3>2. Span(a - n, n)[p + 1] = a - n + (p + 1) - 1
      BY <2>0, <2>4, <2>6 DEF Span
    <3>3. c.carry[p + 1] = a - n + (p + 1) - 1
      BY <2>1, <3>2
    <3>4. a - n + (p + 1) - 1 = b + p
      BY <2>0, <2>4
    <3> QED  BY <2>3, <2>5, <3>1, <3>3, <3>4
  <2>7. CASE ~(p + 1 <= n)
    <3>1. PICK q \in 1 .. n + m : q = p + 1
      BY <2>4
    <3>2. Combined(c)[q] = c.chunk[q - n]
      BY <2>2, <2>7, <3>1
    <3>3. Span(a, m)[q - n] = a + (q - n) - 1
      BY <2>0, <2>7, <3>1 DEF Span
    <3>4. a + (q - n) - 1 = b + p
      BY <2>0, <2>4, <3>1
    <3> QED  BY <2>1, <2>3, <2>5, <3>1, <3>2, <3>3, <3>4
  <2> QED  BY <2>6, <2>7
<1>6. PICK a \in Nat, e \in Nat : a = c.start /\ e = EndOf(c)
  BY <1>1, <1>3
<1>6a. a \in Int /\ e - 1 \in Int
  BY <1>6
<1>7. c.got \subseteq a .. e - 1 /\ e <= TotalFrames
  BY <1>1, <1>6
<1>8. IsFiniteSet(c.got) /\ Cardinality(c.got) \in Nat
  <2>1. IsFiniteSet(a .. e - 1) /\ c.got \in SUBSET (a .. e - 1)
    BY <1>7, <1>6a, FS_Interval
  <2> QED  BY <2>1, FS_Subset, FS_CardinalityType
<1>9. c.got \subseteq Frames
  BY <1>6, <1>7, Sizes
<1> QED  BY <1>1, <1>2, <1>3, <1>4, <1>5, <1>8, <1>9

\* The frame a worker is on, once its warm-up is over.
LEMMA FrameAtWork ==
    ASSUME Inv, NEW w \in Busy, NEW i \in 1 .. Len(inflight), inflight[i].no = at[w].no, at[w].main <= at[w].ci
    PROVE  /\ IndexAt(inflight[i], at[w].ci) \in inflight[i].start .. EndOf(inflight[i]) - 1
           /\ IndexAt(inflight[i], at[w].ci) = FrameAt(inflight[i], at[w].ci)
           /\ IndexAt(inflight[i], at[w].ci) \notin inflight[i].got
           /\ IndexAt(inflight[i], at[w].ci) - BaseGlobal(inflight[i]) = at[w].ci
<1> DEFINE c == inflight[i]
<1>1. c \in ChunkRec /\ ChunkOK(c) /\ BlocksOf(c)
  BY InflightTypes
<1>2. w \in Workers /\ at[w].ci \in Nat /\ at[w].main \in Nat /\ at[w].end \in Nat
  BY QueueTypes
<1>3. /\ Len(c.carry) <= at[w].main /\ at[w].main < at[w].end /\ at[w].ci < at[w].end
      /\ at[w].end <= Len(c.carry) + Len(c.chunk)
      /\ \A g \in c.got : ~(at[w].main <= g - BaseGlobal(c) /\ at[w].ci <= g - BaseGlobal(c) /\ g - BaseGlobal(c) < at[w].end)
  BY <1>1 DEF BlocksOf, WorkOK, InWork
<1> HIDE DEF c
<1>4. /\ Len(c.carry) \in Nat /\ Len(c.chunk) \in Nat \ {0} /\ c.start \in Nat /\ BaseGlobal(c) \in Nat
      /\ BaseGlobal(c) + Len(c.carry) = c.start /\ IndexAt(c, at[w].ci) = BaseGlobal(c) + at[w].ci
      /\ EndOf(c) = c.start + Len(c.chunk) /\ Len(Combined(c)) = Len(c.carry) + Len(c.chunk)
  BY <1>1, <1>2, Places DEF EndOf
<1>5. PICK p \in Nat, n \in Nat, m \in Nat, a \in Nat, b \in Nat, t \in Nat :
          p = at[w].ci /\ n = Len(c.carry) /\ m = Len(c.chunk) /\ a = c.start /\ b = BaseGlobal(c) /\ t = at[w].end
  BY <1>2, <1>4
<1>6. /\ n <= at[w].main /\ at[w].main <= p /\ p < t /\ t <= n + m /\ b + n = a /\ IndexAt(c, p) = b + p
      /\ EndOf(c) = a + m /\ Len(Combined(c)) = n + m
      /\ \A g \in c.got : ~(at[w].main <= g - b /\ p <= g - b /\ g - b < t)
  BY <1>3, <1>4, <1>5
<1>7. n <= p
  <2>1. PICK q \in Nat : q = at[w].main
    BY <1>2
  <2> QED  BY <1>6, <2>1
<1>8. IndexAt(c, p) - b = p /\ p \in 0 .. Len(Combined(c)) - 1 /\ IndexAt(c, p) \in a .. EndOf(c) - 1
  BY <1>6, <1>7
<1>9. IndexAt(c, p) = FrameAt(c, p)
  BY <1>1, <1>8, Places
<1>10. IndexAt(c, p) \notin c.got
  BY <1>6, <1>8
<1> QED  BY <1>5, <1>8, <1>9, <1>10 DEF c

LEMMA KeepEffect ==
    ASSUME Inv, NEW w \in Busy, Keep(w)
    PROVE  \E i \in 1 .. Len(inflight), d \in ChunkRec :
              LET c == inflight[i]
                  last == at[w].ci + 1 = at[w].end
              IN  /\ c.no = at[w].no /\ Now(w) = c /\ Touched(i, d) /\ Same(c, d)
                  /\ d.got = IF WarmingUp(w) THEN c.got ELSE c.got \cup {IndexAt(c, at[w].ci)}
                  /\ d.left = (IF last THEN c.left - 1 ELSE c.left)
                  /\ d.interrupted = c.interrupted
                  /\ at' = IF last THEN [at EXCEPT ![w] = Nowhere] ELSE [at EXCEPT ![w].ci = @ + 1]
                  /\ wpc' = [wpc EXCEPT ![w] = IF last THEN "idle" ELSE "frame"]
<1>1. PICK i \in 1 .. Len(inflight) : inflight[i].no = at[w].no /\ Now(w) = inflight[i] /\ inflight[i].left \in Nat \ {0}
  BY BusyChunk
<1> DEFINE c    == inflight[i]
           last == at[w].ci + 1 = at[w].end
           gi   == IndexAt(c, at[w].ci)
           Add(e) == [e EXCEPT !.got = IF WarmingUp(w) THEN @ ELSE @ \cup {gi}, !.left = IF last THEN @ - 1 ELSE @]
           d    == Add(c)
<1>2. /\ Mark(at[w].no, Add)
      /\ at' = IF last THEN [at EXCEPT ![w] = Nowhere] ELSE [at EXCEPT ![w].ci = @ + 1]
      /\ wpc' = [wpc EXCEPT ![w] = IF last THEN "idle" ELSE "frame"]
  BY <1>1 DEF Keep
<1>3. c \in ChunkRec /\ DOMAIN inflight = 1 .. Len(inflight) /\ c.got \in SUBSET Nat /\ c.left \in Nat \ {0}
  BY <1>1, InflightTypes DEF ChunkRec
<1>4. PICK g \in SUBSET Nat : g = IF WarmingUp(w) THEN c.got ELSE c.got \cup {gi}
  <2>1. CASE WarmingUp(w)
    BY <1>3, <2>1
  <2>2. CASE ~WarmingUp(w)
    <3>1. at[w].main <= at[w].ci /\ c \in ChunkRec /\ ChunkOK(c)
      BY <2>2, QueueTypes, InflightTypes DEF WarmingUp
    <3>2. c.start \in Nat /\ EndOf(c) \in Nat /\ gi \in c.start .. EndOf(c) - 1
      BY <1>1, <3>1, FrameAtWork, Places
    <3>3. gi \in Nat
      BY <3>2
    <3> QED  BY <1>3, <2>2, <3>3
  <2> QED  BY <2>1, <2>2
<1>5. PICK l \in Nat : l = IF last THEN c.left - 1 ELSE c.left
  BY <1>3
<1>6. d = [c EXCEPT !.got = g, !.left = l]
  BY <1>4, <1>5
<1>7. /\ inflight' = [j \in 1 .. Len(inflight) |-> inflight'[j]] /\ DOMAIN inflight' = 1 .. Len(inflight)
      /\ inflight'[i] = d
      /\ \A j \in 1 .. Len(inflight) : inflight[j].no # inflight[i].no => inflight'[j] = inflight[j]
  BY <1>1, <1>2, <1>3 DEF Mark
<1> HIDE DEF d
<1>8. Same(c, d) /\ d.got = g /\ d.left = l /\ d.interrupted = c.interrupted
  <2> HIDE DEF c, gi, last
  <2>1. PICK e \in ChunkRec : e = c
    BY <1>3
  <2>2. d = [e EXCEPT !.got = g, !.left = l]
    BY <1>6, <2>1
  <2>3. Same(e, d) /\ d.got = g /\ d.left = l /\ d.interrupted = e.interrupted
    BY <2>2 DEF Same, ChunkRec
  <2> QED  BY <2>1, <2>3
<1>9. d \in ChunkRec /\ Touched(i, d)
  BY <1>7, <1>8, TouchedIs DEF Same
<1> QED  BY <1>1, <1>2, <1>4, <1>5, <1>8, <1>9

-----------------------------------------------------------------------------
(* The steps of a worker, by what they do to the chunk at place i.          *)

Takes(w) == wpc[w] = "idle" /\ workQ # <<>> /\ workQ' = Tail(workQ) /\ UNCHANGED pause

Quits(w) == /\ Takes(w) /\ Head(workQ) = Quit
            /\ wpc' = [wpc EXCEPT ![w] = "done"] /\ UNCHANGED <<at, inflight, workerError, processing>>

Drops(w, i, d) == /\ Takes(w) /\ Head(workQ) # Quit /\ inflight[i].no = Head(workQ).no
                  /\ UNCHANGED <<wpc, at>> /\ ~processing' /\ workerError' \in {workerError, TRUE}
                  /\ Touched(i, d) /\ Lighter(inflight[i], d)

Starts(w, i, a) == /\ Takes(w) /\ Head(workQ) # Quit /\ inflight[i].no = Head(workQ).no /\ processing
                   /\ a.no = Head(workQ).no /\ a.main = Len(inflight[i].carry) + Head(workQ).first
                   /\ a.end = Len(inflight[i].carry) + Head(workQ).last /\ a.ci <= a.main
                   /\ at' = [at EXCEPT ![w] = a] /\ wpc' = [wpc EXCEPT ![w] = "frame"]
                   /\ UNCHANGED <<inflight, workerError, processing>>

Returns(w, i, d) == /\ wpc[w] = "frame" /\ inflight[i].no = at[w].no
                    /\ wpc' = [wpc EXCEPT ![w] = "idle"] /\ at' = [at EXCEPT ![w] = Nowhere]
                    /\ UNCHANGED <<workQ, workerError, processing, pause>>
                    /\ Touched(i, d) /\ Lighter(inflight[i], d) /\ (processing => d.interrupted)

Enters(w) == /\ wpc[w] = "frame" /\ wpc' = [wpc EXCEPT ![w] = "run"] /\ pause' = Entered(pause)
             /\ ~pause.requested /\ UNCHANGED <<workQ, workerError, processing, at, inflight>>

Fails(w, i) == /\ wpc[w] = "run" /\ wpc' = [wpc EXCEPT ![w] = "fallback"] /\ pause' = Left(pause)
               /\ inflight[i].no = at[w].no /\ at[w].main <= at[w].ci /\ FrameAt(inflight[i], at[w].ci) \in Faulty
               /\ UNCHANGED <<workQ, workerError, processing, at, inflight>>

Keeps(w, i, d) ==
    /\ wpc[w] \in {"run", "fallback"} /\ inflight[i].no = at[w].no
    /\ UNCHANGED <<workQ, workerError, processing>>
    /\ Touched(i, d) /\ Same(inflight[i], d) /\ d.interrupted = inflight[i].interrupted
    /\ \/ at[w].ci < at[w].main /\ d.got = inflight[i].got /\ wpc[w] = "run" /\ pause' = Left(pause)
       \/ /\ at[w].main <= at[w].ci /\ d.got = inflight[i].got \cup {IndexAt(inflight[i], at[w].ci)}
          /\ pause' = IF wpc[w] = "run" THEN Left(Reserved(pause)) ELSE Reserved(pause)
    /\ \/ /\ at[w].ci + 1 = at[w].end /\ d.left = inflight[i].left - 1
          /\ at' = [at EXCEPT ![w] = Nowhere] /\ wpc' = [wpc EXCEPT ![w] = "idle"]
       \/ /\ at[w].ci + 1 # at[w].end /\ d.left = inflight[i].left
          /\ at' = [at EXCEPT ![w].ci = at[w].ci + 1] /\ wpc' = [wpc EXCEPT ![w] = "frame"]

LEMMA KeepsIs ==
    ASSUME Inv, NEW w \in Workers, wpc[w] \in {"run", "fallback"}, Keep(w), UNCHANGED <<workQ, workerError, processing>>,
           \/ wpc[w] = "run" /\ pause' = IF WarmingUp(w) THEN Left(pause) ELSE Left(Reserved(pause))
           \/ wpc[w] = "fallback" /\ pause' = Reserved(pause)
    PROVE  \E i \in 1 .. Len(inflight), d \in ChunkRec : Keeps(w, i, d)
<1>1. w \in Busy
  BY DEF Busy
<1>2. PICK i \in 1 .. Len(inflight), d \in ChunkRec :
              /\ inflight[i].no = at[w].no /\ Now(w) = inflight[i] /\ Touched(i, d) /\ Same(inflight[i], d)
              /\ d.got = IF WarmingUp(w) THEN inflight[i].got ELSE inflight[i].got \cup {IndexAt(inflight[i], at[w].ci)}
              /\ d.left = (IF at[w].ci + 1 = at[w].end THEN inflight[i].left - 1 ELSE inflight[i].left)
              /\ d.interrupted = inflight[i].interrupted
              /\ at' = IF at[w].ci + 1 = at[w].end THEN [at EXCEPT ![w] = Nowhere] ELSE [at EXCEPT ![w].ci = @ + 1]
              /\ wpc' = [wpc EXCEPT ![w] = IF at[w].ci + 1 = at[w].end THEN "idle" ELSE "frame"]
  BY <1>1, KeepEffect
<1>3. WarmingUp(w) <=> at[w].ci < at[w].main
  BY DEF WarmingUp
<1>4. at[w].ci \in Nat /\ at[w].main \in Nat
  BY QueueTypes
<1>5. wpc[w] = "fallback" => ~WarmingUp(w)
  <2>1. BlocksOf(inflight[i])
    BY <1>2, InflightTypes
  <2>2. wpc[w] = "fallback" => at[w].main <= at[w].ci
    BY <1>1, <1>2, <2>1 DEF BlocksOf, FailOK
  <2> QED  BY <1>3, <1>4, <2>2
<1>6. \/ at[w].ci < at[w].main /\ d.got = inflight[i].got /\ wpc[w] = "run" /\ pause' = Left(pause)
      \/ /\ at[w].main <= at[w].ci /\ d.got = inflight[i].got \cup {IndexAt(inflight[i], at[w].ci)}
         /\ pause' = IF wpc[w] = "run" THEN Left(Reserved(pause)) ELSE Reserved(pause)
  BY <1>2, <1>3, <1>4, <1>5
<1>7. \/ /\ at[w].ci + 1 = at[w].end /\ d.left = inflight[i].left - 1
         /\ at' = [at EXCEPT ![w] = Nowhere] /\ wpc' = [wpc EXCEPT ![w] = "idle"]
      \/ /\ at[w].ci + 1 # at[w].end /\ d.left = inflight[i].left
         /\ at' = [at EXCEPT ![w].ci = at[w].ci + 1] /\ wpc' = [wpc EXCEPT ![w] = "frame"]
  BY <1>2
<1> QED  BY <1>2, <1>6, <1>7 DEF Keeps

WorkerStep(w) ==
    \/ Quits(w) \/ Enters(w)
    \/ \E i \in 1 .. Len(inflight) :
          \/ \E d \in ChunkRec : Drops(w, i, d) \/ Returns(w, i, d) \/ Keeps(w, i, d)
          \/ \E a \in AtRec : Starts(w, i, a)
          \/ Fails(w, i)

LEMMA TakeBlockIs ==
    ASSUME Inv, NEW w \in Workers, TakeBlock(w)
    PROVE  WorkerStep(w)
<1> DEFINE b == Head(workQ)
<1>1. workQ \in Seq(BlockRec \cup {Quit}) /\ workQ # <<>> /\ Takes(w) /\ b = workQ[1] /\ 1 \in 1 .. Len(workQ)
  BY QueueTypes DEF TakeBlock, Takes
<1>2. CASE b = Quit
  <2>1. Quits(w)
    BY <1>1, <1>2 DEF TakeBlock, Quits
  <2> QED  BY <2>1 DEF WorkerStep
<1>3. CASE b # Quit
  <2>1. PICK i \in 1 .. Len(inflight) :
              inflight[i].no = b.no /\ ChunkOf(b.no) = i /\ inflight[i].left \in Nat \ {0}
    BY <1>1, <1>3, QueueChunk
  <2> DEFINE start == Len(inflight[i].carry) + b.first
  <2>2. /\ inflight[i].carry \in Seq(Nat) /\ Len(inflight[i].carry) \in Nat
        /\ b.first \in Nat /\ b.last \in Nat /\ b.no \in Int /\ start \in Nat
    <3>1. inflight[i].carry \in Seq(Nat) /\ Len(inflight[i].carry) \in Nat
      BY InflightTypes DEF ChunkRec
    <3>2. b.first \in Nat /\ b.last \in Nat /\ b.no \in Int
      BY <1>1, QueueTypes
    <3> HIDE DEF b
    <3> QED  BY <3>1, <3>2
  <2>3. CASE Mark(b.no, Finished) /\ UNCHANGED <<wpc, at>> /\ ~processing' /\ workerError' \in {workerError, TRUE}
    <3>1. Mark(inflight[i].no, Finished)
      BY <2>1, <2>3
    <3>2. PICK d \in ChunkRec : Touched(i, d) /\ Lighter(inflight[i], d)
      BY <2>1, <3>1, FinishEffect
    <3>3. Drops(w, i, d)
      BY <1>1, <1>3, <2>1, <2>3, <3>2 DEF Drops
    <3> QED  BY <3>3 DEF WorkerStep
  <2>4. CASE /\ processing /\ wpc' = [wpc EXCEPT ![w] = "frame"] /\ UNCHANGED <<inflight, workerError, processing>>
             /\ at' = [at EXCEPT ![w] = [no |-> b.no, main |-> start, end |-> Len(inflight[i].carry) + b.last,
                                         ci |-> IF start > WarmUp THEN start - WarmUp ELSE 0]]
    <3> DEFINE ci == IF start > WarmUp THEN start - WarmUp ELSE 0
               a == [no |-> b.no, main |-> start, end |-> Len(inflight[i].carry) + b.last, ci |-> ci]
    <3>1. ci \in Nat /\ ci <= start /\ Len(inflight[i].carry) + b.last \in Nat
      <4> HIDE DEF start, b
      <4>1. PICK n \in Nat, m \in Nat : n = start /\ m = Len(inflight[i].carry)
        BY <2>2
      <4>2. ci = IF n > WarmUp THEN n - WarmUp ELSE 0
        BY <4>1
      <4>3. ci \in Nat /\ ci <= n
        BY <4>2, Sizes
      <4> QED  BY <2>2, <4>1, <4>3
    <3> HIDE DEF ci
    <3>2. a \in AtRec /\ a.no = b.no /\ a.main = start /\ a.end = Len(inflight[i].carry) + b.last /\ a.ci <= a.main
      BY <2>2, <3>1 DEF AtRec
    <3>3. at' = [at EXCEPT ![w] = a]
      BY <2>4 DEF ci
    <3> HIDE DEF a
    <3>4. Starts(w, i, a)
      BY <1>1, <1>3, <2>1, <2>4, <3>2, <3>3 DEF Starts
    <3> QED  BY <3>2, <3>4 DEF WorkerStep
  <2>5. \/ Mark(b.no, Finished) /\ UNCHANGED <<wpc, at>> /\ ~processing' /\ workerError' \in {workerError, TRUE}
        \/ /\ processing /\ wpc' = [wpc EXCEPT ![w] = "frame"] /\ UNCHANGED <<inflight, workerError, processing>>
           /\ at' = [at EXCEPT ![w] = [no |-> b.no, main |-> start, end |-> Len(inflight[i].carry) + b.last,
                                       ci |-> IF start > WarmUp THEN start - WarmUp ELSE 0]]
    BY <1>3, <2>1 DEF TakeBlock
  <2> QED  BY <2>3, <2>4, <2>5
<1> QED  BY <1>2, <1>3

LEMMA HandBackIs ==
    ASSUME Inv, NEW w \in Workers, HandBack(w)
    PROVE  WorkerStep(w)
<1>1. /\ wpc[w] = "frame" /\ wpc' = [wpc EXCEPT ![w] = "idle"] /\ at' = [at EXCEPT ![w] = Nowhere]
      /\ UNCHANGED <<workQ, workerError, processing, pause>>
  BY DEF HandBack, flagVars
<1>2. PICK i \in 1 .. Len(inflight) : inflight[i].no = at[w].no /\ inflight[i].left \in Nat \ {0}
  <2>1. w \in Busy
    BY <1>1 DEF Busy
  <2> QED  BY <2>1, BusyChunk
<1>3. \/ ~processing /\ Mark(inflight[i].no, Finished)
      \/ (~processing \/ pause.requested) /\ Mark(inflight[i].no, LAMBDA c : Interrupted(Finished(c)))
  BY <1>2 DEF HandBack
<1>4. PICK d \in ChunkRec : Touched(i, d) /\ Lighter(inflight[i], d) /\ (processing => d.interrupted)
  <2>1. CASE ~processing
    BY <1>2, <1>3, <2>1, FinishEffect
  <2>2. CASE processing
    <3>1. Mark(inflight[i].no, LAMBDA c : Interrupted(Finished(c)))
      BY <1>3, <2>2
    <3>2. \E d \in ChunkRec : Touched(i, d) /\ Lighter(inflight[i], d) /\ d.interrupted
      BY <1>2, <3>1, InterruptEffect
    <3> QED  BY <3>2
  <2> QED  BY <2>1, <2>2
<1>5. Returns(w, i, d)
  BY <1>1, <1>2, <1>4 DEF Returns
<1> QED  BY <1>5 DEF WorkerStep

LEMMA WorkerSteps ==
    ASSUME Inv, NEW w \in Workers, Worker(w)
    PROVE  WorkerStep(w)
<1>1. CASE Enter(w)
  <2>1. Enters(w)
    BY <1>1 DEF Enter, Enters, flagVars, queueVars
  <2> QED  BY <2>1 DEF WorkerStep
<1>2. CASE Run(w) \/ Fallback(w)
  <2>1. UNCHANGED <<workQ, workerError, processing>> /\ wpc[w] \in {"run", "fallback"}
    BY <1>2 DEF Run, Fallback, flagVars
  <2>2. CASE /\ Keep(w)
             /\ \/ wpc[w] = "run" /\ pause' = IF WarmingUp(w) THEN Left(pause) ELSE Left(Reserved(pause))
                \/ wpc[w] = "fallback" /\ pause' = Reserved(pause)
    <3>1. PICK i \in 1 .. Len(inflight), d \in ChunkRec : Keeps(w, i, d)
      BY <2>1, <2>2, KeepsIs
    <3> QED  BY <3>1 DEF WorkerStep
  <2>3. CASE /\ wpc[w] = "run" /\ ~WarmingUp(w) /\ FrameAt(Now(w), at[w].ci) \in Faulty /\ pause' = Left(pause)
             /\ wpc' = [wpc EXCEPT ![w] = "fallback"] /\ UNCHANGED <<at, inflight>>
    <3>1. w \in Busy
      BY <2>3 DEF Busy
    <3>2. PICK i \in 1 .. Len(inflight) : inflight[i].no = at[w].no /\ Now(w) = inflight[i]
      BY <3>1, BusyChunk
    <3>3. at[w].main <= at[w].ci
      BY <2>3, QueueTypes DEF WarmingUp
    <3>4. Fails(w, i)
      BY <2>1, <2>3, <3>2, <3>3 DEF Fails
    <3> QED  BY <3>4 DEF WorkerStep
  <2> QED  BY <1>2, <2>2, <2>3 DEF Run, Fallback
<1> QED  BY <1>1, <1>2, TakeBlockIs, HandBackIs DEF Worker

-----------------------------------------------------------------------------
(* Sequences of chunks.                                                     *)

LEMMA Tails ==
    ASSUME NEW S, NEW s \in Seq(S), s # <<>>
    PROVE  /\ Tail(s) \in Seq(S) /\ Len(s) \in Nat \ {0} /\ Len(Tail(s)) = Len(s) - 1
           /\ s[1] = Head(s) /\ Head(s) \in S
           /\ \A i \in 1 .. Len(Tail(s)) : Tail(s)[i] = s[i + 1]
BY HeadTailProperties

LEMMA Appends ==
    ASSUME NEW S, NEW s \in Seq(S), NEW x \in S
    PROVE  /\ Append(s, x) \in Seq(S) /\ Len(Append(s, x)) = Len(s) + 1 /\ Append(s, x) # <<>>
           /\ Append(s, x)[Len(s) + 1] = x /\ \A i \in 1 .. Len(s) : Append(s, x)[i] = s[i]
BY AppendProperties

LEMMA Empty == ASSUME NEW S, NEW s \in Seq(S) PROVE Len(s) \in Nat /\ (s = <<>> <=> Len(s) = 0)
OBVIOUS

LEMMA Alike ==
    ASSUME NEW S, NEW s \in Seq(S), NEW t \in Seq(S), NEW n \in Nat, Len(s) = n, Len(t) = n,
           \A i \in 1 .. n : s[i] = t[i]
    PROVE  s = t
BY SeqEqual

LEMMA EndMark == EndOfStream \in Seq(Int) /\ Len(EndOfStream) = 1 /\ EndOfStream[1] = -1
BY DEF EndOfStream

LEMMA WaitingIs ==
    ASSUME NEW p \in Seq(Seq(Int))
    PROVE  /\ Waiting(p) \in Seq(Seq(Int)) /\ Len(p) \in Nat
           /\ Marked(p) => Len(p) \in Nat \ {0} /\ Len(Waiting(p)) = Len(p) - 1 /\ p = Append(Waiting(p), EndOfStream)
           /\ ~Marked(p) => Waiting(p) = p
           /\ \A i \in 1 .. Len(Waiting(p)) : Waiting(p)[i] = p[i]
<1>1. CASE Marked(p)
  <2>1. Len(p) \in Nat \ {0} /\ p[Len(p)] = EndOfStream
    BY <1>1 DEF Marked
  <2>2. Waiting(p) = SubSeq(p, 1, Len(p) - 1)
    BY <1>1 DEF Waiting
  <2>3. /\ Waiting(p) \in Seq(Seq(Int)) /\ Len(Waiting(p)) = Len(p) - 1
        /\ \A i \in 1 .. Len(p) - 1 : Waiting(p)[i] = p[i]
    <3>0. Len(p) - 1 \in Nat
      BY <2>1
    <3>1. PICK n \in Nat : n = Len(p) - 1
      BY <3>0
    <3>2. 1 \in Int /\ n \in Int /\ \A i \in 1 .. n : p[i] \in Seq(Int)
      BY <2>1, <3>1
    <3>3. /\ SubSeq(p, 1, n) \in Seq(Seq(Int)) /\ Len(SubSeq(p, 1, n)) = IF 1 <= n THEN n - 1 + 1 ELSE 0
          /\ \A i \in 1 .. n - 1 + 1 : SubSeq(p, 1, n)[i] = p[1 + i - 1]
      BY <3>2, SubSeqProperties
    <3>4. Len(SubSeq(p, 1, n)) = n /\ \A i \in 1 .. n : SubSeq(p, 1, n)[i] = p[i]
      BY <3>1, <3>3
    <3> QED  BY <2>2, <3>1, <3>3, <3>4
  <2>4. p = Append(Waiting(p), EndOfStream)
    <3> DEFINE q == Append(Waiting(p), EndOfStream)
    <3>1. /\ q \in Seq(Seq(Int)) /\ Len(q) = Len(p) /\ q[Len(p)] = EndOfStream
          /\ \A i \in 1 .. Len(p) - 1 : q[i] = p[i]
      BY <2>1, <2>3, EndMark, Appends
    <3> HIDE DEF q
    <3>2. \A i \in 1 .. Len(p) : q[i] = p[i]
      BY <2>1, <3>1
    <3>3. q = p
      BY <3>1, <3>2, SeqEqual
    <3> QED  BY <3>3 DEF q
  <2> QED  BY <1>1, <2>1, <2>3, <2>4
<1>2. CASE ~Marked(p)
  BY <1>2 DEF Waiting
<1> QED  BY <1>1, <1>2

\* Unmarked, a queue grows by a chunk or by the mark.
LEMMA WaitingAppend ==
    ASSUME NEW p \in Seq(Seq(Int)), ~Marked(p), NEW h \in Seq(Int)
    PROVE  /\ h # EndOfStream => ~Marked(Append(p, h)) /\ Waiting(Append(p, h)) = Append(p, h)
           /\ h = EndOfStream => Marked(Append(p, h)) /\ Waiting(Append(p, h)) = p
<1>1. /\ Append(p, h) \in Seq(Seq(Int)) /\ Len(Append(p, h)) = Len(p) + 1 /\ Append(p, h) # <<>>
      /\ Append(p, h)[Len(p) + 1] = h /\ \A i \in 1 .. Len(p) : Append(p, h)[i] = p[i]
  BY Appends
<1>2. Marked(Append(p, h)) <=> h = EndOfStream
  BY <1>1 DEF Marked
<1>3. ASSUME h = EndOfStream PROVE Waiting(Append(p, h)) = p
  <2>1. Waiting(Append(p, h)) \in Seq(Seq(Int)) /\ Len(Waiting(Append(p, h))) = Len(p)
    <3>1. PICK q \in Seq(Seq(Int)) : q = Append(p, h)
      BY <1>1
    <3>2. Marked(q) /\ Len(q) = Len(p) + 1 /\ Len(p) \in Nat
      BY <1>1, <1>2, <1>3, <3>1
    <3>3. Waiting(q) \in Seq(Seq(Int)) /\ Len(Waiting(q)) = Len(q) - 1
      BY <3>2, WaitingIs
    <3> QED  BY <3>1, <3>2, <3>3
  <2>2. \A i \in 1 .. Len(p) : Waiting(Append(p, h))[i] = p[i]
    BY <1>1, <2>1, WaitingIs
  <2> QED  BY <2>1, <2>2, SeqEqual
<1>4. h # EndOfStream => Waiting(Append(p, h)) = Append(p, h)
  BY <1>1, <1>2, WaitingIs
<1> QED  BY <1>2, <1>3, <1>4

LEMMA WaitingTail ==
    ASSUME NEW p \in Seq(Seq(Int)), p # <<>>, Head(p) # EndOfStream
    PROVE  /\ Waiting(p) # <<>> /\ Head(Waiting(p)) = Head(p) /\ Waiting(Tail(p)) = Tail(Waiting(p))
           /\ Marked(Tail(p)) <=> Marked(p)
<1> DEFINE t == Tail(p)
           v == Waiting(p)
           u == Waiting(t)
<1>1. /\ t \in Seq(Seq(Int)) /\ Len(p) \in Nat \ {0} /\ Len(t) = Len(p) - 1 /\ p[1] = Head(p)
      /\ \A i \in 1 .. Len(t) : t[i] = p[i + 1]
  BY Tails
<1>2. /\ v \in Seq(Seq(Int)) /\ Len(v) = IF Marked(p) THEN Len(p) - 1 ELSE Len(p)
      /\ \A i \in 1 .. Len(v) : v[i] = p[i]
  BY WaitingIs
<1>3. /\ u \in Seq(Seq(Int)) /\ Len(u) = IF Marked(t) THEN Len(t) - 1 ELSE Len(t)
      /\ \A i \in 1 .. Len(u) : u[i] = t[i]
  BY <1>1, WaitingIs
<1>4. Marked(p) => Len(p) # 1
  BY <1>1 DEF Marked
<1>5. Marked(t) <=> Marked(p)
  <2> HIDE DEF t
  <2>0. t = <<>> <=> Len(t) = 0
    BY <1>1, Empty
  <2>1. Len(p) # 1 => t # <<>> /\ Len(t) \in 1 .. Len(t) /\ t[Len(t)] = p[Len(p)]
    BY <1>1, <2>0
  <2>2. Len(p) = 1 => t = <<>>
    BY <1>1, <2>0
  <2>3. CASE Len(p) = 1
    BY <1>4, <2>2, <2>3 DEF Marked
  <2>4. CASE Len(p) # 1
    BY <2>1, <2>4 DEF Marked
  <2> QED  BY <2>3, <2>4
<1> HIDE DEF t, u, v
<1>6. Len(v) \in Nat \ {0} /\ Len(u) = Len(v) - 1
  BY <1>1, <1>2, <1>3, <1>4, <1>5
<1>7. v # <<>> /\ v[1] = p[1]
  BY <1>2, <1>6
<1>8. /\ Tail(v) \in Seq(Seq(Int)) /\ Len(Tail(v)) = Len(v) - 1 /\ v[1] = Head(v)
      /\ \A i \in 1 .. Len(Tail(v)) : Tail(v)[i] = v[i + 1]
  BY <1>2, <1>7, Tails
<1>9. \A i \in 1 .. Len(u) : u[i] = Tail(v)[i]
  <2> SUFFICES ASSUME NEW i \in 1 .. Len(u) PROVE u[i] = Tail(v)[i]
    OBVIOUS
  <2>1. i \in 1 .. Len(t) /\ i + 1 \in 1 .. Len(v) /\ i \in 1 .. Len(Tail(v))
    <3>1. PICK n \in Nat, m \in Nat : n = Len(v) /\ m = Len(t)
      BY <1>1, <1>2
    <3>2. m <= n /\ i \in 1 .. n - 1 /\ Len(Tail(v)) = n - 1
      BY <1>1, <1>2, <1>5, <1>6, <1>8, <3>1
    <3>3. i \in 1 .. m
      BY <1>3, <3>1
    <3> QED  BY <3>1, <3>2, <3>3
  <2> QED  BY <1>1, <1>2, <1>3, <1>8, <2>1
<1>10. u = Tail(v)
  <2>1. Len(u) \in Nat /\ Len(Tail(v)) = Len(u)
    BY <1>6, <1>8
  <2> QED  BY <1>3, <1>8, <1>9, <2>1, Alike
<1> QED  BY <1>1, <1>5, <1>7, <1>8, <1>10 DEF t, u, v

\* When the mark is first, nothing else is in the queue.
LEMMA WaitingMark ==
    ASSUME NEW p \in Seq(Seq(Int)), p # <<>>, Head(p) = EndOfStream,
           \A i \in 1 .. Len(Waiting(p)) : Waiting(p)[i] # EndOfStream
    PROVE  Marked(p) /\ Waiting(p) = <<>> /\ Tail(p) = <<>>
<1>1. Len(p) \in Nat \ {0} /\ p[1] = EndOfStream /\ Tail(p) \in Seq(Seq(Int)) /\ Len(Tail(p)) = Len(p) - 1
  BY Tails
<1>2. Waiting(p) \in Seq(Seq(Int)) /\ Len(Waiting(p)) \in Nat
  BY WaitingIs
<1>3. Len(Waiting(p)) = 0
  <2> SUFFICES ASSUME Len(Waiting(p)) # 0 PROVE FALSE
    OBVIOUS
  <2>1. 1 \in 1 .. Len(Waiting(p))
    BY <1>2
  <2>2. Waiting(p)[1] = p[1]
    BY <2>1, WaitingIs
  <2> QED  BY <1>1, <2>1, <2>2
<1>4. Marked(p) /\ Len(p) = 1
  BY <1>1, <1>3, WaitingIs
<1>5. Tail(p) = <<>> /\ Waiting(p) = <<>>
  <2>1. Len(Tail(p)) = 0
    BY <1>1, <1>4
  <2> QED  BY <1>1, <1>2, <1>3, <2>1, Empty
<1> QED  BY <1>4, <1>5

LEMMA WaitingConcat ==
    ASSUME NEW p \in Seq(Seq(Int)), NEW q \in Seq(Seq(Int)), \A i \in 1 .. Len(q) : q[i] # EndOfStream
    PROVE  (Marked(q \o p) <=> Marked(p)) /\ Waiting(q \o p) = q \o Waiting(p)
<1> DEFINE r == q \o p
           s == q \o Waiting(p)
           m == Len(q)
           n == Len(p)
           k == Len(Waiting(p))
<1>1. /\ r \in Seq(Seq(Int)) /\ Len(r) = m + n
      /\ \A i \in 1 .. m + n : r[i] = IF i <= m THEN q[i] ELSE p[i - m]
  BY ConcatProperties
<1>2. /\ Waiting(p) \in Seq(Seq(Int)) /\ k = (IF Marked(p) THEN n - 1 ELSE n) /\ k \in Nat /\ n \in Nat /\ m \in Nat
      /\ \A i \in 1 .. k : Waiting(p)[i] = p[i]
  BY WaitingIs
<1>3. /\ s \in Seq(Seq(Int)) /\ Len(s) = m + k
      /\ \A i \in 1 .. m + k : s[i] = IF i <= m THEN q[i] ELSE Waiting(p)[i - m]
  <2>1. PICK v \in Seq(Seq(Int)) : v = Waiting(p)
    BY <1>2
  <2>2. /\ q \o v \in Seq(Seq(Int)) /\ Len(q \o v) = Len(q) + Len(v)
        /\ \A i \in 1 .. Len(q) + Len(v) : (q \o v)[i] = IF i <= Len(q) THEN q[i] ELSE v[i - Len(q)]
    BY ConcatProperties
  <2> QED  BY <2>1, <2>2
<1>4. Marked(p) <=> n # 0 /\ p[n] = EndOfStream
  BY DEF Marked
<1>5. Marked(r) <=> m + n # 0 /\ r[m + n] = EndOfStream
  BY <1>1 DEF Marked
<1> HIDE DEF r, s, m, n, k
<1>6. Marked(r) <=> Marked(p)
  <2>1. CASE n = 0
    <3>1. m # 0 => r[m + n] = q[m] /\ q[m] # EndOfStream
      BY <1>1, <1>2, <2>1 DEF m
    <3> QED  BY <1>2, <1>4, <1>5, <2>1, <3>1
  <2>2. CASE n # 0
    <3>1. m + n \in 1 .. m + n /\ ~(m + n <= m)
      BY <1>2, <2>2
    <3>2. PICK e \in 1 .. m + n : e = m + n
      BY <3>1
    <3>3. r[e] = p[e - m]
      BY <1>1, <3>1, <3>2
    <3>4. e - m = n
      BY <1>2, <3>2
    <3>5. r[m + n] = p[n]
      BY <3>2, <3>3, <3>4
    <3> QED  BY <1>2, <1>4, <1>5, <2>2, <3>5
  <2> QED  BY <2>1, <2>2
<1>7. /\ Waiting(r) \in Seq(Seq(Int)) /\ Len(Waiting(r)) = m + k
      /\ \A i \in 1 .. m + k : Waiting(r)[i] = r[i]
  <2>1. Waiting(r) \in Seq(Seq(Int)) /\ Len(Waiting(r)) = IF Marked(r) THEN Len(r) - 1 ELSE Len(r)
    BY <1>1, WaitingIs
  <2>2. Len(Waiting(r)) = m + k
    BY <1>1, <1>2, <1>6, <2>1
  <2> QED  BY <1>1, <2>1, <2>2, WaitingIs
<1>8. \A i \in 1 .. m + k : Waiting(r)[i] = s[i]
  <2> SUFFICES ASSUME NEW i \in 1 .. m + k PROVE Waiting(r)[i] = s[i]
    OBVIOUS
  <2>1. i \in 1 .. m + n /\ (~(i <= m) => i - m \in 1 .. k)
    BY <1>2
  <2> QED  BY <1>1, <1>2, <1>3, <1>7, <2>1
<1>9. Waiting(r) = s
  BY <1>3, <1>7, <1>8, SeqEqual
<1> QED  BY <1>6, <1>9 DEF r, s

-----------------------------------------------------------------------------
(* The grid.                                                                *)

LEMMA SpanIs ==
    ASSUME NEW a \in Nat, NEW n \in Nat
    PROVE  /\ Span(a, n) \in Seq(Nat) /\ Len(Span(a, n)) = n
           /\ \A i \in 1 .. n : Span(a, n)[i] = a + i - 1
<1>1. \A i \in 1 .. n : a + i - 1 \in Nat
  OBVIOUS
<1> QED  BY <1>1 DEF Span

LEMMA SpanJoin ==
    ASSUME NEW a \in Nat, NEW n \in Nat, NEW m \in Nat
    PROVE  Span(a, n) \o Span(a + n, m) = Span(a, n + m)
<1>1. /\ Span(a, n) \in Seq(Nat) /\ Len(Span(a, n)) = n /\ \A i \in 1 .. n : Span(a, n)[i] = a + i - 1
      /\ Span(a + n, m) \in Seq(Nat) /\ Len(Span(a + n, m)) = m
      /\ \A i \in 1 .. m : Span(a + n, m)[i] = a + n + i - 1
      /\ Span(a, n + m) \in Seq(Nat) /\ Len(Span(a, n + m)) = n + m
      /\ \A i \in 1 .. n + m : Span(a, n + m)[i] = a + i - 1
  <2>1. PICK b \in Nat, l \in Nat : b = a + n /\ l = n + m
    OBVIOUS
  <2>2. /\ Span(a, n) \in Seq(Nat) /\ Len(Span(a, n)) = n /\ \A i \in 1 .. n : Span(a, n)[i] = a + i - 1
        /\ Span(b, m) \in Seq(Nat) /\ Len(Span(b, m)) = m /\ \A i \in 1 .. m : Span(b, m)[i] = b + i - 1
        /\ Span(a, l) \in Seq(Nat) /\ Len(Span(a, l)) = l /\ \A i \in 1 .. l : Span(a, l)[i] = a + i - 1
    BY SpanIs
  <2> QED  BY <2>1, <2>2
<1> DEFINE s == Span(a, n)
           t == Span(a + n, m)
           u == Span(a, n + m)
<1> HIDE DEF s, t, u
<1>2. /\ s \in Seq(Nat) /\ Len(s) = n /\ \A i \in 1 .. n : s[i] = a + i - 1
      /\ t \in Seq(Nat) /\ Len(t) = m /\ \A i \in 1 .. m : t[i] = a + n + i - 1
      /\ u \in Seq(Nat) /\ Len(u) = n + m /\ \A i \in 1 .. n + m : u[i] = a + i - 1
  BY <1>1 DEF s, t, u
<1>3. /\ s \o t \in Seq(Nat) /\ Len(s \o t) = n + m
      /\ \A i \in 1 .. n + m : (s \o t)[i] = IF i <= n THEN s[i] ELSE t[i - n]
  BY <1>2, ConcatProperties
<1>4. \A i \in 1 .. n + m : (s \o t)[i] = u[i]
  <2> SUFFICES ASSUME NEW i \in 1 .. n + m PROVE (s \o t)[i] = u[i]
    OBVIOUS
  <2>1. CASE i <= n
    BY <1>2, <1>3, <2>1
  <2>2. CASE ~(i <= n)
    <3>1. i - n \in 1 .. m
      BY <2>2
    <3>2. t[i - n] = a + n + (i - n) - 1
      BY <1>2, <3>1
    <3> QED  BY <1>2, <1>3, <2>2, <3>2
  <2> QED  BY <2>1, <2>2
<1>5. s \o t = u
  <2>1. PICK l \in Nat : l = n + m
    OBVIOUS
  <2>2. s \o t \in Seq(Nat) /\ u \in Seq(Nat) /\ Len(s \o t) = l /\ Len(u) = l /\ \A i \in 1 .. l : (s \o t)[i] = u[i]
    BY <1>2, <1>3, <1>4, <2>1
  <2> QED  BY SMTT(30), <2>2, Alike
<1> QED  BY <1>5 DEF s, t, u

\* What is kept of the clip for the next chunk: at most n of its last frames.
LEMMA LastOfSpan ==
    ASSUME NEW a \in Nat, NEW m \in Nat, NEW n \in Nat
    PROVE  LET k == Smaller(n, m) IN LastOf(Span(a, m), n) = Span(a + m - k, k) /\ k \in Nat /\ k <= m
<1> DEFINE s == Span(a, m)
           k == Smaller(n, m)
           f == IF m > n THEN m - n + 1 ELSE 1
<1>1. k \in Nat /\ k <= m /\ f \in Nat \ {0} /\ f = m - k + 1 /\ a + m - k \in Nat
  BY DEF Smaller
<1>2. s \in Seq(Nat) /\ Len(s) = m /\ \A i \in 1 .. m : s[i] = a + i - 1
  BY SpanIs
<1>3. LastOf(s, n) = SubSeq(s, f, m)
  BY <1>2 DEF LastOf
<1> HIDE DEF s, f, k
<1>4. /\ SubSeq(s, f, m) \in Seq(Nat) /\ Len(SubSeq(s, f, m)) = k
      /\ \A i \in 1 .. k : SubSeq(s, f, m)[i] = s[f + i - 1]
  <2>1. \A i \in f .. m : s[i] \in Nat
    BY <1>1, <1>2
  <2>2. /\ SubSeq(s, f, m) \in Seq(Nat) /\ Len(SubSeq(s, f, m)) = IF f <= m THEN m - f + 1 ELSE 0
        /\ \A i \in 1 .. m - f + 1 : SubSeq(s, f, m)[i] = s[f + i - 1]
    BY <1>1, <2>1, SubSeqProperties
  <2>3. m - f + 1 = k
    BY <1>1
  <2> QED  BY <1>1, <2>2, <2>3
<1>5. /\ Span(a + m - k, k) \in Seq(Nat) /\ Len(Span(a + m - k, k)) = k
      /\ \A i \in 1 .. k : Span(a + m - k, k)[i] = a + m - k + i - 1
  BY <1>1, SpanIs
<1>6. \A i \in 1 .. k : SubSeq(s, f, m)[i] = Span(a + m - k, k)[i]
  <2> SUFFICES ASSUME NEW i \in 1 .. k PROVE SubSeq(s, f, m)[i] = Span(a + m - k, k)[i]
    OBVIOUS
  <2>1. PICK j \in 1 .. m : j = f + i - 1
    BY <1>1
  <2>2. s[j] = a + j - 1
    BY <1>2
  <2> QED  BY <1>1, <1>4, <1>5, <2>1, <2>2
<1>7. SubSeq(s, f, m) = Span(a + m - k, k)
  BY <1>1, <1>4, <1>5, <1>6, Alike
<1> QED  BY <1>1, <1>3, <1>7 DEF s, k

\* The raw frames before a chunk and the chunk leave the raw frames before the next one.
LEMMA NextCarry ==
    ASSUME NEW a \in Nat, NEW m \in Nat, NEW n, n = Smaller(WarmUp, a)
    PROVE  LET k == Smaller(WarmUp, a + m) IN
              /\ LastOf(Span(a - n, n) \o Span(a, m), WarmUp) = Span(a + m - k, k)
              /\ k \in Nat /\ n \in Nat /\ k <= a + m /\ n <= a
<1> DEFINE k == Smaller(WarmUp, a + m)
<1>1. n \in Nat /\ n <= a /\ a - n \in Nat /\ k \in Nat /\ k <= a + m /\ WarmUp \in Nat /\ n + m \in Nat
  BY Sizes DEF Smaller
<1>2. PICK b \in Nat : b = a - n
  BY <1>1
<1>3. b + n = a
  BY <1>1, <1>2
<1>4. Span(b, n) \o Span(a, m) = Span(b, n + m)
  <2>1. n \in Nat
    BY <1>1
  <2>2. Span(b, n) \o Span(b + n, m) = Span(b, n + m)
    BY <2>1, SpanJoin
  <2> QED  BY <1>3, <2>2
<1>5. PICK l : l = Smaller(WarmUp, n + m)
  OBVIOUS
<1>6. LastOf(Span(b, n + m), WarmUp) = Span(b + (n + m) - l, l)
  BY <1>1, <1>5, LastOfSpan
<1>7. l = k /\ b + (n + m) - l = a + m - k
  BY <1>1, <1>2, <1>5, Sizes DEF Smaller
<1> QED  BY <1>1, <1>2, <1>4, <1>6, <1>7

LEMMA PiecesEmpty ==
    /\ \A a \in 0 .. TotalFrames : Pieces(<<>>, a, a)
    /\ \A a, b : Pieces(<<>>, a, b) => a = b
<1>1. ASSUME NEW a \in 0 .. TotalFrames PROVE Pieces(<<>>, a, a)
  <2> DEFINE f == [i \in 0 .. 0 |-> a]
  <2>1. f \in [0 .. Len(<<>>) -> 0 .. TotalFrames] /\ f[0] = a /\ f[Len(<<>>)] = a
    OBVIOUS
  <2>2. \A i \in 1 .. Len(<<>>) : FALSE
    OBVIOUS
  <2> HIDE DEF f
  <2> QED  BY <2>1, <2>2 DEF Pieces
<1>2. \A a, b : Pieces(<<>>, a, b) => a = b
  BY DEF Pieces
<1> QED  BY <1>1, <1>2

LEMMA PiecesAppend ==
    ASSUME NEW s \in Seq(Seq(Int)), NEW a, NEW b, Pieces(s, a, b), NEW h \in Seq(Int),
           NEW n \in Nat \ {0}, h = Span(b, n), b + n <= TotalFrames
    PROVE  Pieces(Append(s, h), a, b + n)
<1>1. PICK f \in [0 .. Len(s) -> 0 .. TotalFrames] :
        /\ f[0] = a /\ f[Len(s)] = b
        /\ \A i \in 1 .. Len(s) : Len(s[i]) >= 1 /\ f[i] = f[i - 1] + Len(s[i]) /\ s[i] = Span(f[i - 1], Len(s[i]))
  BY DEF Pieces
<1>2. PICK k \in Nat : k = Len(s)
  OBVIOUS
<1>3. PICK t \in Seq(Seq(Int)) : /\ t = Append(s, h) /\ Len(t) = k + 1 /\ t[k + 1] = h
                                 /\ \A i \in 1 .. k : t[i] = s[i]
  <2>1. /\ Append(s, h) \in Seq(Seq(Int)) /\ Len(Append(s, h)) = Len(s) + 1 /\ Append(s, h)[Len(s) + 1] = h
        /\ \A i \in 1 .. Len(s) : Append(s, h)[i] = s[i]
    BY Appends
  <2> QED  BY <1>2, <2>1
<1>4. b \in 0 .. TotalFrames
  <2>1. k \in 0 .. k
    OBVIOUS
  <2> QED  BY <1>1, <1>2, <2>1
<1>5. Len(h) = n /\ b + n \in 0 .. TotalFrames
  BY <1>4, SpanIs, Sizes
<1> DEFINE g == [i \in 0 .. k + 1 |-> IF i <= k THEN f[i] ELSE b + n]
<1>6. g \in [0 .. k + 1 -> 0 .. TotalFrames] /\ g[0] = a /\ g[k + 1] = b + n /\ \A i \in 0 .. k : g[i] = f[i]
  BY <1>1, <1>2, <1>5
<1> HIDE DEF g
<1>7. ASSUME NEW i \in 1 .. k + 1
      PROVE  Len(t[i]) >= 1 /\ g[i] = g[i - 1] + Len(t[i]) /\ t[i] = Span(g[i - 1], Len(t[i]))
  <2>1. CASE i = k + 1
    <3>1. t[i] = h /\ g[i] = b + n /\ g[i - 1] = b
      BY <1>1, <1>2, <1>3, <1>6, <2>1
    <3> QED  BY <1>5, <3>1
  <2>2. CASE i # k + 1
    <3>1. i \in 1 .. k /\ i - 1 \in 0 .. k /\ i \in 0 .. k
      BY <2>2
    <3>2. t[i] = s[i] /\ g[i] = f[i] /\ g[i - 1] = f[i - 1]
      BY <1>3, <1>6, <3>1
    <3>3. Len(s[i]) >= 1 /\ f[i] = f[i - 1] + Len(s[i]) /\ s[i] = Span(f[i - 1], Len(s[i]))
      BY <1>1, <1>2, <3>1
    <3> QED  BY <3>2, <3>3
  <2> QED  BY <2>1, <2>2
<1>8. Pieces(t, a, b + n)
  <2>1. Len(t) = k + 1
    BY <1>3
  <2> QED  BY <2>1, <1>6, <1>7 DEF Pieces
<1> QED  BY <1>3, <1>8

LEMMA PiecesTail ==
    ASSUME NEW s \in Seq(Seq(Int)), NEW a, NEW b, Pieces(s, a, b), s # <<>>
    PROVE  LET n == Len(Head(s)) IN
              /\ n \in Nat \ {0} /\ Head(s) = Span(a, n) /\ a \in Nat /\ a + n <= TotalFrames
              /\ Pieces(Tail(s), a + n, b)
<1>1. PICK f \in [0 .. Len(s) -> 0 .. TotalFrames] :
        /\ f[0] = a /\ f[Len(s)] = b
        /\ \A i \in 1 .. Len(s) : Len(s[i]) >= 1 /\ f[i] = f[i - 1] + Len(s[i]) /\ s[i] = Span(f[i - 1], Len(s[i]))
  BY DEF Pieces
<1>2. PICK k \in Nat : Len(s) = k + 1
  <2>1. PICK l \in Nat \ {0} : l = Len(s)
    BY Tails
  <2>2. l - 1 \in Nat /\ l = (l - 1) + 1
    OBVIOUS
  <2> QED  BY <2>1, <2>2
<1>3. PICK t \in Seq(Seq(Int)) : /\ t = Tail(s) /\ Len(t) = k /\ \A i \in 1 .. k : t[i] = s[i + 1]
  <2>1. Tail(s) \in Seq(Seq(Int)) /\ Len(Tail(s)) = k /\ \A i \in 1 .. k : Tail(s)[i] = s[i + 1]
    BY <1>2, Tails
  <2> QED  BY <2>1
<1>4. PICK n \in Nat \ {0} : n = Len(s[1]) /\ s[1] = Head(s) /\ f[1] = f[0] + n /\ s[1] = Span(f[0], n)
  <2>1. 1 \in 1 .. Len(s) /\ 1 - 1 = 0 /\ s[1] = Head(s) /\ Head(s) \in Seq(Int)
    BY <1>2, Tails
  <2>2. Len(s[1]) >= 1 /\ f[1] = f[0] + Len(s[1]) /\ s[1] = Span(f[0], Len(s[1])) /\ Len(s[1]) \in Nat
    BY <1>1, <2>1
  <2>3. Len(s[1]) \in Nat \ {0}
    BY <2>2
  <2> QED  BY <2>1, <2>2, <2>3
<1> DEFINE g == [i \in 0 .. k |-> f[i + 1]]
<1>5. g \in [0 .. k -> 0 .. TotalFrames] /\ g[0] = f[1] /\ g[k] = b
  BY <1>1, <1>2
<1>6. \A i \in 0 .. k : g[i] = f[i + 1]
  OBVIOUS
<1> HIDE DEF g
<1>7. ASSUME NEW i \in 1 .. k
      PROVE  Len(t[i]) >= 1 /\ g[i] = g[i - 1] + Len(t[i]) /\ t[i] = Span(g[i - 1], Len(t[i]))
  <2>1. PICK j \in 1 .. Len(s) : j = i + 1
    BY <1>2
  <2>2. t[i] = s[j] /\ g[i] = f[j] /\ g[i - 1] = f[j - 1]
    BY <1>2, <1>3, <1>6, <2>1
  <2> QED  BY <1>1, <2>2
<1>8. Pieces(t, f[1], b)
  BY <1>3, <1>5, <1>7 DEF Pieces
<1>9. a \in Nat /\ f[1] = a + n /\ f[1] <= TotalFrames
  BY <1>1, <1>2, <1>4, Sizes
<1> QED  BY <1>3, <1>4, <1>8, <1>9, <1>1

LEMMA PiecesConcat ==
    ASSUME NEW s \in Seq(Seq(Int)), NEW t \in Seq(Seq(Int)), NEW a, NEW b, NEW c, Pieces(s, a, b), Pieces(t, b, c)
    PROVE  Pieces(s \o t, a, c)
<1>1. PICK f \in [0 .. Len(s) -> 0 .. TotalFrames] :
        /\ f[0] = a /\ f[Len(s)] = b
        /\ \A i \in 1 .. Len(s) : Len(s[i]) >= 1 /\ f[i] = f[i - 1] + Len(s[i]) /\ s[i] = Span(f[i - 1], Len(s[i]))
  BY DEF Pieces
<1>2. PICK g \in [0 .. Len(t) -> 0 .. TotalFrames] :
        /\ g[0] = b /\ g[Len(t)] = c
        /\ \A i \in 1 .. Len(t) : Len(t[i]) >= 1 /\ g[i] = g[i - 1] + Len(t[i]) /\ t[i] = Span(g[i - 1], Len(t[i]))
  BY DEF Pieces
<1>3. PICK m \in Nat, n \in Nat : m = Len(s) /\ n = Len(t)
  OBVIOUS
<1>4. PICK u \in Seq(Seq(Int)) : /\ u = s \o t /\ Len(u) = m + n
                                 /\ \A i \in 1 .. m + n : u[i] = IF i <= m THEN s[i] ELSE t[i - m]
  <2>1. /\ s \o t \in Seq(Seq(Int)) /\ Len(s \o t) = Len(s) + Len(t)
        /\ \A i \in 1 .. Len(s) + Len(t) : (s \o t)[i] = IF i <= Len(s) THEN s[i] ELSE t[i - Len(s)]
    BY ConcatProperties
  <2> QED  BY <1>3, <2>1
<1> DEFINE h == [i \in 0 .. m + n |-> IF i <= m THEN f[i] ELSE g[i - m]]
<1>5. \A i \in 0 .. m + n : h[i] = (IF i <= m THEN f[i] ELSE g[i - m]) /\ h[i] \in 0 .. TotalFrames
  <2> SUFFICES ASSUME NEW i \in 0 .. m + n
               PROVE  (IF i <= m THEN f[i] ELSE g[i - m]) \in 0 .. TotalFrames
    OBVIOUS
  <2>1. CASE i <= m
    <3>1. i \in 0 .. m
      BY <2>1
    <3> QED  BY <1>1, <1>3, <2>1, <3>1
  <2>2. CASE ~(i <= m)
    <3>1. i - m \in 0 .. n
      BY <2>2
    <3> QED  BY <1>2, <1>3, <2>2, <3>1
  <2> QED  BY <2>1, <2>2
<1>6. h \in [0 .. m + n -> 0 .. TotalFrames] /\ h[0] = a
  BY <1>1, <1>5
<1>7. h[m + n] = c
  <2>1. CASE n = 0
    BY <1>1, <1>2, <1>3, <2>1
  <2>2. CASE n # 0
    BY <1>2, <1>3, <2>2
  <2> QED  BY <2>1, <2>2
<1> HIDE DEF h
<1>8. ASSUME NEW i \in 1 .. m + n
      PROVE  Len(u[i]) >= 1 /\ h[i] = h[i - 1] + Len(u[i]) /\ u[i] = Span(h[i - 1], Len(u[i]))
  <2>1. CASE i <= m
    <3>1. i \in 1 .. m /\ i \in 0 .. m + n /\ i - 1 \in 0 .. m + n /\ i - 1 <= m
      BY <2>1
    <3>2. u[i] = s[i] /\ h[i] = f[i] /\ h[i - 1] = f[i - 1]
      BY <1>4, <1>5, <2>1, <3>1
    <3> QED  BY <1>1, <1>3, <3>1, <3>2
  <2>2. CASE ~(i <= m)
    <3>1. PICK j \in 1 .. n : j = i - m
      <4>1. i - m \in 1 .. n
        BY <2>2
      <4> QED  BY <4>1
    <3>2. u[i] = t[j] /\ h[i] = g[j]
      <4>1. u[i] = t[i - m]
        BY <1>4, <2>2
      <4>2. i \in 0 .. m + n
        OBVIOUS
      <4>3. h[i] = g[i - m]
        BY <1>5, <2>2, <4>2
      <4> QED  BY <3>1, <4>1, <4>3
    <3>3. h[i - 1] = g[j - 1]
      <4>1. CASE i - 1 <= m
        <5>1. i - 1 = m /\ m \in 0 .. m + n /\ j - 1 = 0
          BY <2>2, <3>1, <4>1
        <5>2. h[m] = f[m]
          BY <1>5, <5>1
        <5> QED  BY <1>1, <1>2, <1>3, <5>1, <5>2
      <4>2. CASE ~(i - 1 <= m)
        <5>1. PICK l \in 0 .. m + n : l = i - 1
          BY <4>2
        <5>2. h[l] = g[l - m] /\ l - m = j - 1
          BY <1>5, <3>1, <4>2, <5>1
        <5> QED  BY <5>1, <5>2
      <4> QED  BY <4>1, <4>2
    <3> QED  BY <1>2, <1>3, <3>1, <3>2, <3>3
  <2> QED  BY <2>1, <2>2
<1>9. Pieces(u, a, c)
  BY ZenonT(60), <1>4, <1>6, <1>7, <1>8 DEF Pieces
<1> QED  BY <1>4, <1>9

LEMMA ChunkIs ==
    ASSUME NEW c \in ChunkRec, ChunkOK(c)
    PROVE  /\ c.start \in Nat /\ Len(c.chunk) \in Nat \ {0} /\ EndOf(c) = c.start + Len(c.chunk)
           /\ EndOf(c) \in Nat /\ EndOf(c) <= TotalFrames
           /\ c.chunk = Span(c.start, Len(c.chunk)) /\ c.chunk \in Seq(Nat) /\ c.chunk \in Seq(Int)
           /\ Len(c.chunk) \in 1 .. Chunk
<1>1. c.chunk \in Seq(Nat) /\ c.start \in Nat
  BY DEF ChunkRec
<1>2. Len(c.chunk) \in 1 .. Chunk /\ c.chunk = Span(c.start, Len(c.chunk)) /\ EndOf(c) <= TotalFrames
  BY DEF ChunkOK
<1>3. \A i \in 1 .. Len(c.chunk) : c.chunk[i] \in Int
  BY <1>1
<1>4. c.chunk \in Seq(Int)
  BY <1>1, <1>3, SeqDef
<1>5. PICK a \in Nat, n \in Nat \ {0} : a = c.start /\ n = Len(c.chunk)
  BY <1>1, <1>2
<1>6. EndOf(c) = a + n
  BY <1>5 DEF EndOf
<1> QED  BY <1>1, <1>2, <1>4, <1>5, <1>6

LEMMA ChainAppend ==
    ASSUME NEW s \in Seq(ChunkRec), NEW c \in ChunkRec, Chain(s, c.start)
    PROVE  Chain(Append(s, c), EndOf(c)) /\ \A e : First(Append(s, c), e) = First(s, c.start)
<1>1. PICK t : /\ t = Append(s, c) /\ t \in Seq(ChunkRec) /\ Len(t) = Len(s) + 1 /\ t # <<>> /\ t[Len(s) + 1] = c
               /\ \A i \in 1 .. Len(s) : t[i] = s[i]
  <2>1. /\ Append(s, c) \in Seq(ChunkRec) /\ Len(Append(s, c)) = Len(s) + 1 /\ Append(s, c) # <<>>
        /\ Append(s, c)[Len(s) + 1] = c /\ \A i \in 1 .. Len(s) : Append(s, c)[i] = s[i]
    BY Appends
  <2> QED  BY <2>1
<1>2. PICK n \in Nat : n = Len(s)
  OBVIOUS
<1>3. ASSUME NEW i \in 1 .. n + 1
      PROVE  EndOf(t[i]) = IF i = n + 1 THEN EndOf(c) ELSE t[i + 1].start
  <2>1. CASE i = n + 1
    BY <1>1, <1>2, <2>1
  <2>2. CASE i = n
    <3>1. EndOf(s[n]) = c.start /\ t[n] = s[n] /\ t[n + 1] = c
      BY <1>1, <1>2, <2>2 DEF Chain
    <3> QED  BY <2>2, <3>1
  <2>3. CASE i # n + 1 /\ i # n
    <3>1. i \in 1 .. n /\ i + 1 \in 1 .. n
      BY <2>3
    <3>2. t[i] = s[i] /\ t[i + 1] = s[i + 1] /\ EndOf(s[i]) = s[i + 1].start
      BY <1>1, <1>2, <2>3, <3>1 DEF Chain
    <3> QED  BY <2>3, <3>2
  <2> QED  BY <2>1, <2>2, <2>3
<1>4. Chain(t, EndOf(c))
  BY <1>1, <1>2, <1>3 DEF Chain
<1>5. \A e : First(t, e) = First(s, c.start)
  <2>1. CASE s = <<>>
    BY <1>1, <2>1 DEF First
  <2>2. CASE s # <<>>
    <3>1. 1 \in 1 .. Len(s)
      BY <2>2, Empty
    <3> QED  BY <1>1, <2>2, <3>1 DEF First
  <2> QED  BY <2>1, <2>2
<1> QED  BY <1>1, <1>4, <1>5

LEMMA ChainTail ==
    ASSUME NEW s \in Seq(ChunkRec), s # <<>>, NEW e, Chain(s, e)
    PROVE  Chain(Tail(s), e) /\ EndOf(s[1]) = First(Tail(s), e) /\ First(s, e) = s[1].start
<1>1. PICK n \in Nat : Len(s) = n + 1
  <2>1. PICK l \in Nat \ {0} : l = Len(s)
    BY Tails
  <2>2. l - 1 \in Nat /\ l = (l - 1) + 1
    OBVIOUS
  <2> QED  BY <2>1, <2>2
<1>2. PICK t : t = Tail(s) /\ t \in Seq(ChunkRec) /\ Len(t) = n /\ \A i \in 1 .. n : t[i] = s[i + 1]
  <2>1. /\ Tail(s) \in Seq(ChunkRec) /\ Len(Tail(s)) = Len(s) - 1
        /\ \A i \in 1 .. Len(Tail(s)) : Tail(s)[i] = s[i + 1]
    BY Tails
  <2>2. Len(s) - 1 = n
    BY <1>1
  <2> QED  BY <2>1, <2>2
<1>3. ASSUME NEW i \in 1 .. n PROVE EndOf(t[i]) = IF i = n THEN e ELSE t[i + 1].start
  <2>1. PICK j \in 1 .. n + 1 : j = i + 1
    OBVIOUS
  <2>2. EndOf(s[j]) = IF j = n + 1 THEN e ELSE s[j + 1].start
    BY <1>1 DEF Chain
  <2>3. t[i] = s[j] /\ (i # n => t[i + 1] = s[j + 1])
    BY <1>2, <2>1
  <2> QED  BY <2>1, <2>2, <2>3
<1>4. Chain(t, e)
  BY <1>2, <1>3 DEF Chain
<1>5. EndOf(s[1]) = First(t, e)
  <2>1. EndOf(s[1]) = IF n = 0 THEN e ELSE s[2].start
    BY <1>1 DEF Chain
  <2>2. n # 0 => t[1] = s[2]
    BY <1>2
  <2>3. t = <<>> <=> n = 0
    BY <1>2, Empty
  <2> QED  BY <2>1, <2>2, <2>3 DEF First
<1>6. First(s, e) = s[1].start
  BY DEF First
<1> QED  BY <1>2, <1>4, <1>5, <1>6

LEMMA ChainEmpty == \A e : Chain(<<>>, e) /\ First(<<>>, e) = e
BY DEF Chain, First

\* The chunks in flight keep their places in the clip.
LEMMA ChainTouched ==
    ASSUME Inv, NEW i \in 1 .. Len(inflight), NEW d \in ChunkRec, Touched(i, d), Same(inflight[i], d), NEW e
    PROVE  /\ Chain(inflight, e) => Chain(inflight', e)
           /\ First(inflight', e) = First(inflight, e)
           /\ \A j \in 1 .. Len(inflight) : /\ inflight'[j] \in ChunkRec
                                            /\ Same(inflight[j], inflight'[j])
                                            /\ j # i => inflight'[j] = inflight[j]
<1>1. inflight \in Seq(ChunkRec) /\ Len(inflight) \in Nat /\ \A j \in 1 .. Len(inflight) : inflight[j] \in ChunkRec
  BY InflightTypes
<1>2. PICK s, t, n : s = inflight /\ t = inflight' /\ n = Len(s) /\ n \in Nat
  <2>1. \E s, t : s = inflight /\ t = inflight'
    OBVIOUS
  <2> QED  BY <1>1, <2>1
<1>3. s \in Seq(ChunkRec) /\ t \in Seq(ChunkRec) /\ Len(t) = n
  BY <1>1, <1>2 DEF Touched
<1>4. \A j \in 1 .. n : t[j] \in ChunkRec /\ Same(s[j], t[j]) /\ (j # i => t[j] = s[j])
  BY <1>1, <1>2, <1>3 DEF Touched, Same
<1>5. \A j \in 1 .. n : EndOf(t[j]) = EndOf(s[j]) /\ t[j].start = s[j].start
  BY <1>4 DEF Same, EndOf
<1>6. Chain(s, e) => Chain(t, e)
  <2> SUFFICES ASSUME Chain(s, e), NEW j \in 1 .. n
               PROVE  EndOf(t[j]) = IF j = n THEN e ELSE t[j + 1].start
    BY <1>3 DEF Chain
  <2>1. EndOf(s[j]) = IF j = n THEN e ELSE s[j + 1].start
    BY <1>2 DEF Chain
  <2>2. j # n => j + 1 \in 1 .. n
    BY <1>2
  <2> QED  BY <1>5, <2>1, <2>2
<1>7. First(t, e) = First(s, e)
  <2>1. (s = <<>> <=> n = 0) /\ (t = <<>> <=> n = 0)
    BY <1>2, <1>3, Empty
  <2>2. n # 0 => 1 \in 1 .. n
    BY <1>2
  <2> QED  BY <1>5, <2>1, <2>2 DEF First
<1> QED  BY <1>2, <1>4, <1>6, <1>7

\* The chunks that are sent back are pieces of the clip.
LEMMA ChainPieces ==
    ASSUME NEW s \in Seq(ChunkRec), NEW e \in 0 .. TotalFrames, Chain(s, e), \A i \in 1 .. Len(s) : ChunkOK(s[i])
    PROVE  /\ ChunksOf(s) \in Seq(Seq(Int)) /\ Len(ChunksOf(s)) = Len(s)
           /\ \A i \in 1 .. Len(s) : ChunksOf(s)[i] = s[i].chunk
           /\ Pieces(ChunksOf(s), First(s, e), e)
<1>1. PICK n \in Nat : n = Len(s)
  OBVIOUS
<1>2. \A i \in 1 .. n : s[i] \in ChunkRec /\ ChunkOK(s[i])
  BY <1>1
<1>3. \A i \in 1 .. n : /\ s[i].start \in Nat /\ Len(s[i].chunk) \in Nat \ {0} /\ EndOf(s[i]) = s[i].start + Len(s[i].chunk)
                        /\ EndOf(s[i]) \in Nat /\ EndOf(s[i]) <= TotalFrames
                        /\ s[i].chunk = Span(s[i].start, Len(s[i].chunk)) /\ s[i].chunk \in Seq(Int)
  BY <1>2, ChunkIs
<1>4. PICK t : t = ChunksOf(s) /\ t \in Seq(Seq(Int)) /\ Len(t) = n /\ \A i \in 1 .. n : t[i] = s[i].chunk
  <2>1. DOMAIN s = 1 .. n
    BY <1>1
  <2>2. ChunksOf(s) = [i \in 1 .. n |-> s[i].chunk]
    BY <2>1 DEF ChunksOf
  <2>3. [i \in 1 .. n |-> s[i].chunk] \in Seq(Seq(Int)) /\ Len([i \in 1 .. n |-> s[i].chunk]) = n
    BY <1>3
  <2> QED  BY <2>2, <2>3
<1> DEFINE f == [i \in 0 .. n |-> IF i = 0 THEN First(s, e) ELSE EndOf(s[i])]
<1>5. First(s, e) \in 0 .. TotalFrames
  <2>1. CASE s = <<>>
    BY <2>1 DEF First
  <2>2. CASE s # <<>>
    <3>1. 1 \in 1 .. n
      BY <1>1, <2>2, Empty
    <3>2. PICK a \in Nat, m \in Nat : a = s[1].start /\ m = Len(s[1].chunk) /\ a + m <= TotalFrames
      BY <1>3, <3>1
    <3> QED  BY <2>2, <3>2, Sizes DEF First
  <2> QED  BY <2>1, <2>2
<1>6. f \in [0 .. n -> 0 .. TotalFrames] /\ f[0] = First(s, e)
  <2> SUFFICES ASSUME NEW i \in 0 .. n PROVE (IF i = 0 THEN First(s, e) ELSE EndOf(s[i])) \in 0 .. TotalFrames
    OBVIOUS
  <2>1. i # 0 => i \in 1 .. n
    OBVIOUS
  <2> QED  BY <1>3, <1>5, <2>1
<1>7. \A i \in 1 .. n : f[i] = EndOf(s[i])
  OBVIOUS
<1> HIDE DEF f
<1>8. f[n] = e
  <2>1. CASE n = 0
    <3>1. s = <<>>
      BY <1>1, <2>1, Empty
    <3> QED  BY <1>6, <2>1, <3>1 DEF First
  <2>2. CASE n # 0
    BY <1>1, <1>7, <2>2 DEF Chain
  <2> QED  BY <2>1, <2>2
<1>9. ASSUME NEW i \in 1 .. n PROVE f[i - 1] = s[i].start
  <2>1. CASE i = 1
    <3>1. s # <<>>
      BY <1>1, Empty
    <3> QED  BY <1>6, <2>1, <3>1 DEF First
  <2>2. CASE i # 1
    <3>1. PICK j \in 1 .. n : j = i - 1
      BY <2>2
    <3>2. EndOf(s[j]) = s[i].start
      BY <1>1, <3>1 DEF Chain
    <3> QED  BY <1>7, <3>1, <3>2
  <2> QED  BY <2>1, <2>2
<1>10. ASSUME NEW i \in 1 .. n
       PROVE  Len(t[i]) >= 1 /\ f[i] = f[i - 1] + Len(t[i]) /\ t[i] = Span(f[i - 1], Len(t[i]))
  <2>1. /\ s[i].start \in Nat /\ Len(s[i].chunk) \in Nat \ {0} /\ EndOf(s[i]) = s[i].start + Len(s[i].chunk)
        /\ s[i].chunk = Span(s[i].start, Len(s[i].chunk))
    BY <1>3
  <2>2. t[i] = s[i].chunk /\ f[i] = EndOf(s[i]) /\ f[i - 1] = s[i].start
    BY <1>4, <1>7, <1>9
  <2>3. Len(s[i].chunk) >= 1
    BY <2>1
  <2> QED  BY <2>1, <2>2, <2>3
<1>11. Pieces(t, First(s, e), e)
  BY <1>4, <1>6, <1>8, <1>10 DEF Pieces
<1> QED  BY <1>1, <1>4, <1>11

-----------------------------------------------------------------------------
(* The blocks of a chunk.                                                   *)

LEMMA DivIs ==
    ASSUME NEW a \in Nat, NEW b \in Nat \ {0}
    PROVE  \E q \in Nat : q = a \div b /\ q * b <= a /\ a < q * b + b
<1>1. a \div b \in Int /\ b > 0 /\ a \in Int /\ b \in Int
  OBVIOUS
<1>2. b * (a \div b) <= a
  BY <1>1
<1>3. a < (a \div b) * b + b
  OBVIOUS
<1>4. PICK q \in Int : q = a \div b
  BY <1>1
<1>5. b * q <= a /\ a < q * b + b
  BY <1>2, <1>3, <1>4
<1>6. q >= 0
  <2> SUFFICES ASSUME q <= -1 PROVE FALSE
    OBVIOUS
  <2>1. q * b <= -b
    OBVIOUS
  <2> QED  BY <1>5, <2>1
<1>7. b * q = q * b
  OBVIOUS
<1> QED  BY <1>4, <1>5, <1>6, <1>7

LEMMA TimesIs ==
    ASSUME NEW B \in Nat \ {0}
    PROVE  /\ \A i \in Nat : i * B \in Nat /\ (i + 1) * B = i * B + B
           /\ \A i, j \in Nat : i <= j => i * B <= j * B
<1>1. \A i \in Nat : i * B \in Nat /\ (i + 1) * B = i * B + B
  OBVIOUS
<1>2. ASSUME NEW i \in Nat, NEW j \in Nat, i <= j PROVE i * B <= j * B
  <2>1. PICK k \in Nat : j = i + k
    <3>1. j - i \in Nat /\ j = i + (j - i)
      BY <1>2
    <3> QED  BY <3>1
  <2>2. (i + k) * B = i * B + k * B
    OBVIOUS
  <2>3. i * B \in Nat /\ k * B \in Nat
    BY <1>1
  <2> QED  BY <2>1, <2>2, <2>3
<1> QED  BY <1>1, <1>2

LEMMA BlocksAre ==
    ASSUME Inv, NEW h \in Seq(Int), Len(h) \in Nat \ {0}
    PROVE  LET bs == Blocks(h) IN
              /\ bs \in Seq(BlockRec) /\ Len(bs) \in 1 .. Len(h)
              /\ \A i \in 1 .. Len(bs) : /\ bs[i] \in BlockRec /\ bs[i] # Quit /\ bs[i].no = chunkNo
                                         /\ bs[i].first < bs[i].last /\ bs[i].last <= Len(h)
              /\ \A i, j \in 1 .. Len(bs) : i < j => bs[i].last <= bs[j].first
              /\ \A p \in 0 .. Len(h) - 1 : \E i \in 1 .. Len(bs) : bs[i].first <= p /\ p < bs[i].last
<1>1. PICK L \in Nat \ {0}, B \in Nat \ {0} : L = Len(h) /\ B = Block
  BY Sizes
<1>2. PICK n \in Nat : n = (L + B - 1) \div B /\ n * B <= L + B - 1 /\ L + B - 1 < n * B + B
  <2>1. PICK a \in Nat : a = L + B - 1
    <3>1. L + B - 1 \in Nat
      OBVIOUS
    <3> QED  BY <3>1
  <2>2. \E q \in Nat : q = a \div B /\ q * B <= a /\ a < q * B + B
    BY DivIs
  <2> QED  BY <2>1, <2>2
<1>3. /\ \A i \in Nat : i * B \in Nat /\ (i + 1) * B = i * B + B
      /\ \A i, j \in Nat : i <= j => i * B <= j * B
  BY TimesIs
<1>4. n >= 1 /\ n <= L
  <2>1. n * B \in Nat /\ L <= n * B
    BY <1>2, <1>3
  <2>2. n # 0
    BY <1>3, <2>1
  <2>3. ASSUME n >= L + 1 PROVE FALSE
    <3>1. (L + 1) * B <= n * B /\ (L + 1) * B = L * B + B /\ L * B \in Nat
      BY <1>3, <2>3
    <3>2. L * 1 <= L * B
      BY <1>3
    <3>3. PICK x \in Nat, y \in Nat, z \in Nat : x = L * B /\ y = n * B /\ z = (L + 1) * B
      BY <1>3, <2>1, <3>1
    <3>4. z <= y /\ z = x + B /\ L <= x /\ y <= L + B - 1
      BY <1>2, <3>1, <3>2, <3>3
    <3> QED  BY <3>4
  <2> QED  BY <2>2, <2>3
<1>5. /\ n * B \in Nat /\ L <= n * B
      /\ \A i \in 1 .. n : i - 1 \in Nat /\ (i - 1) * B \in Nat /\ i * B = (i - 1) * B + B /\ (i - 1) * B < L
  <2>1. n * B \in Nat /\ L <= n * B
    BY <1>2, <1>3
  <2>2. ASSUME NEW i \in 1 .. n PROVE i - 1 \in Nat /\ (i - 1) * B \in Nat /\ i * B = (i - 1) * B + B /\ (i - 1) * B < L
    <3>1. PICK k \in Nat : k = i - 1 /\ i = k + 1 /\ k + 1 <= n
      <4>1. i - 1 \in Nat /\ i = (i - 1) + 1
        OBVIOUS
      <4> QED  BY <4>1
    <3>2. k * B \in Nat /\ (k + 1) * B = k * B + B /\ (k + 1) * B <= n * B
      BY <1>3, <3>1
    <3>3. k * B < L
      BY <1>2, <2>1, <3>2
    <3> QED  BY <3>1, <3>2, <3>3
  <2> QED  BY <2>1, <2>2
<1> DEFINE f(i) == (i - 1) * B
           l(i) == Smaller(L, i * B)
           bs == [i \in 1 .. n |-> [no |-> chunkNo, first |-> f(i), last |-> l(i)]]
<1>6. Blocks(h) = bs
  BY <1>1, <1>2 DEF Blocks
<1>7. \A i \in 1 .. n : f(i) \in Nat /\ l(i) \in Nat /\ f(i) < l(i) /\ l(i) <= L
  BY <1>5 DEF Smaller
<1>8. chunkNo \in Nat
  BY DEF Inv, Types, CoordTypes
<1>9. ASSUME NEW i \in 1 .. n, NEW j \in 1 .. n, i < j PROVE l(i) <= f(j)
  <2>1. PICK k \in Nat : k = j - 1 /\ i <= k
    <3>1. j - 1 \in Nat /\ i <= j - 1
      BY <1>9
    <3> QED  BY <3>1
  <2>2. i * B <= k * B /\ i * B \in Nat /\ k * B \in Nat
    BY <1>3, <2>1
  <2> QED  BY <2>1, <2>2 DEF Smaller
<1>10. ASSUME NEW p \in 0 .. L - 1 PROVE \E i \in 1 .. n : f(i) <= p /\ p < l(i)
  <2>1. PICK q \in Nat : q = p \div B /\ q * B <= p /\ p < q * B + B
    BY DivIs
  <2>2. q < n
    <3> SUFFICES ASSUME n <= q PROVE FALSE
      OBVIOUS
    <3>1. n * B <= q * B /\ q * B \in Nat
      BY <1>3
    <3> QED  BY <1>5, <2>1, <3>1
  <2>3. PICK i \in 1 .. n : i = q + 1
    BY <2>2
  <2>4. f(i) = q * B /\ i * B = q * B + B /\ q * B \in Nat
    BY <1>3, <2>3
  <2>5. f(i) <= p /\ p < l(i)
    BY <2>1, <2>4 DEF Smaller
  <2> QED  BY <2>5
<1> HIDE DEF f, l
<1>11. /\ bs \in Seq(BlockRec) /\ Len(bs) = n
       /\ \A i \in 1 .. n : /\ bs[i] \in BlockRec /\ bs[i].no = chunkNo /\ bs[i].first = f(i) /\ bs[i].last = l(i)
                            /\ bs[i].no \in Nat
  BY <1>7, <1>8 DEF BlockRec
<1> HIDE DEF bs
<1>12. \A i \in 1 .. n : bs[i] # Quit
  <2>1. Quit.no = -1
    BY DEF Quit
  <2> QED  BY <1>11, <2>1
<1>13. bs \in Seq(BlockRec) /\ Len(bs) \in 1 .. Len(h)
  BY <1>1, <1>4, <1>11
<1>14. \A i \in 1 .. Len(bs) : /\ bs[i] \in BlockRec /\ bs[i] # Quit /\ bs[i].no = chunkNo
                              /\ bs[i].first < bs[i].last /\ bs[i].last <= Len(h)
  BY <1>1, <1>7, <1>11, <1>12
<1>15. \A i, j \in 1 .. Len(bs) : i < j => bs[i].last <= bs[j].first
  BY <1>9, <1>11
<1>16. \A p \in 0 .. Len(h) - 1 : \E i \in 1 .. Len(bs) : bs[i].first <= p /\ p < bs[i].last
  <2> SUFFICES ASSUME NEW p \in 0 .. L - 1 PROVE \E i \in 1 .. n : bs[i].first <= p /\ p < bs[i].last
    BY <1>1, <1>11
  <2> QED  BY <1>10, <1>11
<1> QED  BY <1>6, <1>13, <1>14, <1>15, <1>16

-----------------------------------------------------------------------------
(* The steps of the coordinator on the grid.                                *)

LEMMA NatSeq == ASSUME NEW s \in Seq(Nat) PROVE s \in Seq(Int) /\ s # EndOfStream
<1>1. \A i \in 1 .. Len(s) : s[i] \in Int /\ s[i] # -1
  OBVIOUS
<1>2. s \in Seq(Int)
  BY <1>1, SeqDef
<1>3. 1 \in 1 .. Len(EndOfStream) /\ EndOfStream[1] = -1
  BY EndMark
<1> QED  BY <1>1, <1>2, <1>3

LEMMA CoordIs ==
    ASSUME Inv
    PROVE  /\ phase \in Phases /\ back \in {"top", "drain"}
           /\ inflight \in Seq(ChunkRec) /\ retry \in Seq(ChunkRec) /\ prefetch \in Seq(Seq(Int))
           /\ Len(inflight) \in Nat /\ Len(retry) \in Nat /\ Len(prefetch) \in Nat /\ Len(Waiting(prefetch)) \in Nat
           /\ carry \in Seq(Nat) /\ chunkStart \in Nat /\ chunkNo \in Nat /\ decoded \in 0 .. TotalFrames
           /\ held \in Seq(Nat) /\ held \in Seq(Int) /\ held # EndOfStream /\ Len(held) \in Nat
           /\ \A i \in 1 .. Len(retry) : retry[i] \in ChunkRec /\ ChunkOK(retry[i])
           /\ Handing => hand \in ChunkRec /\ ChunkOK(hand)
           /\ ~Handing => hand = NoChunk
           /\ processing \in BOOLEAN /\ pause \in PauseRec
<1>1. /\ phase \in Phases /\ back \in {"top", "drain"}
      /\ inflight \in Seq(ChunkRec) /\ retry \in Seq(ChunkRec)
      /\ carry \in Seq(Nat) /\ chunkStart \in Nat /\ chunkNo \in Nat
      /\ IF Handing THEN hand \in ChunkRec ELSE hand = NoChunk
  BY DEF Inv, Types, CoordTypes
<1>2. prefetch \in Seq(Seq(Int)) /\ decoded \in 0 .. TotalFrames /\ held \in Seq(Nat)
  BY DEF Inv, Types, ReaderTypes
<1>21. held \in Seq(Int) /\ held # EndOfStream
  BY <1>2, NatSeq
<1>3. \A i \in 1 .. Len(retry) : ChunkOK(retry[i])
  BY DEF Inv, ShapeInv
<1>4. Handing => ChunkOK(hand)
  BY DEF Inv, ShapeInv
<1>5. Len(Waiting(prefetch)) \in Nat
  BY <1>2, WaitingIs, Empty
<1>6. Len(inflight) \in Nat /\ Len(retry) \in Nat /\ Len(prefetch) \in Nat /\ Len(held) \in Nat
  BY <1>1, <1>2, Empty
<1>7. processing \in BOOLEAN /\ pause \in PauseRec
  BY DEF Inv, Types, FlagTypes
<1>8. \A i \in 1 .. Len(retry) : retry[i] \in ChunkRec
  BY <1>1
<1> QED  BY <1>1, <1>2, <1>21, <1>3, <1>4, <1>5, <1>6, <1>7, <1>8

\* The next chunk of the grid, laid on the frames that wait.
LEMMA NextChunk ==
    ASSUME Inv, processing, phase = "top", prefetch # <<>>, Head(prefetch) # EndOfStream
    PROVE  LET h == Head(prefetch)
               n == Len(h)
               k == Smaller(WarmUp, chunkStart + n)
           IN  /\ h \in Seq(Int) /\ n \in 1 .. Chunk /\ n \in Nat \ {0} /\ h = Span(chunkStart, n)
               /\ chunkStart + n <= TotalFrames
               /\ Len(carry) = Smaller(WarmUp, chunkStart) /\ carry = Span(chunkStart - Len(carry), Len(carry))
               /\ LastOf(carry \o h, WarmUp) = Span(chunkStart + n - k, k) /\ k \in Nat /\ k <= chunkStart + n
               /\ Tail(prefetch) \in Seq(Seq(Int)) /\ Waiting(Tail(prefetch)) = Tail(Waiting(prefetch))
               /\ Marked(Tail(prefetch)) <=> Marked(prefetch)
               /\ Waiting(prefetch) # <<>>
               /\ Pieces(Waiting(Tail(prefetch)), chunkStart + n, decoded - Len(held))
<1>1. prefetch \in Seq(Seq(Int)) /\ chunkStart \in Nat
  BY CoordIs
<1>2. Head(prefetch) \in Seq(Int) /\ Tail(prefetch) \in Seq(Seq(Int))
  BY <1>1, Tails
<1>3. /\ Waiting(prefetch) # <<>> /\ Head(Waiting(prefetch)) = Head(prefetch)
      /\ Waiting(Tail(prefetch)) = Tail(Waiting(prefetch)) /\ (Marked(Tail(prefetch)) <=> Marked(prefetch))
  BY <1>1, WaitingTail
<1>4. PICK s \in Seq(Seq(Int)) : s = Waiting(prefetch)
  BY <1>1, WaitingIs
<1>5. /\ Pieces(s, chunkStart, decoded - Len(held))
      /\ Len(carry) = Smaller(WarmUp, chunkStart) /\ carry = Span(chunkStart - Len(carry), Len(carry))
  BY <1>4 DEF Inv, GridInv, Late
<1>6. PICK n : n = Len(Head(s)) /\ n \in Nat \ {0} /\ Head(s) = Span(chunkStart, n) /\ chunkStart + n <= TotalFrames
               /\ Pieces(Tail(s), chunkStart + n, decoded - Len(held))
  BY <1>3, <1>4, <1>5, PiecesTail
<1>7. Head(s) = Head(prefetch) /\ Tail(s) = Waiting(Tail(prefetch))
  BY <1>3, <1>4
<1>8. n \in 1 .. Chunk
  <2>1. s[1] = Head(s) /\ 1 \in 1 .. Len(s)
    BY <1>3, <1>4, Tails
  <2>2. Len(s[1]) \in 1 .. Chunk
    BY <1>4, <2>1 DEF Inv, Phased, MarkInv
  <2> QED  BY <1>6, <2>1, <2>2
<1>9. LET k == Smaller(WarmUp, chunkStart + n) IN
      LastOf(carry \o Head(prefetch), WarmUp) = Span(chunkStart + n - k, k) /\ k \in Nat /\ k <= chunkStart + n
  <2>1. PICK a, m : a \in Nat /\ a = chunkStart /\ m = Len(carry) /\ m = Smaller(WarmUp, a) /\ carry = Span(a - m, m)
    BY <1>1, <1>5
  <2>2. LET k == Smaller(WarmUp, a + n) IN
        LastOf(Span(a - m, m) \o Span(a, n), WarmUp) = Span(a + n - k, k) /\ k \in Nat /\ k <= a + n
    BY ZenonT(60), <1>6, <2>1, NextCarry
  <2>3. Head(prefetch) = Span(a, n)
    BY <1>6, <1>7, <2>1
  <2> QED  BY <2>1, <2>2, <2>3
<1> QED  BY <1>2, <1>3, <1>5, <1>6, <1>7, <1>8, <1>9

LEMMA DispatchIs ==
    ASSUME Inv, Dispatch
    PROVE  \E c \in ChunkRec :
              /\ ChunkOK(c) /\ c.no = chunkNo /\ c.start = chunkStart /\ c.chunk = Head(prefetch) /\ c.carry = carry
              /\ c.got = {} /\ c.left = Len(Blocks(Head(prefetch))) /\ ~c.interrupted
              /\ inflight' = Append(inflight, c) /\ EndOf(c) = chunkStart' /\ chunkStart' <= TotalFrames
              /\ chunkStart' = chunkStart + Len(Head(prefetch))
<1> DEFINE h == Head(prefetch)
           c == [no |-> chunkNo, start |-> chunkStart, chunk |-> h, carry |-> carry,
                 got |-> {}, left |-> Len(Blocks(h)), interrupted |-> FALSE]
<1>1. processing /\ phase = "top" /\ prefetch # <<>> /\ h # EndOfStream
  BY DEF Dispatch
<1>2. /\ h \in Seq(Int) /\ Len(h) \in 1 .. Chunk /\ Len(h) \in Nat \ {0} /\ h = Span(chunkStart, Len(h))
      /\ chunkStart + Len(h) <= TotalFrames
      /\ Len(carry) = Smaller(WarmUp, chunkStart) /\ carry = Span(chunkStart - Len(carry), Len(carry))
  BY <1>1, NextChunk
<1>3. chunkNo \in Nat /\ chunkStart \in Nat /\ carry \in Seq(Nat)
  BY CoordIs
<1>4. Len(Blocks(h)) \in Nat /\ Len(Blocks(h)) <= Len(h)
  <2>1. Len(Blocks(h)) \in 1 .. Len(h)
    BY <1>2, BlocksAre
  <2> QED  BY <1>2, <2>1
<1>5. h \in Seq(Nat)
  BY <1>2, <1>3, SpanIs
<1>6. inflight' = Append(inflight, c) /\ chunkStart' = chunkStart + Len(h)
  BY DEF Dispatch
<1> HIDE DEF h
<1>7. c \in ChunkRec
  BY <1>3, <1>4, <1>5 DEF ChunkRec
<1>8. /\ c.no = chunkNo /\ c.start = chunkStart /\ c.chunk = h /\ c.carry = carry
      /\ c.got = {} /\ c.left = Len(Blocks(h)) /\ ~c.interrupted
  OBVIOUS
<1> HIDE DEF c
<1>9. EndOf(c) = chunkStart + Len(h)
  BY <1>8 DEF EndOf
<1>10. ChunkOK(c)
  BY <1>2, <1>4, <1>8, <1>9 DEF ChunkOK
<1> QED  BY <1>2, <1>6, <1>7, <1>8, <1>9, <1>10 DEF h

\* The oldest chunk, and the chunks after it.
LEMMA Oldest ==
    ASSUME Inv, inflight # <<>>
    PROVE  /\ 1 \in 1 .. Len(inflight) /\ Head(inflight) = inflight[1] /\ inflight[1] \in ChunkRec /\ ChunkOK(inflight[1])
           /\ Tail(inflight) \in Seq(ChunkRec) /\ Len(Tail(inflight)) = Len(inflight) - 1
           /\ \A i \in 1 .. Len(Tail(inflight)) : Tail(inflight)[i] = inflight[i + 1] /\ i + 1 \in 1 .. Len(inflight)
<1>1. inflight \in Seq(ChunkRec)
  BY CoordIs
<1>2. /\ Tail(inflight) \in Seq(ChunkRec) /\ Len(inflight) \in Nat \ {0} /\ Len(Tail(inflight)) = Len(inflight) - 1
      /\ inflight[1] = Head(inflight)
      /\ \A i \in 1 .. Len(Tail(inflight)) : Tail(inflight)[i] = inflight[i + 1]
  BY <1>1, Tails
<1>3. 1 \in 1 .. Len(inflight) /\ \A i \in 1 .. Len(Tail(inflight)) : i + 1 \in 1 .. Len(inflight)
  BY <1>2
<1>4. inflight[1] \in ChunkRec /\ ChunkOK(inflight[1])
  BY <1>3, InflightTypes
<1> QED  BY <1>2, <1>3, <1>4

\* What is kept of a retired chunk: everything, or what follows its start without a gap.
LEMMA RetireIs ==
    ASSUME Inv, Retire
    PROVE  /\ inflight # <<>> /\ Done(inflight[1])
           /\ \/ raised' = TRUE /\ phase' = "leave" /\ workerError /\ UNCHANGED <<hand, retry, inflight, pause>>
              \/ /\ UNCHANGED <<raised, hand, phase>> /\ inflight' = Tail(inflight) /\ bad
                 /\ pause' = ReleasedMany(pause, Cardinality(inflight[1].got)) /\ retry' = Append(retry, inflight[1])
              \/ /\ UNCHANGED <<raised, retry>> /\ inflight' = Tail(inflight) /\ ~bad /\ phase' = "part"
                 /\ \E g \in SUBSET inflight[1].got :
                       /\ g = (IF inflight[1].interrupted /\ processing THEN Contiguous(inflight[1]) ELSE inflight[1].got)
                       /\ pause' = ReleasedMany(pause, Cardinality(inflight[1].got \ g))
                       /\ hand' \in ChunkRec /\ Same(inflight[1], hand') /\ hand'.got = g
                       /\ hand'.interrupted = inflight[1].interrupted /\ hand'.left = inflight[1].left
                       /\ ChunkOK(hand')
<1>1. /\ inflight # <<>> /\ Done(Head(inflight))
  BY DEF Retire
<1>2. PICK c \in ChunkRec : c = Head(inflight) /\ c = inflight[1] /\ ChunkOK(c)
  BY <1>1, Oldest
<1>3. CASE workerError
  BY <1>1, <1>2, <1>3 DEF Retire
<1>4. CASE ~workerError /\ bad /\ pause' = ReleasedMany(pause, Cardinality(c.got)) /\ retry' = Append(retry, c) /\ UNCHANGED <<hand, phase>>
  BY <1>1, <1>2, <1>4 DEF Retire
<1> DEFINE kept == IF c.interrupted /\ processing THEN Contiguous(c) ELSE c.got
<1>5. CASE /\ ~workerError /\ ~bad /\ pause' = ReleasedMany(pause, Cardinality(c.got \ kept))
           /\ hand' = [c EXCEPT !.got = kept] /\ phase' = "part" /\ UNCHANGED retry
  <2>1. kept \subseteq c.got /\ c.got \subseteq Nat
    BY DEF Contiguous, ChunkRec
  <2>2. PICK g \in SUBSET Nat : g = kept /\ g \in SUBSET c.got
    BY <2>1
  <2> DEFINE d == [c EXCEPT !.got = g]
  <2>3. PICK e : e = d
    OBVIOUS
  <2>4. Same(c, e) /\ e.got = g /\ e.left = c.left /\ e.interrupted = c.interrupted
    BY <2>3, GotField
  <2>5. hand' = e
    BY <1>5, <2>2, <2>3
  <2> HIDE DEF d
  <2>6. ChunkOK(e)
    <3>1. EndOf(e) = EndOf(c)
      BY <2>4 DEF Same, EndOf
    <3> QED  BY <1>2, <2>2, <2>4, <3>1 DEF ChunkOK, Same
  <2>7. UNCHANGED raised /\ inflight' = Tail(inflight)
    BY <1>5 DEF Retire
  <2>8. e \in ChunkRec
    BY <2>4 DEF Same
  <2>9. /\ g \in SUBSET inflight[1].got
        /\ g = (IF inflight[1].interrupted /\ processing THEN Contiguous(inflight[1]) ELSE inflight[1].got)
        /\ pause' = ReleasedMany(pause, Cardinality(inflight[1].got \ g))
        /\ hand' \in ChunkRec /\ Same(inflight[1], hand') /\ hand'.got = g
    BY <1>2, <1>5, <2>2, <2>4, <2>5, <2>8
  <2>10. hand'.interrupted = inflight[1].interrupted /\ hand'.left = inflight[1].left /\ ChunkOK(hand')
    BY <1>2, <2>4, <2>5, <2>6
  <2> QED  BY <1>1, <1>2, <1>5, <2>7, <2>9, <2>10
<1>6. \/ workerError
      \/ ~workerError /\ bad /\ pause' = ReleasedMany(pause, Cardinality(c.got)) /\ retry' = Append(retry, c) /\ UNCHANGED <<hand, phase>>
      \/ /\ ~workerError /\ ~bad /\ pause' = ReleasedMany(pause, Cardinality(c.got \ kept))
         /\ hand' = [c EXCEPT !.got = kept] /\ phase' = "part" /\ UNCHANGED retry
  BY <1>2 DEF Retire
<1> QED  BY <1>3, <1>4, <1>5, <1>6

-----------------------------------------------------------------------------
(* Counting results.                                                        *)

Gots(s)   == [i \in DOMAIN s |-> Cardinality(s[i].got)]
Counts(q) == [i \in DOMAIN q |-> Cardinality(DOMAIN q[i] \ {-1})]

LEMMA GotsAre ==
    ASSUME NEW s \in Seq(ChunkRec), \A i \in 1 .. Len(s) : ChunkOK(s[i])
    PROVE  /\ Gots(s) \in Seq(Nat) /\ Len(Gots(s)) = Len(s) /\ GotIn(s) = SumOf(Gots(s)) /\ GotIn(s) \in Nat
           /\ \A i \in 1 .. Len(s) : Gots(s)[i] = Cardinality(s[i].got)
<1>1. PICK n \in Nat : n = Len(s) /\ DOMAIN s = 1 .. n
  OBVIOUS
<1>2. \A i \in 1 .. n : Cardinality(s[i].got) \in Nat
  <2> SUFFICES ASSUME NEW i \in 1 .. n PROVE Cardinality(s[i].got) \in Nat
    OBVIOUS
  <2>1. s[i] \in ChunkRec /\ ChunkOK(s[i])
    BY <1>1
  <2> QED  BY <2>1, Places
<1>3. Gots(s) = [i \in 1 .. n |-> Cardinality(s[i].got)]
  BY <1>1 DEF Gots
<1>4. Gots(s) \in Seq(Nat) /\ Len(Gots(s)) = n /\ \A i \in 1 .. n : Gots(s)[i] = Cardinality(s[i].got)
  BY <1>2, <1>3
<1>5. GotIn(s) = SumOf(Gots(s))
  BY DEF GotIn, Gots
<1> QED  BY <1>1, <1>4, <1>5, SumNat

LEMMA ItemSizes ==
    /\ \A f \in Items : IsFiniteSet(DOMAIN f) /\ Cardinality(DOMAIN f) \in Nat /\ DOMAIN f \subseteq Frames /\ -1 \notin DOMAIN f
    /\ Cardinality(DOMAIN EndOfWrites \ {-1}) = 0
    /\ IsFiniteSet(Frames)
<1>1. IsFiniteSet(Frames) /\ -1 \notin Frames
  BY Sizes, FS_Interval
<1>2. ASSUME NEW f \in Items
      PROVE IsFiniteSet(DOMAIN f) /\ Cardinality(DOMAIN f) \in Nat /\ DOMAIN f \subseteq Frames /\ -1 \notin DOMAIN f
  <2>1. DOMAIN f \subseteq Frames
    BY ItemsAre
  <2>2. IsFiniteSet(DOMAIN f)
    BY <1>1, <2>1, FS_Subset
  <2> QED  BY <1>1, <2>1, <2>2, FS_CardinalityType
<1>3. DOMAIN EndOfWrites \ {-1} = {}
  BY ItemsAre
<1>4. Cardinality({}) = 0
  BY FS_EmptySet
<1> QED  BY <1>1, <1>2, <1>3, <1>4

LEMMA CountsAre ==
    ASSUME NEW q \in Seq(Items \cup {EndOfWrites})
    PROVE  /\ Counts(q) \in Seq(Nat) /\ Len(Counts(q)) = Len(q) /\ Count(q) = SumOf(Counts(q)) /\ Count(q) \in Nat
           /\ \A i \in 1 .. Len(q) : /\ q[i] \in Items => Counts(q)[i] = Cardinality(DOMAIN q[i])
                                     /\ q[i] = EndOfWrites => Counts(q)[i] = 0
<1>1. PICK n \in Nat : n = Len(q) /\ DOMAIN q = 1 .. n
  OBVIOUS
<1>2. ASSUME NEW i \in 1 .. n
      PROVE  /\ Cardinality(DOMAIN q[i] \ {-1}) \in Nat
             /\ q[i] \in Items => Cardinality(DOMAIN q[i] \ {-1}) = Cardinality(DOMAIN q[i])
             /\ q[i] = EndOfWrites => Cardinality(DOMAIN q[i] \ {-1}) = 0
  <2>1. q[i] \in Items \/ q[i] = EndOfWrites
    BY <1>1
  <2>2. CASE q[i] \in Items
    <3>1. DOMAIN q[i] \ {-1} = DOMAIN q[i]
      BY <2>2, ItemSizes
    <3>2. q[i] # EndOfWrites
      BY <2>2, ItemsAre
    <3> QED  BY <2>2, <3>1, <3>2, ItemSizes
  <2>3. CASE q[i] = EndOfWrites
    <3>1. q[i] \notin Items
      BY <2>3, ItemsAre
    <3> QED  BY <2>3, <3>1, ItemSizes
  <2> QED  BY <2>1, <2>2, <2>3
<1>3. Counts(q) = [i \in 1 .. n |-> Cardinality(DOMAIN q[i] \ {-1})]
  BY <1>1 DEF Counts
<1>4. Counts(q) \in Seq(Nat) /\ Len(Counts(q)) = n /\ \A i \in 1 .. n : Counts(q)[i] = Cardinality(DOMAIN q[i] \ {-1})
  BY <1>2, <1>3
<1>5. Count(q) = SumOf(Counts(q))
  BY DEF Count, Counts
<1> QED  BY <1>1, <1>2, <1>4, <1>5, SumNat

LEMMA Numbers ==
    ASSUME Inv
    PROVE  /\ GotIn(inflight) \in Nat /\ Count(writeQ) \in Nat
           /\ IsFiniteSet(hand.got) /\ Cardinality(hand.got) \in Nat /\ hand.got \subseteq Frames
           /\ IsFiniteSet(DOMAIN load) /\ Cardinality(DOMAIN load) \in Nat
           /\ \A i \in 1 .. Len(inflight) : /\ IsFiniteSet(inflight[i].got) /\ Cardinality(inflight[i].got) \in Nat
                                            /\ inflight[i].got \subseteq Frames
<1>1. writeQ \in Seq(Items \cup {EndOfWrites}) /\ load \in Items
  BY DEF Inv, Types, WriterTypes
<1>2. inflight \in Seq(ChunkRec) /\ \A i \in 1 .. Len(inflight) : inflight[i] \in ChunkRec /\ ChunkOK(inflight[i])
  BY InflightTypes
<1>3. IsFiniteSet(hand.got) /\ Cardinality(hand.got) \in Nat /\ hand.got \subseteq Frames
  <2>1. CASE Handing
    BY <2>1, CoordIs, Places
  <2>2. CASE ~Handing
    <3>1. hand.got = {}
      BY <2>2, CoordIs, NoChunkIs
    <3> QED  BY <3>1, FS_EmptySet
  <2> QED  BY <2>1, <2>2
<1>4. \A i \in 1 .. Len(inflight) : /\ IsFiniteSet(inflight[i].got) /\ Cardinality(inflight[i].got) \in Nat
                                    /\ inflight[i].got \subseteq Frames
  BY <1>2, Places
<1>5. GotIn(inflight) \in Nat
  BY <1>2, GotsAre
<1>6. Count(writeQ) \in Nat
  BY <1>1, CountsAre
<1> QED  BY <1>1, <1>3, <1>4, <1>5, <1>6, ItemSizes

-----------------------------------------------------------------------------
(* Every step keeps the types.                                              *)

LEMMA TypesWorker ==
    ASSUME Inv, NEW w \in Workers, Worker(w)
    PROVE  Types'
<1> USE DEF Inv, Types
<1>1. WorkerStep(w)
  BY WorkerSteps
<1>2. /\ UNCHANGED <<pauseFlag, stopped, rpc, held, decoded, readerError, prefetch, phase, back,
                     hand, retry, bad, carry, chunkStart, chunkNo, requeued, consumerDone, writerStop,
                     raised, writeQ, xpc, load, written, writerError, encoded, sealed, call, calls>>
  BY WorkerFrame
<1>3. processing' \in BOOLEAN /\ workerError' \in BOOLEAN
  <2>1. CASE Run(w) \/ Fallback(w) \/ HandBack(w) \/ Enter(w)
    BY <2>1 DEF Run, Fallback, HandBack, Enter, flagVars, FlagTypes
  <2>2. CASE TakeBlock(w)
    BY <2>2 DEF TakeBlock, FlagTypes
  <2> QED  BY <2>1, <2>2 DEF Worker
<1>4. pause \in PauseRec /\ workQ \in Seq(BlockRec \cup {Quit}) /\ at \in [Workers -> AtRec]
      /\ wpc \in [Workers -> {"idle", "frame", "run", "fallback", "done"}] /\ inflight \in Seq(ChunkRec)
  BY DEF FlagTypes, WorkerTypes, CoordTypes
<1>5. /\ Entered(pause) \in PauseRec /\ Left(pause) \in PauseRec /\ Reserved(pause) \in PauseRec
      /\ Left(Reserved(pause)) \in PauseRec
  BY <1>4, PauseOps
<1>6. Nowhere \in AtRec
  BY DEF Nowhere, AtRec
<1>7. workQ # <<>> => Tail(workQ) \in Seq(BlockRec \cup {Quit})
  BY <1>4, Tails
<1>8. ASSUME pause' \in PauseRec, workQ' \in Seq(BlockRec \cup {Quit}), at' \in [Workers -> AtRec],
             wpc' \in [Workers -> {"idle", "frame", "run", "fallback", "done"}], inflight' \in Seq(ChunkRec)
      PROVE  Types'
  <2>1. FlagTypes'
    BY <1>2, <1>3, <1>8 DEF FlagTypes
  <2>2. ReaderTypes'
    BY <1>2 DEF ReaderTypes
  <2>3. WorkerTypes'
    BY <1>8 DEF WorkerTypes
  <2>4. CoordTypes'
    BY <1>2, <1>8 DEF CoordTypes, Handing
  <2>5. WriterTypes'
    BY <1>2 DEF WriterTypes
  <2> QED  BY <2>1, <2>2, <2>3, <2>4, <2>5
<1>9. CASE Quits(w) \/ Enters(w)
  BY <1>4, <1>5, <1>7, <1>8, <1>9 DEF Quits, Enters, Takes
<1>10. CASE \E i \in 1 .. Len(inflight) : \E d \in ChunkRec : Drops(w, i, d)
  BY <1>4, <1>7, <1>8, <1>10 DEF Drops, Takes, Touched
<1>11. CASE \E i \in 1 .. Len(inflight) : \E d \in ChunkRec : Returns(w, i, d)
  BY <1>4, <1>6, <1>8, <1>11 DEF Returns, Touched
<1>12. CASE \E i \in 1 .. Len(inflight) : \E d \in ChunkRec : Keeps(w, i, d)
  <2>1. PICK i \in 1 .. Len(inflight), d \in ChunkRec : Keeps(w, i, d)
    BY <1>12
  <2>2. inflight' \in Seq(ChunkRec) /\ UNCHANGED workQ
    BY <2>1 DEF Keeps, Touched
  <2>3. pause' \in PauseRec
    BY <1>5, <2>1 DEF Keeps
  <2>4. wpc' \in [Workers -> {"idle", "frame", "run", "fallback", "done"}]
    BY <1>4, <2>1 DEF Keeps
  <2>5. at[w] \in AtRec
    BY <1>4
  <2>6. at[w].ci + 1 \in Nat
    BY <2>5 DEF AtRec
  <2>7. [at[w] EXCEPT !.ci = at[w].ci + 1] \in AtRec
    BY <2>5, <2>6 DEF AtRec
  <2>8. at' \in [Workers -> AtRec]
    BY <1>4, <1>6, <2>1, <2>7 DEF Keeps
  <2> QED  BY <1>4, <1>8, <2>2, <2>3, <2>4, <2>8
<1>13. CASE \E i \in 1 .. Len(inflight) : \E a \in AtRec : Starts(w, i, a)
  BY <1>4, <1>7, <1>8, <1>13 DEF Starts, Takes
<1>14. CASE \E i \in 1 .. Len(inflight) : Fails(w, i)
  BY <1>4, <1>5, <1>8, <1>14 DEF Fails
<1> QED  BY <1>1, <1>9, <1>10, <1>11, <1>12, <1>13, <1>14 DEF WorkerStep

LEMMA TypesReader ==
    ASSUME Inv, Reader
    PROVE  Types'
<1> USE DEF Inv, Types
<1>1. UNCHANGED <<pause, pauseFlag, stopped, workQ, wpc, at, workerError, phase, back, inflight,
                  hand, retry, bad, carry, chunkStart, chunkNo, requeued, consumerDone, writerStop,
                  raised, writeQ, xpc, load, written, writerError, encoded, sealed, call, calls>>
  BY ReaderFrame
<1>2. FlagTypes'
  <2>1. processing' \in BOOLEAN /\ readerError' \in BOOLEAN
    BY DEF Reader, Decode, PutChunk, SendSentinel, FlagTypes, flagVars
  <2> QED  BY <1>1, <2>1 DEF FlagTypes
<1>3. ReaderTypes'
  <2>1. held \in Seq(Nat) /\ held \in Seq(Int) /\ decoded \in 0 .. TotalFrames /\ prefetch \in Seq(Seq(Int)) /\ rpc \in {"read", "put", "sentinel", "done"}
    BY NatSeq DEF ReaderTypes
  <2>2. CASE Decode
    <3>1. PICK n : n = Smaller(Chunk, TotalFrames - decoded)
      OBVIOUS
    <3>2. n \in Nat /\ decoded + n \in 0 .. TotalFrames
      BY <2>1, <3>1, Sizes DEF Smaller
    <3>3. \A i \in 1 .. n : decoded + i - 1 \in Nat
      BY <2>1, <3>2
    <3>4. [i \in 1 .. n |-> decoded + i - 1] \in Seq(Nat)
      BY <3>2, <3>3
    <3>5. rpc' \in {"sentinel", "put"} /\ decoded' \in {decoded, decoded + n}
          /\ held' \in {held, [i \in 1 .. n |-> decoded + i - 1]} /\ prefetch' = prefetch
      BY <2>2, <3>1 DEF Decode, queueVars
    <3> QED  BY <2>1, <3>2, <3>4, <3>5 DEF ReaderTypes
  <2>3. CASE PutChunk
    <3>1. Append(prefetch, held) \in Seq(Seq(Int))
      BY <2>1, Appends
    <3>2. prefetch' \in {prefetch, Append(prefetch, held)} /\ rpc' = "read" /\ held' = <<>> /\ decoded' = decoded
      BY <2>3 DEF PutChunk
    <3>3. prefetch' \in Seq(Seq(Int))
      BY <2>1, <3>1, <3>2
    <3>4. held' \in Seq(Nat)
      BY <3>2
    <3> QED  BY <2>1, <3>2, <3>3, <3>4 DEF ReaderTypes
  <2>4. CASE SendSentinel
    <3>1. Append(prefetch, EndOfStream) \in Seq(Seq(Int))
      BY <2>1, EndMark, Appends
    <3>2. prefetch' \in {prefetch, Append(prefetch, EndOfStream), <<>>} /\ rpc' \in {rpc, "done"}
          /\ UNCHANGED <<held, decoded>>
      BY <2>4 DEF SendSentinel
    <3>3. <<>> \in Seq(Seq(Int))
      OBVIOUS
    <3>4. prefetch' \in Seq(Seq(Int))
      BY <2>1, <3>1, <3>2, <3>3
    <3> QED  BY <2>1, <3>2, <3>4 DEF ReaderTypes
  <2> QED  BY <2>2, <2>3, <2>4 DEF Reader
<1>4. WorkerTypes'
  BY <1>1 DEF WorkerTypes
<1>5. CoordTypes'
  BY <1>1 DEF CoordTypes, Handing
<1>6. WriterTypes'
  BY <1>1 DEF WriterTypes
<1> QED  BY <1>2, <1>3, <1>4, <1>5, <1>6

LEMMA TypesCall ==
    ASSUME Inv, CallBegins \/ CallEnds
    PROVE  Types'
<1> USE DEF Inv, Types
<1>1. /\ UNCHANGED <<rpc, held, decoded, readerError, prefetch, workQ, wpc, at, workerError, phase, back, inflight,
                     hand, retry, bad, carry, chunkStart, chunkNo, requeued, consumerDone, writerStop,
                     raised, writeQ, xpc, load, written, writerError, encoded, sealed>>
      /\ pause' \in {pause, Asked(pause), Resumed(pause)}
  BY CallFrame
<1>2. FlagTypes'
  <2>1. pause \in PauseRec
    BY DEF FlagTypes
  <2>2. pause' \in PauseRec
    BY <1>1, <2>1, PauseOps
  <2>3. processing' \in BOOLEAN /\ pauseFlag' \in BOOLEAN /\ stopped' \in BOOLEAN
        /\ call' \in {"none", "pausing", "resuming", "stopping"}
    BY DEF CallBegins, CallEnds, flagVars, FlagTypes
  <2> QED  BY <1>1, <2>2, <2>3 DEF FlagTypes
<1>3. ReaderTypes' /\ WorkerTypes'
  BY <1>1 DEF ReaderTypes, WorkerTypes
<1>4. CoordTypes' /\ WriterTypes'
  BY <1>1 DEF CoordTypes, Handing, WriterTypes
<1> QED  BY <1>2, <1>3, <1>4

LEMMA LeastIs ==
    ASSUME NEW S, S \subseteq Nat, S # {}
    PROVE  Least(S) \in S /\ \A y \in S : Least(S) <= y
<1>1. \E x \in S : \A y \in S : x <= y
  BY NatMin
<1> QED  BY <1>1 DEF Least

\* The writer takes the first frame of what it holds.
LEMMA LoadIs ==
    ASSUME Inv, load # NoFrames
    PROVE  LET gi == Least(DOMAIN load) IN
              /\ gi \in DOMAIN load /\ gi \in Frames /\ load[gi] = gi /\ \A h \in DOMAIN load : gi <= h
              /\ Without(load, gi) \in Items /\ DOMAIN Without(load, gi) = DOMAIN load \ {gi}
<1>1. load = Ident(DOMAIN load) /\ DOMAIN load \subseteq Frames
  BY ItemsAre DEF Inv, Types, WriterTypes
<1>2. DOMAIN load # {}
  <2>1. NoFrames = Ident({})
    BY DEF NoFrames, Ident
  <2> QED  BY <1>1, <2>1
<1>3. DOMAIN load \subseteq Nat
  BY <1>1, Sizes
<1>4. PICK gi : gi = Least(DOMAIN load) /\ gi \in DOMAIN load /\ \A h \in DOMAIN load : gi <= h
  BY <1>2, <1>3, LeastIs
<1>5. load[gi] = gi
  BY <1>1, <1>4 DEF Ident
<1>6. Without(load, gi) = Ident(DOMAIN load \ {gi})
  BY <1>1 DEF Without, Ident
<1>7. Ident(DOMAIN load \ {gi}) \in Items /\ DOMAIN Ident(DOMAIN load \ {gi}) = DOMAIN load \ {gi}
  BY <1>1, ItemsAre
<1> QED  BY <1>1, <1>4, <1>5, <1>6, <1>7

LEMMA TypesWriter ==
    ASSUME Inv, Writer
    PROVE  Types'
<1> USE DEF Inv, Types
<1>1. UNCHANGED <<processing, pauseFlag, stopped, rpc, held, decoded, readerError, prefetch, workQ, wpc, at,
                  workerError, phase, back, inflight, hand, retry, bad, carry, chunkStart, chunkNo, requeued,
                  consumerDone, writerStop, raised, call, calls>>
  BY WriterFrame
<1>2. pause \in PauseRec /\ writerError \in BOOLEAN
  BY DEF FlagTypes
<1>3. pause' \in PauseRec /\ writerError' \in BOOLEAN
  <2>1. Released(pause) \in PauseRec /\ ReleasedMany(pause, Cardinality(DOMAIN load)) \in PauseRec
    BY <1>2, Numbers, PauseOps
  <2> QED  BY <1>2, <2>1 DEF Writer, TakeItem, WriteFrame, AtSafePoint, Unpark, writerVars
<1>4. FlagTypes'
  BY <1>1, <1>3 DEF FlagTypes
<1>5. ReaderTypes' /\ WorkerTypes'
  BY <1>1 DEF ReaderTypes, WorkerTypes
<1>6. CoordTypes'
  BY <1>1 DEF CoordTypes, Handing
<1>7. WriterTypes'
  <2>1. /\ writeQ \in Seq(Items \cup {EndOfWrites}) /\ Len(writeQ) <= QueueCap
        /\ xpc \in {"write", "safe", "parked", "done", "dead"} /\ load \in Items /\ written \in SUBSET Frames
        /\ encoded \in Seq(Nat)
    BY DEF WriterTypes
  <2>2. CASE TakeItem
    <3>1. writeQ # <<>> => /\ Tail(writeQ) \in Seq(Items \cup {EndOfWrites}) /\ Len(Tail(writeQ)) = Len(writeQ) - 1
                           /\ Head(writeQ) \in Items \cup {EndOfWrites} /\ Len(writeQ) \in Nat
      BY <2>1, Tails
    <3>2. UNCHANGED <<written, encoded>>
      BY <2>2 DEF TakeItem
    <3>3. CASE writeQ # <<>> /\ writeQ' = Tail(writeQ)
      <4>1. Len(writeQ') <= QueueCap /\ writeQ' \in Seq(Items \cup {EndOfWrites})
        BY <2>1, <3>1, <3>3, Sizes
      <4>2. load' \in Items /\ xpc' \in {"write", "safe", "parked", "done", "dead"}
        BY <2>1, <2>2, <3>1, <3>3 DEF TakeItem
      <4> QED  BY <2>1, <3>2, <4>1, <4>2 DEF WriterTypes
    <3>4. CASE xpc' = "done" /\ UNCHANGED <<writeQ, load>>
      BY <2>1, <3>2, <3>4 DEF WriterTypes
    <3> QED  BY <2>2, <3>3, <3>4 DEF TakeItem
  <2>3. CASE WriteFrame
    <3>1. PICK gi : /\ gi = Least(DOMAIN load) /\ gi \in Frames /\ load[gi] = gi
                    /\ Without(load, gi) \in Items
      BY <2>3, LoadIs DEF WriteFrame
    <3>2. Append(encoded, load[gi]) \in Seq(Nat) /\ written \cup {gi} \in SUBSET Frames /\ NoFrames \in Items
      <4>1. gi \in Nat
        BY <3>1, Sizes
      <4> QED  BY <2>1, <3>1, <4>1, ItemsAre, Appends
    <3>3. /\ writeQ' = writeQ /\ load' \in {Without(load, gi), NoFrames} /\ xpc' \in {xpc, "safe", "dead"}
          /\ written' \in {written, written \cup {gi}} /\ encoded' \in {encoded, Append(encoded, load[gi])}
      BY <2>3, <3>1 DEF WriteFrame, queueVars
    <3> QED  BY <2>1, <3>1, <3>2, <3>3 DEF WriterTypes
  <2>4. CASE AtSafePoint \/ Unpark
    BY <2>1, <2>4 DEF AtSafePoint, Unpark, queueVars, WriterTypes
  <2> QED  BY <2>2, <2>3, <2>4 DEF Writer
<1> QED  BY <1>4, <1>5, <1>6, <1>7

LEMMA ResultsAre ==
    ASSUME NEW c \in ChunkRec, ChunkOK(c)
    PROVE  Results(c) = Ident(c.got) /\ Results(c) \in Items /\ DOMAIN Results(c) = c.got
<1>1. PICK a \in Nat, b \in Nat, n \in Nat, m \in Nat :
          a = c.start /\ b = BaseGlobal(c) /\ n = Len(c.carry) /\ m = Len(c.chunk) /\ b + n = a
  BY ZenonT(60), Places
<1>2. /\ c.got \subseteq Frames /\ c.got \subseteq a .. a + m - 1 /\ Len(Combined(c)) = n + m
      /\ \A p \in Nat : IndexAt(c, p) = b + p
      /\ \A p \in 0 .. n + m - 1 : FrameAt(c, p) = IndexAt(c, p)
  <2>1. EndOf(c) = a + m
    BY <1>1 DEF EndOf
  <2>2. c.got \subseteq c.start .. EndOf(c) - 1
    BY DEF ChunkOK
  <2>3. c.got \subseteq a .. a + m - 1
    BY SMTT(30), <1>1, <2>1, <2>2
  <2>4. /\ c.got \subseteq Frames /\ Len(Combined(c)) = n + m
        /\ \A p \in Nat : IndexAt(c, p) = b + p
        /\ \A p \in 0 .. Len(Combined(c)) - 1 : FrameAt(c, p) = IndexAt(c, p)
    BY <1>1, Places
  <2> QED  BY <2>3, <2>4
<1>3. ASSUME NEW g \in c.got PROVE FrameAt(c, g - BaseGlobal(c)) = g
  <2>1. PICK p \in 0 .. n + m - 1 : p = g - b
    <3>1. g - b \in 0 .. n + m - 1
      <4>1. g \in a .. a + m - 1
        BY <1>2
      <4>2. PICK q \in Nat : q = g /\ a <= q /\ q <= a + m - 1
        BY <4>1
      <4>3. q - b \in 0 .. n + m - 1
        <5>1. b + n = a
          BY <1>1
        <5> QED  BY <4>2, <5>1
      <4> QED  BY <4>2, <4>3
    <3> QED  BY <3>1
  <2>2. FrameAt(c, p) = b + p /\ b + p = g
    <3>1. p \in Nat /\ g \in Nat
      <4>1. g \in Frames
        BY <1>2
      <4>2. \A x \in Frames : x \in Nat
        BY Sizes
      <4> QED  BY <4>1, <4>2
    <3>2. FrameAt(c, p) = IndexAt(c, p) /\ IndexAt(c, p) = b + p
      BY <1>2, <3>1
    <3>3. b + p = g
      BY <2>1, <3>1
    <3> QED  BY <3>2, <3>3
  <2> QED  BY <1>1, <2>1, <2>2
<1>4. Results(c) = Ident(c.got)
  BY <1>3 DEF Results, Ident
<1> QED  BY <1>2, <1>4, ItemsAre

\* What is handed over is the results of the chunk in hand, or nothing.
LEMMA HandOver ==
    ASSUME Inv, Handing
    PROVE  /\ Results(hand) = Ident(hand.got) /\ DOMAIN Results(hand) = hand.got /\ Results(hand) \in Items
           /\ Enqueued => /\ writeQ' = Append(writeQ, Results(hand)) /\ UNCHANGED pause
                          /\ writeQ' \in Seq(Items \cup {EndOfWrites}) /\ Len(writeQ') <= QueueCap
           /\ NotEnqueued => /\ UNCHANGED writeQ /\ pause' = ReleasedMany(pause, Cardinality(hand.got))
                             /\ pause' \in PauseRec /\ (writerError \/ ~processing)
<1>1. Results(hand) = Ident(hand.got) /\ DOMAIN Results(hand) = hand.got /\ Results(hand) \in Items
  BY CoordIs, ResultsAre
<1>2. writeQ \in Seq(Items \cup {EndOfWrites}) /\ pause \in PauseRec
  BY DEF Inv, Types, FlagTypes, WriterTypes
<1>3. /\ Append(writeQ, Results(hand)) \in Seq(Items \cup {EndOfWrites})
      /\ Len(Append(writeQ, Results(hand))) = Len(writeQ) + 1 /\ Len(writeQ) \in Nat
  BY <1>1, <1>2, Appends, Empty
<1>4. Enqueued => Len(writeQ') <= QueueCap
  BY <1>3, Sizes DEF Enqueued
<1>5. ReleasedMany(pause, Cardinality(hand.got)) \in PauseRec
  BY <1>2, Numbers, PauseOps
<1> QED  BY <1>1, <1>3, <1>4, <1>5 DEF Enqueued, NotEnqueued

LEMMA TypesCoord ==
    ASSUME Inv, Coordinator
    PROVE  Types'
<1>1. UNCHANGED <<pauseFlag, stopped, rpc, held, decoded, readerError, wpc, at, workerError,
                  xpc, load, written, writerError, encoded, sealed, call, calls>>
  BY CoordFrame
<1>2. FlagTypes /\ ReaderTypes /\ WorkerTypes /\ CoordTypes /\ WriterTypes
  BY DEF Inv, Types
<1>3. ASSUME pause' \in PauseRec, processing' \in BOOLEAN, raised' \in BOOLEAN, prefetch' \in Seq(Seq(Int)),
             workQ' \in Seq(BlockRec \cup {Quit}), writeQ' \in Seq(Items \cup {EndOfWrites}), Len(writeQ') <= QueueCap,
             CoordTypes'
      PROVE  Types'
  <2>1. FlagTypes'
    BY <1>1, <1>2, <1>3 DEF FlagTypes
  <2>2. ReaderTypes' /\ WorkerTypes' /\ WriterTypes'
    BY <1>1, <1>2, <1>3 DEF ReaderTypes, WorkerTypes, WriterTypes
  <2> QED  BY <1>3, <2>1, <2>2 DEF Types
<1>4. /\ pause \in PauseRec /\ processing \in BOOLEAN /\ raised \in BOOLEAN /\ prefetch \in Seq(Seq(Int))
      /\ workQ \in Seq(BlockRec \cup {Quit}) /\ writeQ \in Seq(Items \cup {EndOfWrites}) /\ Len(writeQ) <= QueueCap
      /\ Len(writeQ) \in Nat
  BY <1>2, Empty DEF FlagTypes, ReaderTypes, WorkerTypes, WriterTypes
<1>5. /\ inflight \in Seq(ChunkRec) /\ retry \in Seq(ChunkRec) /\ bad \in BOOLEAN /\ requeued \in BOOLEAN
      /\ writerStop \in BOOLEAN /\ consumerDone \in BOOLEAN /\ carry \in Seq(Nat) /\ chunkStart \in Nat /\ chunkNo \in Nat
      /\ phase \in Phases /\ back \in {"top", "drain"} /\ IF Handing THEN hand \in ChunkRec ELSE hand = NoChunk
  BY <1>2 DEF CoordTypes
<1> USE DEF flagVars, readerVars, workerVars, settleVars, gridVars, endVars, queueVars, writerVars, callVars, outsideVars
<1>6. prefetch # <<>> => Tail(prefetch) \in Seq(Seq(Int)) /\ Head(prefetch) \in Seq(Int)
  BY <1>4, Tails
<1>7. inflight # <<>> => Tail(inflight) \in Seq(ChunkRec) /\ Head(inflight) \in ChunkRec
  BY <1>5, Tails
<1>8. <<>> \in Seq(ChunkRec) /\ <<>> \in Seq(Seq(Int)) /\ <<>> \in Seq(Items \cup {EndOfWrites})
  OBVIOUS
<1>9. CASE Dispatch
  <2>1. PICK c \in ChunkRec : inflight' = Append(inflight, c)
    BY <1>9, DispatchIs
  <2>2. inflight' \in Seq(ChunkRec)
    BY <1>5, <2>1, Appends
  <2>3. PICK h \in Seq(Int) : h = Head(prefetch) /\ Len(h) \in Nat \ {0} /\ processing /\ prefetch # <<>>
    BY <1>9, NextChunk DEF Dispatch
  <2>4. Blocks(h) \in Seq(BlockRec)
    BY <2>3, BlocksAre
  <2>5. Blocks(h) \in Seq(BlockRec \cup {Quit})
    <3>1. \A i \in 1 .. Len(Blocks(h)) : Blocks(h)[i] \in BlockRec \cup {Quit}
      BY <2>4
    <3> QED  BY <2>4, <3>1, SeqDef
  <2>6. workQ' \in Seq(BlockRec \cup {Quit})
    <3>1. workQ \o Blocks(h) \in Seq(BlockRec \cup {Quit})
      BY <1>4, <2>5, ConcatProperties
    <3>2. workQ' = workQ \o Blocks(h)
      BY <1>9, <2>3 DEF Dispatch
    <3> QED  BY <3>1, <3>2
  <2>7. chunkStart' \in Nat /\ chunkNo' \in Nat
    <3>1. chunkStart' = chunkStart + Len(h) /\ chunkNo' = chunkNo + 1
      BY <1>9, <2>3 DEF Dispatch
    <3> QED  BY <1>5, <2>3, <3>1
  <2>8. carry' \in Seq(Nat)
    <3>1. PICK k : k = Smaller(WarmUp, chunkStart + Len(h)) /\ k \in Nat /\ k <= chunkStart + Len(h)
                   /\ LastOf(carry \o h, WarmUp) = Span(chunkStart + Len(h) - k, k)
      BY <1>9, <2>3, NextChunk DEF Dispatch
    <3>2. PICK a \in Nat : a = chunkStart + Len(h) - k
      BY <1>5, <2>3, <3>1
    <3>3. carry' = Span(a, k)
      BY <1>9, <2>3, <3>1, <3>2 DEF Dispatch
    <3> QED  BY <3>1, <3>3, SpanIs
  <2>9. UNCHANGED <<phase, back, hand, retry, bad, requeued, writerStop, consumerDone, raised, pause, writeQ, processing>>
        /\ prefetch' = Tail(prefetch)
    BY <1>9 DEF Dispatch
  <2>10. CoordTypes'
    BY <1>5, <2>2, <2>7, <2>8, <2>9 DEF CoordTypes, Handing
  <2> QED  BY <1>3, <1>4, <1>6, <2>3, <2>6, <2>9, <2>10
<1>10. CASE TakeEnd
  <2>1. CoordTypes'
    BY <1>5, <1>10 DEF TakeEnd, CoordTypes, Handing, Phases
  <2> QED  BY <1>3, <1>4, <1>6, <1>10, <2>1 DEF TakeEnd
<1>11. CASE NothingLeft \/ AllRetired \/ Boundary \/ JoinReader
  <2>1. CoordTypes'
    BY <1>5, <1>11 DEF NothingLeft, AllRetired, Boundary, JoinReader, CoordTypes, Handing, Phases, Torn
  <2> QED  BY <1>3, <1>4, <1>11, <2>1 DEF NothingLeft, AllRetired, Boundary, JoinReader
<1>12. CASE Drained
  <2>1. CoordTypes'
    BY <1>5, <1>12 DEF Drained, CoordTypes, Handing, Phases
  <2>2. Append(prefetch, EndOfStream) \in Seq(Seq(Int))
    BY <1>4, EndMark, Appends
  <2> QED  BY <1>3, <1>4, <1>12, <2>1, <2>2 DEF Drained
<1>13. CASE Settle
  <2>1. CoordTypes'
    BY <1>5, <1>7, <1>8, <1>13 DEF Settle, CoordTypes, Handing, Phases
  <2> QED  BY <1>3, <1>4, <1>13, <2>1 DEF Settle
<1>14. CASE Enqueue
  <2>1. Handing
    BY <1>14 DEF Enqueue, Handing
  <2>2. /\ phase' \in {"leave", "boundary", "top", "drain"} /\ hand' = NoChunk
        /\ UNCHANGED <<back, inflight, retry, bad, requeued, writerStop, consumerDone, carry, chunkStart, chunkNo,
                       processing, raised, prefetch, workQ>>
        /\ Enqueued \/ NotEnqueued
    BY <1>5, <1>14 DEF Enqueue
  <2>3. CoordTypes'
    BY <1>5, <2>2 DEF CoordTypes, Handing, Phases
  <2>4. writeQ' \in Seq(Items \cup {EndOfWrites}) /\ Len(writeQ') <= QueueCap /\ pause' \in PauseRec
    BY <1>4, <2>1, <2>2, HandOver
  <2> QED  BY <1>3, <1>4, <2>2, <2>3, <2>4
<1>15. CASE Retire
  <2>1. UNCHANGED <<back, bad, requeued, writerStop, consumerDone, carry, chunkStart, chunkNo, processing, prefetch,
                    workQ, writeQ>> /\ phase = "retire"
    BY <1>15 DEF Retire
  <2>2. inflight # <<>> /\ inflight[1] \in ChunkRec /\ Tail(inflight) \in Seq(ChunkRec) /\ 1 \in 1 .. Len(inflight)
    BY <1>15, RetireIs, Oldest
  <2>3. CASE raised' = TRUE /\ phase' = "leave" /\ UNCHANGED <<hand, retry, inflight, pause>>
    <3>1. CoordTypes'
      BY <1>5, <2>1, <2>3 DEF CoordTypes, Handing, Phases
    <3> QED  BY <1>3, <1>4, <2>1, <2>3, <3>1
  <2>4. CASE /\ UNCHANGED <<raised, hand, phase>> /\ inflight' = Tail(inflight)
             /\ pause' = ReleasedMany(pause, Cardinality(inflight[1].got)) /\ retry' = Append(retry, inflight[1])
    <3>1. retry' \in Seq(ChunkRec)
      BY <1>5, <2>2, <2>4, Appends
    <3>2. CoordTypes'
      BY <1>5, <2>1, <2>2, <2>4, <3>1 DEF CoordTypes, Handing, Phases
    <3>3. pause' \in PauseRec
      BY <1>4, <2>2, <2>4, Numbers, PauseOps
    <3> QED  BY <1>3, <1>4, <2>1, <2>4, <3>2, <3>3
  <2>5. CASE /\ UNCHANGED <<raised, retry>> /\ inflight' = Tail(inflight) /\ phase' = "part"
             /\ \E g \in SUBSET inflight[1].got :
                   /\ pause' = ReleasedMany(pause, Cardinality(inflight[1].got \ g)) /\ hand' \in ChunkRec
    <3>1. CoordTypes'
      BY <1>5, <2>1, <2>2, <2>5 DEF CoordTypes, Handing, Phases
    <3>2. pause' \in PauseRec
      <4>1. PICK g \in SUBSET inflight[1].got : pause' = ReleasedMany(pause, Cardinality(inflight[1].got \ g))
        BY <2>5
      <4>2. IsFiniteSet(inflight[1].got)
        BY <2>2, Numbers
      <4>3. IsFiniteSet(inflight[1].got \ g)
        BY <4>2, FS_Difference
      <4>4. Cardinality(inflight[1].got \ g) \in Nat
        BY <4>3, FS_CardinalityType
      <4> QED  BY <1>4, <4>1, <4>4, PauseOps
    <3> QED  BY <1>3, <1>4, <2>1, <2>5, <3>1, <3>2
  <2> QED  BY <1>15, <2>3, <2>4, <2>5, RetireIs
<1>16. CASE EnqueuePart
  <2>1. Handing
    BY <1>16 DEF EnqueuePart, Handing
  <2>2. /\ phase' \in {"leave", "retire"} /\ hand' = NoChunk
        /\ UNCHANGED <<back, inflight, requeued, writerStop, consumerDone, carry, chunkStart, chunkNo,
                       processing, raised, prefetch, workQ>>
        /\ Enqueued \/ NotEnqueued
        /\ bad' \in {bad, TRUE} /\ retry' \in {retry, Append(retry, hand)}
    BY <1>16 DEF EnqueuePart
  <2>3. retry' \in Seq(ChunkRec)
    <3>1. Append(retry, hand) \in Seq(ChunkRec)
      BY <1>5, <2>1, Appends
    <3> QED  BY <1>5, <2>2, <3>1
  <2>4. CoordTypes'
    BY <1>5, <2>2, <2>3 DEF CoordTypes, Handing, Phases
  <2>5. writeQ' \in Seq(Items \cup {EndOfWrites}) /\ Len(writeQ') <= QueueCap /\ pause' \in PauseRec
    BY <1>4, <2>1, <2>2, HandOver
  <2> QED  BY <1>3, <1>4, <2>2, <2>4, <2>5
<1>17. CASE Requeue
  <2>1. /\ phase' = back /\ retry' = <<>> /\ bad' = FALSE /\ phase = "look"
        /\ UNCHANGED <<pause, processing, raised, workQ, back, hand, chunkNo, writerStop, consumerDone, inflight, writeQ>>
    BY <1>17 DEF Requeue
  <2>2. CASE retry # <<>> /\ processing
    <3>1. 1 \in 1 .. Len(retry) /\ retry[1] \in ChunkRec
      BY <1>5, <2>2, Tails
    <3>2. carry' = retry[1].carry /\ chunkStart' = retry[1].start /\ prefetch' = ChunksOf(retry) \o prefetch /\ requeued' = TRUE
      BY <1>17, <2>2 DEF Requeue
    <3>3. carry' \in Seq(Nat) /\ chunkStart' \in Nat
      BY <3>1, <3>2 DEF ChunkRec
    <3>4. ChunksOf(retry) \in Seq(Seq(Int))
      <4>1. \A i \in 1 .. Len(retry) : retry[i].chunk \in Seq(Int)
        BY CoordIs, ChunkIs
      <4>2. DOMAIN retry = 1 .. Len(retry)
        BY <1>5
      <4>3. ChunksOf(retry) = [i \in 1 .. Len(retry) |-> retry[i].chunk]
        BY <4>2 DEF ChunksOf
      <4>4. Len(retry) \in Nat
        BY CoordIs
      <4>5. [i \in 1 .. Len(retry) |-> retry[i].chunk] \in Seq(Seq(Int))
        BY <4>1, <4>4
      <4> QED  BY <4>3, <4>5
    <3>5. prefetch' \in Seq(Seq(Int))
      BY <1>4, <3>2, <3>4, ConcatProperties
    <3>6. CoordTypes'
      BY <1>5, <1>8, <2>1, <3>2, <3>3 DEF CoordTypes, Handing, Phases
    <3> QED  BY <1>3, <1>4, <2>1, <3>5, <3>6
  <2>3. CASE ~(retry # <<>> /\ processing)
    <3>1. UNCHANGED <<carry, chunkStart, prefetch, requeued>>
      BY <1>17, <2>3 DEF Requeue
    <3>2. CoordTypes'
      BY <1>5, <1>8, <2>1, <3>1 DEF CoordTypes, Handing, Phases
    <3> QED  BY <1>3, <1>4, <2>1, <3>1, <3>2
  <2> QED  BY <2>2, <2>3
<1>18. CASE Leave
  <2>1. CoordTypes'
    BY <1>5, <1>18 DEF Leave, CoordTypes, Handing, Phases, Torn
  <2>2. [w \in 1 .. Width |-> Quit] \in Seq(BlockRec \cup {Quit})
    BY Sizes
  <2> QED  BY <1>3, <1>4, <1>18, <2>1, <2>2 DEF Leave
<1>19. CASE JoinPool
  <2>1. CoordTypes'
    BY <1>5, <1>8, <1>19 DEF JoinPool, CoordTypes, Handing, Phases, Torn
  <2>2. processing' \in BOOLEAN
    BY <1>2, <1>4, <1>19 DEF JoinPool, FlagTypes
  <2>3. pause' \in PauseRec
    <3>1. PICK n \in Nat : pause' = ReleasedMany(pause, n)
      <4>1. GotIn(inflight) \in Nat /\ Count(writeQ) \in Nat
        BY Numbers
      <4>2. GotIn(inflight) + (IF ~processing' THEN Count(writeQ) ELSE 0) \in Nat
        BY <4>1
      <4> QED  BY <1>19, <4>2 DEF JoinPool
    <3> QED  BY <1>4, <3>1, PauseOps
  <2>4. writeQ' \in {writeQ, <<>>} /\ UNCHANGED <<raised, prefetch, workQ>>
    BY <1>19 DEF JoinPool
  <2>5. writeQ' \in Seq(Items \cup {EndOfWrites}) /\ Len(writeQ') <= QueueCap
    <3>1. Len(<<>>) = 0
      OBVIOUS
    <3>2. Len(<<>>) <= QueueCap
      BY <3>1, Sizes
    <3> QED  BY <1>4, <1>8, <2>4, <3>2
  <2> QED  BY <1>3, <1>4, <2>1, <2>2, <2>3, <2>4, <2>5
<1>20. CASE StopWriter
  <2>1. CoordTypes'
    BY <1>5, <1>20 DEF StopWriter, CoordTypes, Handing, Phases, Torn
  <2>2. Append(writeQ, EndOfWrites) \in Seq(Items \cup {EndOfWrites}) /\ Len(Append(writeQ, EndOfWrites)) = Len(writeQ) + 1
    BY <1>4, Appends
  <2>3. writeQ' \in Seq(Items \cup {EndOfWrites}) /\ Len(writeQ') <= QueueCap
    <3>1. UNCHANGED writeQ \/ (Len(writeQ) < QueueCap /\ writeQ' = Append(writeQ, EndOfWrites))
      BY <1>20 DEF StopWriter
    <3>2. Len(writeQ) < QueueCap => Len(writeQ) + 1 <= QueueCap
      BY <1>4, Sizes
    <3> QED  BY <1>4, <2>2, <3>1, <3>2
  <2> QED  BY <1>3, <1>4, <1>20, <2>1, <2>3 DEF StopWriter
<1>21. CASE JoinWriter
  <2>1. CoordTypes'
    BY <1>5, <1>21 DEF JoinWriter, CoordTypes, Handing, Phases, Torn
  <2> QED  BY <1>3, <1>4, <1>8, <1>21, <2>1 DEF JoinWriter
<1> QED  BY <1>9, <1>10, <1>11, <1>12, <1>13, <1>14, <1>15, <1>16, <1>17, <1>18, <1>19, <1>20, <1>21 DEF Coordinator

-----------------------------------------------------------------------------
(* Every step keeps the shape of the run: Phased.                           *)

LEMMA WorkerLen ==
    ASSUME Inv, NEW w \in Workers, Worker(w)
    PROVE  /\ inflight' \in Seq(ChunkRec) /\ Len(inflight') = Len(inflight)
           /\ inflight = <<>> => inflight' = <<>>
           /\ workerError' => workerError \/ ~processing'
<1>1. WorkerStep(w) /\ inflight \in Seq(ChunkRec)
  BY WorkerSteps, CoordIs
<1>2. /\ inflight' \in Seq(ChunkRec) /\ Len(inflight') = Len(inflight)
      /\ workerError' => workerError \/ ~processing'
  <2>1. CASE Quits(w) \/ Enters(w)
    BY <1>1, <2>1 DEF Quits, Enters
  <2>2. ASSUME NEW i \in 1 .. Len(inflight), NEW d \in ChunkRec, Drops(w, i, d) \/ Returns(w, i, d) \/ Keeps(w, i, d)
        PROVE  /\ inflight' \in Seq(ChunkRec) /\ Len(inflight') = Len(inflight)
               /\ workerError' => workerError \/ ~processing'
    <3>1. Touched(i, d)
      BY <2>2 DEF Drops, Returns, Keeps
    <3>2. ~processing' \/ workerError' = workerError
      BY <2>2 DEF Drops, Returns, Keeps
    <3> QED  BY <3>1, <3>2 DEF Touched
  <2>3. CASE \E i \in 1 .. Len(inflight) : (\E a \in AtRec : Starts(w, i, a)) \/ Fails(w, i)
    BY <1>1, <2>3 DEF Starts, Fails
  <2> QED  BY <1>1, <2>1, <2>2, <2>3 DEF WorkerStep
<1> QED  BY <1>1, <1>2, Empty

LEMMA PhasedWorker ==
    ASSUME Inv, NEW w \in Workers, Worker(w)
    PROVE  Phased'
<1>1. /\ UNCHANGED <<pauseFlag, stopped, rpc, held, decoded, readerError, prefetch, phase, back,
                     hand, retry, bad, carry, chunkStart, chunkNo, requeued, consumerDone, writerStop,
                     raised, writeQ, xpc, load, written, writerError, encoded, sealed, call, calls>>
      /\ processing' => processing
  BY WorkerFrame
<1>2. /\ Len(inflight') = Len(inflight) /\ (inflight = <<>> => inflight' = <<>>)
      /\ workerError' => workerError \/ ~processing'
  BY WorkerLen
<1>3. workerError => workerError'
  <2>1. CASE TakeBlock(w)
    BY <2>1 DEF TakeBlock
  <2>2. CASE Run(w) \/ Fallback(w) \/ HandBack(w) \/ Enter(w)
    BY <2>2 DEF Run, Fallback, HandBack, Enter
  <2> QED  BY <2>1, <2>2 DEF Worker
<1>4. MarkInv /\ LoopInv /\ ErrorInv /\ WriterInv
  BY DEF Inv, Phased
<1>5. MarkInv'
  BY <1>1, <1>4 DEF MarkInv
<1>6. LoopInv'
  BY <1>1, <1>2, <1>4 DEF LoopInv, Handing
<1>7. ErrorInv'
  BY <1>1, <1>2, <1>3, <1>4 DEF ErrorInv
<1>8. WriterInv'
  BY <1>1, <1>4 DEF WriterInv, WriterGone
<1> QED  BY <1>5, <1>6, <1>7, <1>8 DEF Phased

LEMMA PhasedReader ==
    ASSUME Inv, Reader
    PROVE  Phased'
<1>1. /\ UNCHANGED <<pause, pauseFlag, stopped, workQ, wpc, at, workerError, phase, back, inflight,
                     hand, retry, bad, carry, chunkStart, chunkNo, requeued, consumerDone, writerStop,
                     raised, writeQ, xpc, load, written, writerError, encoded, sealed, call, calls>>
      /\ processing' => processing
  BY ReaderFrame
<1>2. MarkInv /\ LoopInv /\ ErrorInv /\ WriterInv
  BY DEF Inv, Phased
<1>3. ErrorInv'
  <2>1. readerError' => ~processing'
    BY <1>2 DEF Reader, Decode, PutChunk, SendSentinel, ErrorInv, flagVars
  <2> QED  BY <1>1, <1>2, <2>1 DEF ErrorInv
<1>4. WriterInv'
  BY <1>1, <1>2 DEF WriterInv, WriterGone
<1>5. prefetch \in Seq(Seq(Int)) /\ held \in Seq(Int) /\ held # EndOfStream /\ Len(prefetch) \in Nat
  BY CoordIs
<1>6. rpc # "done" /\ ~Marked(prefetch) /\ back # "drain" /\ Waiting(prefetch) = prefetch
  <2>1. rpc # "done"
    BY DEF Reader, Decode, PutChunk, SendSentinel
  <2> QED  BY <1>2, <1>5, <2>1, WaitingIs DEF MarkInv
<1>7. ASSUME UNCHANGED prefetch PROVE LoopInv'
  BY <1>1, <1>2, <1>7 DEF LoopInv, Handing
<1>8. CASE Decode
  <2>1. UNCHANGED prefetch /\ rpc = "read"
    BY <1>8 DEF Decode, queueVars
  <2>2. /\ rpc' # "put" => held' = <<>>
        /\ rpc' = "put" => Len(held') \in 1 .. Chunk
    <3>1. CASE rpc' = "sentinel" /\ UNCHANGED held
      BY <1>2, <2>1, <3>1 DEF MarkInv
    <3>2. CASE \E n \in Int : n = Smaller(Chunk, TotalFrames - decoded) /\ n > 0 /\ held' = [i \in 1 .. n |-> decoded + i - 1] /\ rpc' = "put"
      <4>1. PICK n \in Int : n = Smaller(Chunk, TotalFrames - decoded) /\ n > 0 /\ held' = [i \in 1 .. n |-> decoded + i - 1] /\ rpc' = "put"
        BY <3>2
      <4>2. decoded \in 0 .. TotalFrames
        BY CoordIs
      <4>3. n <= Chunk /\ n \in Nat
        BY <4>1, <4>2, Sizes DEF Smaller
      <4>4. Len(held') = n
        BY <4>1, <4>3
      <4> QED  BY <4>1, <4>3, <4>4, Sizes
    <3>3. Smaller(Chunk, TotalFrames - decoded) \in Int
      <4>1. decoded \in 0 .. TotalFrames
        BY CoordIs
      <4> QED  BY <4>1, Sizes DEF Smaller
    <3> QED  BY <1>8, <3>1, <3>2, <3>3 DEF Decode
  <2>3. MarkInv'
    BY <1>1, <1>2, <1>6, <2>1, <2>2 DEF MarkInv
  <2> QED  BY <1>3, <1>4, <1>7, <2>1, <2>3 DEF Phased
<1>9. CASE PutChunk
  <2>1. rpc = "put" /\ rpc' = "read" /\ held' = <<>> /\ Len(held) \in 1 .. Chunk
    BY <1>2, <1>9 DEF PutChunk, MarkInv
  <2>2. CASE UNCHANGED prefetch
    <3>1. MarkInv'
      BY <1>1, <1>2, <1>6, <2>1, <2>2 DEF MarkInv
    <3> QED  BY <1>3, <1>4, <1>7, <2>2, <3>1 DEF Phased
  <2>3. CASE Len(prefetch) < QueueCap /\ prefetch' = Append(prefetch, held)
    <3>1. ~Marked(prefetch') /\ Waiting(prefetch') = prefetch'
      BY <1>5, <1>6, <2>3, WaitingAppend
    <3>2. Len(prefetch') = Len(prefetch) + 1 /\ prefetch'[Len(prefetch) + 1] = held /\ \A i \in 1 .. Len(prefetch) : prefetch'[i] = prefetch[i]
      BY <1>5, <2>3, Appends
    <3>3. \A i \in 1 .. Len(prefetch') : Len(prefetch'[i]) \in 1 .. Chunk /\ prefetch'[i] # EndOfStream
      <4> SUFFICES ASSUME NEW i \in 1 .. Len(prefetch')
                   PROVE Len(prefetch'[i]) \in 1 .. Chunk /\ prefetch'[i] # EndOfStream
        OBVIOUS
      <4>1. i \in 1 .. Len(prefetch) \/ i = Len(prefetch) + 1
        BY <1>5, <3>2
      <4>2. CASE i \in 1 .. Len(prefetch)
        BY <1>2, <1>6, <3>2, <4>2 DEF MarkInv
      <4>3. CASE i = Len(prefetch) + 1
        BY <1>5, <2>1, <3>2, <4>3
      <4> QED  BY <4>1, <4>2, <4>3
    <3>4. MarkInv'
      BY <1>1, <1>6, <2>1, <3>1, <3>3 DEF MarkInv
    <3>5. LoopInv'
      <4>1. Len(Waiting(prefetch')) <= QueueCap
        BY <1>5, <2>3, <3>1, <3>2, Sizes
      <4>2. Len(Waiting(prefetch')) \in Nat /\ Len(inflight) \in Nat /\ Len(retry) \in Nat
        BY <1>5, <3>1, <3>2, CoordIs
      <4>3. Len(inflight) + Len(retry) + (IF Handing THEN 1 ELSE 0) <= Depth
        BY <1>2 DEF LoopInv
      <4>4. Len(Waiting(prefetch')) + Len(inflight) + Len(retry) + (IF Handing THEN 1 ELSE 0) <= QueueCap + Depth
        BY <4>1, <4>2, <4>3, Sizes
      <4> QED  BY <1>1, <1>2, <4>4 DEF LoopInv, Handing
    <3> QED  BY <1>3, <1>4, <3>4, <3>5 DEF Phased
  <2> QED  BY <1>9, <2>2, <2>3 DEF PutChunk
<1>10. CASE SendSentinel
  <2>1. rpc = "sentinel" /\ UNCHANGED held /\ held = <<>>
    BY <1>2, <1>10 DEF SendSentinel, MarkInv
  <2>2. CASE rpc' = "done" /\ UNCHANGED prefetch
    <3>1. MarkInv'
      BY <1>1, <1>2, <1>6, <2>1, <2>2 DEF MarkInv
    <3> QED  BY <1>3, <1>4, <1>7, <2>2, <3>1 DEF Phased
  <2>3. CASE rpc' = "done" /\ prefetch' = Append(prefetch, EndOfStream)
    <3>1. Marked(prefetch') /\ Waiting(prefetch') = prefetch
      BY <1>5, <1>6, <2>3, EndMark, WaitingAppend
    <3>2. MarkInv'
      BY <1>1, <1>2, <1>6, <2>1, <2>3, <3>1 DEF MarkInv
    <3>3. LoopInv'
      BY <1>1, <1>2, <1>6, <3>1 DEF LoopInv, Handing
    <3> QED  BY <1>3, <1>4, <3>2, <3>3 DEF Phased
  <2>4. CASE prefetch' = <<>> /\ UNCHANGED rpc
    <3>1. ~Marked(prefetch') /\ Waiting(prefetch') = <<>>
      BY <2>4 DEF Marked, Waiting
    <3>2. Len(<<>>) = 0
      OBVIOUS
    <3>3. MarkInv'
      BY <1>1, <1>2, <1>6, <2>1, <2>4, <3>1, <3>2 DEF MarkInv
    <3>4. LoopInv'
      <4>1. Len(Waiting(prefetch')) + Len(inflight) + Len(retry) + (IF Handing THEN 1 ELSE 0) <= QueueCap + Depth
        <5>1. Len(inflight) + Len(retry) + (IF Handing THEN 1 ELSE 0) <= Depth /\ Len(inflight) \in Nat /\ Len(retry) \in Nat
          BY <1>2, CoordIs DEF LoopInv
        <5> QED  BY <3>1, <3>2, <5>1, Sizes
      <4> QED  BY <1>1, <1>2, <4>1 DEF LoopInv, Handing
    <3> QED  BY <1>3, <1>4, <3>3, <3>4 DEF Phased
  <2> QED  BY <1>10, <2>2, <2>3, <2>4 DEF SendSentinel
<1> QED  BY <1>8, <1>9, <1>10 DEF Reader

LEMMA PhasedCall ==
    ASSUME Inv, CallBegins \/ CallEnds
    PROVE  Phased'
<1>1. /\ UNCHANGED <<rpc, held, decoded, readerError, prefetch, workQ, wpc, at, workerError, phase, back, inflight,
                     hand, retry, bad, carry, chunkStart, chunkNo, requeued, consumerDone, writerStop,
                     raised, writeQ, xpc, load, written, writerError, encoded, sealed>>
      /\ processing' => processing
  BY CallFrame
<1>2. MarkInv /\ LoopInv /\ ErrorInv /\ WriterInv
  BY DEF Inv, Phased
<1>3. MarkInv' /\ ErrorInv'
  BY <1>1, <1>2 DEF MarkInv, ErrorInv
<1>4. LoopInv'
  BY <1>1, <1>2 DEF LoopInv, Handing
<1>5. WriterInv'
  BY <1>1, <1>2 DEF WriterInv, WriterGone
<1> QED  BY <1>3, <1>4, <1>5 DEF Phased

LEMMA PhasedWriter ==
    ASSUME Inv, Writer
    PROVE  Phased'
<1>1. UNCHANGED <<processing, pauseFlag, stopped, rpc, held, decoded, readerError, prefetch, workQ, wpc, at,
                  workerError, phase, back, inflight, hand, retry, bad, carry, chunkStart, chunkNo, requeued,
                  consumerDone, writerStop, raised, call, calls>>
  BY WriterFrame
<1>2. MarkInv /\ LoopInv /\ ErrorInv /\ WriterInv
  BY DEF Inv, Phased
<1>3. MarkInv'
  BY <1>1, <1>2 DEF MarkInv
<1>4. LoopInv'
  BY <1>1, <1>2 DEF LoopInv, Handing
<1>5. xpc \in {"write", "safe", "parked"}
  BY DEF Writer, TakeItem, WriteFrame, AtSafePoint, Unpark
<1>6. ~writerError /\ ~WriterGone /\ phase \notin {"joinReader", "closed"}
  BY <1>2, <1>5 DEF ErrorInv, WriterInv, WriterGone
<1>7. ErrorInv'
  <2>1. writerError' <=> xpc' = "dead"
    BY <1>5, <1>6 DEF Writer, TakeItem, WriteFrame, AtSafePoint, Unpark, writerVars
  <2> QED  BY <1>1, <1>2, <2>1 DEF ErrorInv
<1>8. writeQ \in Seq(Items \cup {EndOfWrites})
  BY DEF Inv, Types, WriterTypes
<1>9. WriterInv'
  <2>1. CASE TakeItem /\ writeQ # <<>>
    <3>1. /\ Tail(writeQ) \in Seq(Items \cup {EndOfWrites}) /\ Len(writeQ) \in Nat \ {0} /\ Len(Tail(writeQ)) = Len(writeQ) - 1
          /\ writeQ[1] = Head(writeQ)
          /\ \A i \in 1 .. Len(Tail(writeQ)) : Tail(writeQ)[i] = writeQ[i + 1]
      BY <1>8, <2>1, Tails
    <3>2. /\ writeQ' = Tail(writeQ) /\ load = NoFrames
          /\ Head(writeQ) = EndOfWrites => load' = load
          /\ xpc' = "done" => Head(writeQ) = EndOfWrites
      BY <1>5, <2>1 DEF TakeItem
    <3>3. \A i \in 1 .. Len(writeQ) : writeQ[i] = EndOfWrites => i = Len(writeQ) /\ phase \in Late
      BY <1>2 DEF WriterInv
    <3>4. Head(writeQ) = EndOfWrites => Len(writeQ) = 1 /\ phase \in Late
      <4>1. 1 \in 1 .. Len(writeQ)
        BY <3>1
      <4> QED  BY <3>1, <3>3, <4>1
    <3>5. Head(writeQ) = EndOfWrites => Tail(writeQ) = <<>>
      BY <3>1, <3>4, Empty
    <3>6. \A i \in 1 .. Len(writeQ') : writeQ'[i] = EndOfWrites => i = Len(writeQ') /\ phase \in Late
      <4> SUFFICES ASSUME NEW i \in 1 .. Len(Tail(writeQ)), Tail(writeQ)[i] = EndOfWrites
                   PROVE  i = Len(Tail(writeQ)) /\ phase \in Late
        BY <3>2
      <4>1. i + 1 \in 1 .. Len(writeQ) /\ writeQ[i + 1] = EndOfWrites
        BY <3>1
      <4>2. i + 1 = Len(writeQ) /\ phase \in Late
        BY <3>3, <4>1
      <4>3. PICK n \in Nat : n = Len(writeQ) /\ Len(Tail(writeQ)) = n - 1
        BY <3>1
      <4>4. i \in Int /\ i + 1 = n
        BY <4>2, <4>3
      <4> QED  BY <4>2, <4>3, <4>4
    <3>7. xpc' = "done" => phase' \in Late /\ load' = NoFrames /\ writeQ' = <<>>
      BY <1>1, <3>2, <3>4, <3>5
    <3> QED  BY <1>1, <1>2, <1>6, <3>6, <3>7 DEF WriterInv, Late
  <2>2. CASE TakeItem /\ writeQ = <<>>
    <3>1. writerStop /\ UNCHANGED <<writeQ, load>> /\ load = NoFrames
      BY <2>2 DEF TakeItem
    <3> QED  BY <1>1, <1>2, <1>6, <2>2, <3>1 DEF WriterInv, Late
  <2>3. CASE WriteFrame \/ AtSafePoint \/ Unpark
    <3>1. writeQ' = writeQ /\ xpc' # "done"
      BY <1>5, <2>3 DEF WriteFrame, AtSafePoint, Unpark, queueVars
    <3> QED  BY <1>1, <1>2, <1>6, <3>1 DEF WriterInv, Late
  <2> QED  BY <2>1, <2>2, <2>3 DEF Writer
<1> QED  BY <1>3, <1>4, <1>7, <1>9 DEF Phased

\* The chunks that are sent back go in front of the ones that wait.
LEMMA RequeueIs ==
    ASSUME Inv, Requeue
    PROVE  /\ phase = "look" /\ phase' = back /\ retry' = <<>> /\ bad' = FALSE /\ inflight = <<>> /\ ~Handing
           /\ UNCHANGED <<pause, processing, writeQ, workQ, back, hand, chunkNo, inflight, consumerDone, writerStop, raised>>
           /\ \/ /\ UNCHANGED <<carry, chunkStart, prefetch, requeued>> /\ ~(retry # <<>> /\ processing)
              \/ /\ processing /\ retry # <<>> /\ 1 \in 1 .. Len(retry)
                 /\ retry[1] \in ChunkRec /\ ChunkOK(retry[1]) /\ Chain(retry, chunkStart)
                 /\ carry' = retry[1].carry /\ chunkStart' = retry[1].start /\ requeued' = TRUE
                 /\ prefetch' \in Seq(Seq(Int))
                 /\ (Marked(prefetch') <=> Marked(prefetch))
                 /\ ChunksOf(retry) \in Seq(Seq(Int)) /\ Len(ChunksOf(retry)) = Len(retry)
                 /\ \A i \in 1 .. Len(retry) : ChunksOf(retry)[i] = retry[i].chunk
                 /\ Waiting(prefetch') = ChunksOf(retry) \o Waiting(prefetch)
                 /\ Pieces(ChunksOf(retry), chunkStart', chunkStart)
<1>1. /\ phase = "look" /\ phase' = back /\ retry' = <<>> /\ bad' = FALSE
      /\ UNCHANGED <<pause, processing, writeQ, workQ, back, hand, chunkNo, inflight, consumerDone, writerStop, raised>>
  BY DEF Requeue, outsideVars, flagVars, endVars
<1>2. inflight = <<>> /\ ~Handing
  BY <1>1 DEF Inv, Phased, LoopInv, Handing
<1>3. CASE ~(retry # <<>> /\ processing)
  <2>1. UNCHANGED <<carry, chunkStart, prefetch, requeued>>
    BY <1>3 DEF Requeue
  <2> QED  BY <1>1, <1>2, <1>3, <2>1
<1>4. CASE retry # <<>> /\ processing
  <2>1. retry \in Seq(ChunkRec) /\ prefetch \in Seq(Seq(Int)) /\ \A i \in 1 .. Len(retry) : ChunkOK(retry[i]) /\ retry[i] \in ChunkRec
    BY CoordIs
  <2>2. 1 \in 1 .. Len(retry)
    BY <1>4, <2>1, Tails
  <2>3. Chain(retry, chunkStart) /\ chunkStart \in 0 .. TotalFrames
    <3>1. chunkStart \in Nat /\ chunkStart <= TotalFrames /\ Chain(retry, First(inflight, chunkStart))
      BY <1>1, <1>4, CoordIs DEF Inv, GridInv
    <3>2. First(inflight, chunkStart) = chunkStart
      BY <1>2 DEF First
    <3> QED  BY <3>1, <3>2, Sizes
  <2>4. PICK e \in 0 .. TotalFrames : e = chunkStart
    BY <2>3
  <2>5. /\ ChunksOf(retry) \in Seq(Seq(Int)) /\ Len(ChunksOf(retry)) = Len(retry)
        /\ \A i \in 1 .. Len(retry) : ChunksOf(retry)[i] = retry[i].chunk
        /\ Pieces(ChunksOf(retry), First(retry, e), e)
    BY <2>1, <2>3, <2>4, ChainPieces
  <2>6. carry' = retry[1].carry /\ chunkStart' = retry[1].start /\ requeued' = TRUE /\ prefetch' = ChunksOf(retry) \o prefetch
    BY <1>4 DEF Requeue
  <2>7. First(retry, e) = chunkStart'
    BY <1>4, <2>6 DEF First
  <2>8. \A i \in 1 .. Len(ChunksOf(retry)) : ChunksOf(retry)[i] # EndOfStream
    <3>1. \A i \in 1 .. Len(retry) : retry[i].chunk \in Seq(Nat)
      BY <2>1, ChunkIs
    <3> QED  BY <2>5, <3>1, NatSeq
  <2>9. /\ (Marked(ChunksOf(retry) \o prefetch) <=> Marked(prefetch))
        /\ Waiting(ChunksOf(retry) \o prefetch) = ChunksOf(retry) \o Waiting(prefetch)
    BY <2>1, <2>5, <2>8, WaitingConcat
  <2>10. ChunksOf(retry) \o prefetch \in Seq(Seq(Int))
    BY <2>1, <2>5, ConcatProperties
  <2> QED  BY <1>1, <1>2, <1>4, <2>1, <2>2, <2>3, <2>4, <2>5, <2>6, <2>7, <2>9, <2>10
<1> QED  BY <1>3, <1>4

LEMMA PhasedCoord ==
    ASSUME Inv, Coordinator
    PROVE  Phased'
<1>1. /\ UNCHANGED <<pauseFlag, stopped, rpc, held, decoded, readerError, wpc, at, workerError,
                     xpc, load, written, writerError, encoded, sealed, call, calls>>
      /\ processing' => processing
  BY CoordFrame
<1>2. MarkInv /\ LoopInv /\ ErrorInv /\ WriterInv
  BY DEF Inv, Phased
<1>3. /\ Len(inflight) \in Nat /\ Len(retry) \in Nat /\ Len(Waiting(prefetch)) \in Nat /\ Len(prefetch) \in Nat
      /\ prefetch \in Seq(Seq(Int)) /\ inflight \in Seq(ChunkRec) /\ retry \in Seq(ChunkRec)
      /\ back \in {"top", "drain"} /\ phase \in Phases
  BY CoordIs
<1>4. writeQ \in Seq(Items \cup {EndOfWrites}) /\ Len(writeQ) \in Nat
  BY Empty DEF Inv, Types, WriterTypes
<1> USE DEF flagVars, readerVars, workerVars, settleVars, gridVars, endVars, queueVars, writerVars, callVars, outsideVars
<1>5. /\ Waiting(<<>>) = <<>> /\ ~Marked(<<>>) /\ Len(<<>>) = 0
  BY DEF Waiting, Marked
<1>6. ASSUME raised' => workerError PROVE ErrorInv'
  BY <1>1, <1>2, <1>6 DEF ErrorInv
\* While the loop runs, the writer has no end mark before it.
<1>7. phase \notin Late => ~writerStop /\ xpc # "done" /\ \A i \in 1 .. Len(writeQ) : writeQ[i] # EndOfWrites
  BY <1>2 DEF WriterInv
<1>8. ASSUME phase \notin Late, UNCHANGED <<writeQ, writerStop>>, phase' \notin {"joinReader", "closed"} PROVE WriterInv'
  BY <1>1, <1>7, <1>8 DEF WriterInv
<1>9. ASSUME UNCHANGED <<prefetch, back, requeued>> PROVE MarkInv'
  BY <1>1, <1>2, <1>9 DEF MarkInv
<1>10. CASE Dispatch
  <2>1. PICK c \in ChunkRec : inflight' = Append(inflight, c)
    BY <1>10, DispatchIs
  <2>2. Len(inflight') = Len(inflight) + 1 /\ inflight' # <<>>
    BY <1>3, <2>1, Appends
  <2>3. /\ phase = "top" /\ Len(inflight) < Depth /\ processing /\ prefetch # <<>> /\ Head(prefetch) # EndOfStream
        /\ UNCHANGED <<phase, back, hand, retry, bad, requeued, writerStop, raised, writeQ>> /\ prefetch' = Tail(prefetch)
    BY <1>10 DEF Dispatch
  <2>4. /\ Waiting(prefetch') = Tail(Waiting(prefetch)) /\ (Marked(prefetch') <=> Marked(prefetch)) /\ Waiting(prefetch) # <<>>
    BY <1>3, <2>3, WaitingTail
  <2>5. /\ Len(Waiting(prefetch')) = Len(Waiting(prefetch)) - 1
        /\ \A i \in 1 .. Len(Waiting(prefetch')) :
              Waiting(prefetch')[i] = Waiting(prefetch)[i + 1] /\ i + 1 \in 1 .. Len(Waiting(prefetch))
    <3>1. PICK s \in Seq(Seq(Int)) : s = Waiting(prefetch) /\ s # <<>>
      BY <1>3, <2>4, WaitingIs
    <3>2. Len(Tail(s)) = Len(s) - 1 /\ Len(s) \in Nat \ {0} /\ \A i \in 1 .. Len(Tail(s)) : Tail(s)[i] = s[i + 1]
      BY <3>1, Tails
    <3> QED  BY <2>4, <3>1, <3>2
  <2>6. back = "top"
    BY <1>2, <2>3 DEF LoopInv
  <2>7. MarkInv'
    <3>1. \A i \in 1 .. Len(Waiting(prefetch')) : Len(Waiting(prefetch')[i]) \in 1 .. Chunk /\ Waiting(prefetch')[i] # EndOfStream
      BY <1>2, <2>5 DEF MarkInv
    <3> QED  BY <1>1, <1>2, <2>3, <2>4, <2>6, <3>1 DEF MarkInv
  <2>8. LoopInv'
    <3>1. retry = <<>> /\ ~Handing /\ Len(retry) = 0
      BY <1>2, <1>5, <2>3 DEF LoopInv, Handing
    <3>2. Len(inflight) + 1 <= Depth
      BY <1>3, <2>3, Sizes
    <3>3. Len(Waiting(prefetch)) + Len(inflight) + Len(retry) + 0 <= QueueCap + Depth
      BY <1>2, <3>1 DEF LoopInv
    <3>4. /\ Len(inflight') + Len(retry') + 0 <= Depth
          /\ Len(Waiting(prefetch')) + Len(inflight') + Len(retry') + 0 <= QueueCap + Depth
      BY <1>3, <2>2, <2>3, <2>5, <3>1, <3>2, <3>3, Sizes
    <3> QED  BY <2>2, <2>3, <2>6, <3>1, <3>4, <1>2 DEF LoopInv, Handing
  <2>9. ErrorInv' /\ WriterInv'
    BY <1>2, <1>6, <1>8, <2>3 DEF ErrorInv, Late
  <2> QED  BY <2>7, <2>8, <2>9 DEF Phased
<1>11. CASE TakeEnd
  <2>1. /\ phase = "top" /\ prefetch # <<>> /\ prefetch' = Tail(prefetch)
        /\ UNCHANGED <<hand, retry, bad, inflight, writerStop, raised, writeQ>>
    BY <1>11 DEF TakeEnd
  <2>2. back = "top" /\ retry = <<>> /\ ~Handing
    BY <1>2, <2>1 DEF LoopInv, Handing
  <2>3. CASE Head(prefetch) = EndOfStream /\ requeued' = FALSE /\ phase' = "drain" /\ back' = "drain"
    <3>1. Marked(prefetch) /\ Waiting(prefetch) = <<>> /\ prefetch' = <<>>
      BY <1>2, <1>3, <2>1, <2>3, WaitingMark DEF MarkInv
    <3>2. MarkInv'
      BY <1>1, <1>2, <1>5, <3>1 DEF MarkInv
    <3>3. LoopInv'
      <4>1. /\ Len(inflight) + Len(retry) + 0 <= Depth
            /\ Len(Waiting(prefetch)) + Len(inflight) + Len(retry) + 0 <= QueueCap + Depth
        BY <1>2, <2>2 DEF LoopInv
      <4>2. /\ Len(inflight') + Len(retry') + 0 <= Depth
            /\ Len(Waiting(prefetch')) + Len(inflight') + Len(retry') + 0 <= QueueCap + Depth
        BY <1>5, <2>1, <3>1, <4>1
      <4> QED  BY <1>2, <2>1, <2>2, <2>3, <4>2 DEF LoopInv, Handing
    <3>4. ErrorInv' /\ WriterInv'
      BY <1>2, <1>6, <1>8, <2>1, <2>3 DEF ErrorInv, Late
    <3> QED  BY <3>2, <3>3, <3>4 DEF Phased
  <2>4. CASE Head(prefetch) # EndOfStream /\ phase' = "leave" /\ UNCHANGED <<requeued, back>>
    <3>1. /\ Waiting(prefetch') = Tail(Waiting(prefetch)) /\ (Marked(prefetch') <=> Marked(prefetch)) /\ Waiting(prefetch) # <<>>
      BY <1>3, <2>1, <2>4, WaitingTail
    <3>2. /\ Len(Waiting(prefetch')) = Len(Waiting(prefetch)) - 1
          /\ \A i \in 1 .. Len(Waiting(prefetch')) :
                Waiting(prefetch')[i] = Waiting(prefetch)[i + 1] /\ i + 1 \in 1 .. Len(Waiting(prefetch))
      <4>1. PICK s \in Seq(Seq(Int)) : s = Waiting(prefetch) /\ s # <<>>
        BY <1>3, <3>1, WaitingIs
      <4>2. Len(Tail(s)) = Len(s) - 1 /\ Len(s) \in Nat \ {0} /\ \A i \in 1 .. Len(Tail(s)) : Tail(s)[i] = s[i + 1]
        BY <4>1, Tails
      <4> QED  BY <3>1, <4>1, <4>2
    <3>3. MarkInv'
      <4>1. \A i \in 1 .. Len(Waiting(prefetch')) : Len(Waiting(prefetch')[i]) \in 1 .. Chunk /\ Waiting(prefetch')[i] # EndOfStream
        BY <1>2, <3>2 DEF MarkInv
      <4> QED  BY <1>1, <1>2, <2>2, <2>4, <3>1, <4>1 DEF MarkInv
    <3>4. LoopInv'
      <4>1. Len(Waiting(prefetch')) + Len(inflight) + Len(retry) + 0 <= QueueCap + Depth
        <5>1. Len(Waiting(prefetch)) + Len(inflight) + Len(retry) + 0 <= QueueCap + Depth
          BY <1>2, <2>2 DEF LoopInv
        <5> QED  BY <1>3, <3>2, <5>1, Sizes
      <4> QED  BY <1>2, <2>1, <2>2, <2>4, <4>1 DEF LoopInv, Handing
    <3>5. ErrorInv' /\ WriterInv'
      BY <1>2, <1>6, <1>8, <2>1, <2>4 DEF ErrorInv, Late
    <3> QED  BY <3>3, <3>4, <3>5 DEF Phased
  <2> QED  BY <1>11, <2>3, <2>4 DEF TakeEnd
<1>12. CASE NothingLeft \/ AllRetired \/ Boundary
  <2>1. /\ UNCHANGED <<prefetch, back, requeued, hand, retry, bad, inflight, writerStop, raised, writeQ>>
        /\ phase \in {"top", "retire", "boundary"} /\ phase' \in {"leave", "boundary", "look"}
        /\ phase' # "leave" => inflight = <<>>
    BY <1>2, <1>12 DEF NothingLeft, AllRetired, Boundary, LoopInv
  <2>2. LoopInv'
    BY <1>2, <2>1 DEF LoopInv, Handing
  <2>3. ErrorInv' /\ WriterInv'
    BY <1>2, <1>6, <1>8, <2>1 DEF ErrorInv, Late
  <2> QED  BY <1>9, <2>1, <2>2, <2>3 DEF Phased
<1>13. CASE Drained
  <2>1. /\ phase = "drain" /\ back' = "top" /\ UNCHANGED <<hand, retry, bad, requeued, inflight, writerStop, raised, writeQ>>
        /\ back = "drain" /\ inflight = <<>> /\ retry = <<>> /\ ~Handing
    BY <1>2, <1>13 DEF Drained, LoopInv, Handing
  <2>2. rpc = "done" /\ ~Marked(prefetch)
    BY <1>2, <2>1 DEF MarkInv
  <2>3. Waiting(prefetch') = Waiting(prefetch) /\ phase' \in {"top", "leave"}
    <3>1. Waiting(prefetch) = prefetch
      BY <1>3, <2>2, WaitingIs
    <3>2. prefetch' = Append(prefetch, EndOfStream) \/ prefetch' = prefetch
      BY <1>13 DEF Drained
    <3>3. Waiting(Append(prefetch, EndOfStream)) = prefetch
      BY <1>3, <2>2, EndMark, WaitingAppend
    <3> QED  BY <1>13, <3>1, <3>2, <3>3 DEF Drained
  <2>4. MarkInv'
    BY <1>1, <1>2, <2>1, <2>2, <2>3 DEF MarkInv
  <2>5. LoopInv'
    BY <1>2, <2>1, <2>3 DEF LoopInv, Handing
  <2>6. ErrorInv' /\ WriterInv'
    BY <1>2, <1>6, <1>8, <2>1, <2>3 DEF ErrorInv, Late
  <2> QED  BY <2>4, <2>5, <2>6 DEF Phased
<1>14. CASE Settle
  <2>1. /\ phase \in {"top", "drain"} /\ inflight # <<>> /\ UNCHANGED <<prefetch, back, requeued, writerStop, writeQ>>
        /\ Len(Tail(inflight)) = Len(inflight) - 1 /\ Len(inflight) \in Nat \ {0}
    BY <1>3, <1>14, Tails DEF Settle
  <2>2. retry = <<>> /\ ~Handing
    BY <1>2, <2>1 DEF LoopInv, Handing
  <2>3. CASE workerError
    <3>1. raised' = TRUE /\ phase' = "leave" /\ UNCHANGED <<hand, retry, bad, inflight>>
      BY <1>14, <2>3 DEF Settle
    <3>2. LoopInv'
      BY <1>2, <2>1, <2>2, <3>1 DEF LoopInv, Handing
    <3> QED  BY <1>6, <1>8, <1>9, <2>1, <2>3, <3>1, <3>2 DEF Phased, Late
  <2>4. CASE /\ UNCHANGED <<raised, hand, inflight>> /\ phase' = "retire" /\ retry' = <<>> /\ bad' = FALSE
    <3>1. LoopInv'
      BY <1>2, <2>1, <2>2, <2>4 DEF LoopInv, Handing
    <3>2. ErrorInv'
      BY <1>2, <1>6, <2>4 DEF ErrorInv
    <3> QED  BY <1>8, <1>9, <2>1, <2>4, <3>1, <3>2 DEF Phased, Late
  <2>5. CASE /\ ~Head(inflight).interrupted /\ UNCHANGED <<raised, retry, bad>> /\ phase' = "enqueue"
             /\ hand' = Head(inflight) /\ inflight' = Tail(inflight)
    <3>1. /\ Len(inflight) + Len(retry) + 0 <= Depth /\ Len(Waiting(prefetch)) + Len(inflight) + Len(retry) + 0 <= QueueCap + Depth
      BY <1>2, <2>2 DEF LoopInv
    <3>2. /\ Len(inflight') + Len(retry) + 1 <= Depth /\ Len(Waiting(prefetch)) + Len(inflight') + Len(retry) + 1 <= QueueCap + Depth
      BY <1>3, <2>1, <2>5, <3>1, Sizes
    <3>3. LoopInv'
      BY <1>2, <2>1, <2>2, <2>5, <3>2 DEF LoopInv, Handing
    <3>4. ErrorInv'
      BY <1>2, <1>6, <2>5 DEF ErrorInv
    <3> QED  BY <1>8, <1>9, <2>1, <2>5, <3>3, <3>4 DEF Phased, Late
  <2> QED  BY <1>14, <2>3, <2>4, <2>5 DEF Settle
<1>15. CASE Enqueue \/ EnqueuePart
  <2>1. Handing /\ phase \in {"enqueue", "part"}
    BY <1>15 DEF Enqueue, EnqueuePart, Handing
  <2>2. UNCHANGED <<prefetch, back, requeued, writerStop, raised, inflight>> /\ hand' = NoChunk /\ (Enqueued \/ NotEnqueued)
    BY <1>15 DEF Enqueue, EnqueuePart
  <2>3. phase' \notin {"enqueue", "part"} \cup Late
    BY <1>3, <1>15 DEF Enqueue, EnqueuePart, Late
  <2>4. /\ Len(inflight) + Len(retry) + 1 <= Depth /\ Len(Waiting(prefetch)) + Len(inflight) + Len(retry) + 1 <= QueueCap + Depth
    BY <1>2, <2>1 DEF LoopInv
  <2>5. LoopInv'
    <3>1. CASE Enqueue
      <4>1. phase = "enqueue" /\ retry = <<>> /\ UNCHANGED <<retry, bad>>
        BY <1>2, <3>1 DEF Enqueue, LoopInv
      <4>2. phase' \in {"leave", "boundary", back} /\ (phase' = "boundary" => inflight = <<>>)
        BY <1>3, <3>1 DEF Enqueue
      <4>3. Len(inflight') + Len(retry') + 0 <= Depth /\ Len(Waiting(prefetch')) + Len(inflight') + Len(retry') + 0 <= QueueCap + Depth
        BY <1>3, <2>2, <2>4, <4>1, Sizes
      <4> QED  BY <1>3, <2>2, <2>3, <4>1, <4>2, <4>3 DEF LoopInv, Handing
    <3>2. CASE EnqueuePart
      <4>1. ~bad /\ retry = <<>>
        BY <1>2, <3>2 DEF EnqueuePart, LoopInv
      <4>2. CASE UNCHANGED <<bad, retry>> /\ phase' \in {"retire", "leave"}
        <5>1. Len(inflight') + Len(retry') + 0 <= Depth /\ Len(Waiting(prefetch')) + Len(inflight') + Len(retry') + 0 <= QueueCap + Depth
          BY <1>3, <2>2, <2>4, <4>2, Sizes
        <5> QED  BY <2>2, <2>3, <4>1, <4>2, <5>1 DEF LoopInv, Handing
      <4>3. CASE bad' = TRUE /\ retry' = Append(retry, hand) /\ phase' = "retire"
        <5>1. Len(retry') = Len(retry) + 1 /\ retry' # <<>>
          BY <1>3, <2>1, <4>3, CoordIs, Appends
        <5>2. Len(inflight') + Len(retry') + 0 <= Depth /\ Len(Waiting(prefetch')) + Len(inflight') + Len(retry') + 0 <= QueueCap + Depth
          BY <1>3, <2>2, <2>4, <5>1, Sizes
        <5> QED  BY <2>2, <2>3, <4>3, <5>1, <5>2 DEF LoopInv, Handing
      <4> QED  BY <3>2, <4>2, <4>3 DEF EnqueuePart
    <3> QED  BY <1>15, <3>1, <3>2
  <2>6. WriterInv'
    <3>1. xpc # "done" /\ ~writerStop /\ phase \notin Late
      BY <1>7, <2>1 DEF Late
    <3>2. \A i \in 1 .. Len(writeQ') : writeQ'[i] # EndOfWrites
      <4>1. CASE Enqueued
        <5>1. writeQ' = Append(writeQ, Results(hand)) /\ Results(hand) \in Items
          BY <2>1, <4>1, HandOver
        <5>2. /\ Len(writeQ') = Len(writeQ) + 1 /\ writeQ'[Len(writeQ) + 1] = Results(hand)
              /\ \A i \in 1 .. Len(writeQ) : writeQ'[i] = writeQ[i]
          BY <1>4, <5>1, Appends
        <5>3. Results(hand) # EndOfWrites
          BY <5>1, ItemsAre
        <5>4. \A i \in 1 .. Len(writeQ') : i \in 1 .. Len(writeQ) \/ i = Len(writeQ) + 1
          BY <1>4, <5>2
        <5> QED  BY <1>7, <3>1, <5>2, <5>3, <5>4
      <4>2. CASE NotEnqueued
        BY <1>7, <3>1, <4>2 DEF NotEnqueued
      <4> QED  BY <2>2, <4>1, <4>2
    <3> QED  BY <1>1, <2>2, <2>3, <3>1, <3>2 DEF WriterInv, Late
  <2>7. ErrorInv'
    BY <1>2, <1>6, <2>2 DEF ErrorInv
  <2> QED  BY <1>9, <2>2, <2>5, <2>6, <2>7 DEF Phased
<1>16. CASE Retire
  <2>1. phase = "retire" /\ UNCHANGED <<prefetch, back, requeued, bad, writerStop, writeQ>>
    BY <1>16 DEF Retire
  <2>2. inflight # <<>> /\ Len(Tail(inflight)) = Len(inflight) - 1 /\ Len(inflight) \in Nat \ {0}
        /\ inflight[1] \in ChunkRec
    BY <1>3, <1>16, RetireIs, Oldest, Tails
  <2>3. /\ Len(inflight) + Len(retry) + 0 <= Depth /\ Len(Waiting(prefetch)) + Len(inflight) + Len(retry) + 0 <= QueueCap + Depth
        /\ (bad <=> retry # <<>>)
    BY <1>2, <2>1 DEF LoopInv, Handing
  <2>4. CASE raised' = TRUE /\ phase' = "leave" /\ workerError /\ UNCHANGED <<hand, retry, inflight, pause>>
    <3>1. LoopInv'
      BY <1>2, <2>1, <2>3, <2>4 DEF LoopInv, Handing
    <3> QED  BY <1>6, <1>8, <1>9, <2>1, <2>4, <3>1 DEF Phased, Late
  <2>5. CASE /\ UNCHANGED <<raised, hand, phase>> /\ inflight' = Tail(inflight) /\ bad
             /\ retry' = Append(retry, inflight[1])
    <3>1. Len(retry') = Len(retry) + 1 /\ retry' # <<>>
      BY SMTT(30), <1>3, <2>2, <2>5, Appends
    <3>2. /\ Len(inflight') + Len(retry') + 0 <= Depth /\ Len(Waiting(prefetch)) + Len(inflight') + Len(retry') + 0 <= QueueCap + Depth
      BY <1>3, <2>2, <2>3, <2>5, <3>1, Sizes
    <3>3. LoopInv'
      BY <1>2, <2>1, <2>5, <3>1, <3>2 DEF LoopInv, Handing
    <3>4. ErrorInv'
      BY <1>2, <1>6, <2>5 DEF ErrorInv
    <3> QED  BY <1>8, <1>9, <2>1, <2>5, <3>3, <3>4 DEF Phased, Late
  <2>6. CASE /\ UNCHANGED <<raised, retry>> /\ inflight' = Tail(inflight) /\ ~bad /\ phase' = "part"
    <3>1. /\ Len(inflight') + Len(retry') + 1 <= Depth /\ Len(Waiting(prefetch)) + Len(inflight') + Len(retry') + 1 <= QueueCap + Depth
      BY <1>3, <2>2, <2>3, <2>6, Sizes
    <3>2. LoopInv'
      BY <1>2, <2>1, <2>3, <2>6, <3>1 DEF LoopInv, Handing
    <3>3. ErrorInv'
      BY <1>2, <1>6, <2>6 DEF ErrorInv
    <3> QED  BY <1>8, <1>9, <2>1, <2>6, <3>2, <3>3 DEF Phased, Late
  <2> QED  BY <1>16, <2>4, <2>5, <2>6, RetireIs
<1>17. CASE Requeue
  <2>1. /\ phase = "look" /\ phase' = back /\ retry' = <<>> /\ bad' = FALSE /\ inflight = <<>> /\ ~Handing
        /\ UNCHANGED <<writeQ, back, hand, inflight, writerStop, raised>>
    BY <1>17, RequeueIs
  <2>2. ErrorInv' /\ WriterInv'
    BY <1>2, <1>3, <1>6, <1>8, <2>1 DEF ErrorInv, Late
  <2>3. Len(inflight) = 0 /\ /\ Len(inflight) + Len(retry) + 0 <= Depth /\ Len(Waiting(prefetch)) + Len(inflight) + Len(retry) + 0 <= QueueCap + Depth
    BY <1>2, <1>5, <2>1 DEF LoopInv
  <2>4. ASSUME Len(Waiting(prefetch')) <= Len(Waiting(prefetch)) + Len(retry), Len(Waiting(prefetch')) \in Nat PROVE LoopInv'
    <3>1. /\ Len(inflight') + Len(retry') + 0 <= Depth /\ Len(Waiting(prefetch')) + Len(inflight') + Len(retry') + 0 <= QueueCap + Depth
      BY <1>3, <1>5, <2>1, <2>3, <2>4, Sizes
    <3> QED  BY <1>3, <2>1, <3>1 DEF LoopInv, Handing
  <2>5. CASE UNCHANGED <<carry, chunkStart, prefetch, requeued>>
    <3>1. LoopInv'
      BY <1>3, <2>4, <2>5
    <3> QED  BY <1>9, <2>1, <2>2, <2>5, <3>1 DEF Phased
  <2>6. CASE /\ requeued' = TRUE /\ (Marked(prefetch') <=> Marked(prefetch))
             /\ ChunksOf(retry) \in Seq(Seq(Int)) /\ Len(ChunksOf(retry)) = Len(retry)
             /\ \A i \in 1 .. Len(retry) : ChunksOf(retry)[i] = retry[i].chunk
             /\ Waiting(prefetch') = ChunksOf(retry) \o Waiting(prefetch)
    <3>1. PICK s, t, u : /\ s \in Seq(Seq(Int)) /\ t \in Seq(Seq(Int)) /\ u = s \o t
                        /\ s = ChunksOf(retry) /\ t = Waiting(prefetch) /\ u = Waiting(prefetch')
      BY <1>3, <2>6, WaitingIs
    <3>2. /\ Len(u) = Len(s) + Len(t) /\ u \in Seq(Seq(Int)) /\ Len(s) \in Nat /\ Len(t) \in Nat
          /\ \A i \in 1 .. Len(s) + Len(t) : u[i] = IF i <= Len(s) THEN s[i] ELSE t[i - Len(s)]
      BY <3>1, ConcatProperties, Empty
    <3>3. LoopInv'
      BY <2>4, <2>6, <3>1, <3>2
    <3>4. \A i \in 1 .. Len(s) : Len(s[i]) \in 1 .. Chunk /\ s[i] # EndOfStream
      <4> SUFFICES ASSUME NEW i \in 1 .. Len(s) PROVE Len(s[i]) \in 1 .. Chunk /\ s[i] # EndOfStream
        OBVIOUS
      <4>1. retry[i] \in ChunkRec /\ ChunkOK(retry[i]) /\ s[i] = retry[i].chunk
        BY <2>6, <3>1, CoordIs
      <4>2. retry[i].chunk \in Seq(Nat) /\ Len(retry[i].chunk) \in 1 .. Chunk
        BY <4>1, ChunkIs
      <4> QED  BY <4>1, <4>2, NatSeq
    <3>5. \A i \in 1 .. Len(t) : Len(t[i]) \in 1 .. Chunk /\ t[i] # EndOfStream
      BY <1>2, <3>1 DEF MarkInv
    <3>6. \A i \in 1 .. Len(u) : Len(u[i]) \in 1 .. Chunk /\ u[i] # EndOfStream
      <4> SUFFICES ASSUME NEW i \in 1 .. Len(u) PROVE Len(u[i]) \in 1 .. Chunk /\ u[i] # EndOfStream
        OBVIOUS
      <4>1. CASE i <= Len(s)
        <5>1. i \in 1 .. Len(s) /\ u[i] = s[i]
          BY <3>2, <4>1
        <5> QED  BY <3>4, <5>1
      <4>2. CASE ~(i <= Len(s))
        <5>1. PICK j \in 1 .. Len(t) : j = i - Len(s)
          <6>1. i - Len(s) \in 1 .. Len(t)
            BY <3>2, <4>2
          <6> QED  BY <6>1
        <5> QED  BY <3>2, <3>5, <4>2, <5>1
      <4> QED  BY <4>1, <4>2
    <3>7. MarkInv'
      BY <1>1, <1>2, <2>1, <2>6, <3>1, <3>6 DEF MarkInv
    <3> QED  BY <2>2, <3>3, <3>7 DEF Phased
  <2> QED  BY <1>17, <2>5, <2>6, RequeueIs
<1>18. CASE Leave
  <2>1. /\ UNCHANGED <<prefetch, back, requeued, hand, retry, bad, inflight, writerStop, raised, writeQ>>
        /\ phase = "leave" /\ phase' = "pool"
    BY <1>18 DEF Leave
  <2>2. LoopInv'
    BY <1>2, <2>1 DEF LoopInv, Handing
  <2>3. ErrorInv' /\ WriterInv'
    BY <1>2, <1>6, <1>8, <2>1 DEF ErrorInv, Late
  <2> QED  BY <1>9, <2>1, <2>2, <2>3 DEF Phased
<1>19. CASE JoinPool
  <2>1. /\ UNCHANGED <<prefetch, back, requeued, hand, retry, bad, writerStop, raised>> /\ writeQ' \in {writeQ, <<>>}
        /\ phase = "pool" /\ phase' = "stopWriter" /\ inflight' = <<>>
    BY <1>19 DEF JoinPool
  <2>2. LoopInv'
    <3>1. /\ Len(inflight) + Len(retry) + 0 <= Depth /\ Len(Waiting(prefetch)) + Len(inflight) + Len(retry) + 0 <= QueueCap + Depth
      BY <1>2, <2>1 DEF LoopInv, Handing
    <3>2. /\ Len(inflight') + Len(retry') + 0 <= Depth /\ Len(Waiting(prefetch')) + Len(inflight') + Len(retry') + 0 <= QueueCap + Depth
      BY <1>3, <1>5, <2>1, <3>1, Sizes
    <3> QED  BY <2>1, <3>2 DEF LoopInv, Handing
  <2>3. ErrorInv'
    BY <1>2, <1>6, <2>1 DEF ErrorInv
  <2>4. WriterInv'
    <3>1. \A i \in 1 .. Len(writeQ') : writeQ'[i] # EndOfWrites
      BY <1>5, <1>7, <2>1 DEF Late
    <3> QED  BY <1>1, <1>7, <2>1, <3>1 DEF WriterInv, Late
  <2> QED  BY <1>9, <2>1, <2>2, <2>3, <2>4 DEF Phased
<1>20. CASE StopWriter
  <2>1. /\ UNCHANGED <<prefetch, back, requeued, hand, retry, bad, inflight, raised>>
        /\ phase = "stopWriter" /\ phase' = "joinWriter"
        /\ writeQ' = writeQ \/ writeQ' = Append(writeQ, EndOfWrites)
    BY <1>20 DEF StopWriter
  <2>2. LoopInv'
    BY <1>2, <2>1 DEF LoopInv, Handing
  <2>3. ErrorInv'
    BY <1>2, <1>6, <2>1 DEF ErrorInv
  <2>4. xpc # "done" /\ \A i \in 1 .. Len(writeQ) : writeQ[i] # EndOfWrites
    BY <1>7, <2>1 DEF Late
  <2>5. \A i \in 1 .. Len(writeQ') : writeQ'[i] = EndOfWrites => i = Len(writeQ')
    <3>1. CASE writeQ' = writeQ
      BY <2>4, <3>1
    <3>2. CASE writeQ' = Append(writeQ, EndOfWrites)
      <4>1. Len(writeQ') = Len(writeQ) + 1 /\ \A i \in 1 .. Len(writeQ) : writeQ'[i] = writeQ[i]
        BY <1>4, <3>2, Appends
      <4>2. \A i \in 1 .. Len(writeQ') : i \in 1 .. Len(writeQ) \/ i = Len(writeQ')
        BY <1>4, <4>1
      <4> QED  BY <2>4, <4>1, <4>2
    <3> QED  BY <2>1, <3>1, <3>2
  <2>6. WriterInv'
    BY <1>1, <2>1, <2>4, <2>5 DEF WriterInv, Late
  <2> QED  BY <1>9, <2>1, <2>2, <2>3, <2>6 DEF Phased
<1>21. CASE JoinWriter \/ JoinReader
  <2>1. /\ UNCHANGED <<back, requeued, hand, retry, bad, inflight, raised, writerStop, writeQ>>
        /\ phase \in {"joinWriter", "joinReader"} /\ phase' \in {"joinReader", "closed"}
        /\ prefetch' \in {prefetch, <<>>} /\ WriterGone
    BY <1>2, <1>21 DEF JoinWriter, JoinReader, WriterInv
  <2>2. LoopInv'
    <3>1. /\ Len(inflight) + Len(retry) + 0 <= Depth /\ Len(Waiting(prefetch)) + Len(inflight) + Len(retry) + 0 <= QueueCap + Depth
      BY <1>2, <2>1 DEF LoopInv, Handing
    <3>2. Len(Waiting(prefetch')) <= Len(Waiting(prefetch)) /\ Len(Waiting(prefetch')) \in Nat
      BY <1>3, <1>5, <2>1
    <3>3. /\ Len(inflight') + Len(retry') + 0 <= Depth /\ Len(Waiting(prefetch')) + Len(inflight') + Len(retry') + 0 <= QueueCap + Depth
      BY <1>3, <2>1, <3>1, <3>2, Sizes
    <3> QED  BY <2>1, <3>3 DEF LoopInv, Handing
  <2>3. ErrorInv'
    BY <1>2, <1>6, <2>1 DEF ErrorInv
  <2>4. WriterInv'
    BY <1>1, <1>2, <2>1 DEF WriterInv, WriterGone, Late
  <2>5. MarkInv'
    <3>1. CASE prefetch' = prefetch
      BY <1>9, <2>1, <3>1
    <3>2. CASE prefetch' = <<>>
      BY <1>1, <1>2, <1>5, <2>1, <3>2 DEF MarkInv
    <3> QED  BY <2>1, <3>1, <3>2
  <2> QED  BY <2>2, <2>3, <2>4, <2>5 DEF Phased
<1> QED  BY <1>10, <1>11, <1>12, <1>13, <1>14, <1>15, <1>16, <1>17, <1>18, <1>19, <1>20, <1>21 DEF Coordinator

LEMMA TypesStep == Inv /\ [Next]_vars => Types'
<1> SUFFICES ASSUME Inv, [Next]_vars PROVE Types'
  OBVIOUS
<1>1. CASE UNCHANGED vars
  BY <1>1, Stutter DEF Inv, Types, FlagTypes, ReaderTypes, WorkerTypes, CoordTypes, WriterTypes, Handing
<1> QED  BY <1>1, TypesReader, TypesWorker, TypesCoord, TypesWriter, TypesCall DEF Next

LEMMA PhasedStep == Inv /\ [Next]_vars => Phased'
<1> SUFFICES ASSUME Inv, [Next]_vars PROVE Phased'
  OBVIOUS
<1>1. CASE UNCHANGED vars
  BY <1>1, Stutter DEF Inv, Phased, MarkInv, LoopInv, ErrorInv, WriterInv, WriterGone, Handing
<1> QED  BY <1>1, PhasedReader, PhasedWorker, PhasedCoord, PhasedWriter, PhasedCall DEF Next

-----------------------------------------------------------------------------
(* The grid is laid over the clip without a gap.                            *)

\* A worker changes one chunk of those in flight, and only what is done of it.
LEMMA WorkerChunk ==
    ASSUME Inv, NEW w \in Workers, Worker(w)
    PROVE  \/ UNCHANGED inflight
           \/ \E i \in 1 .. Len(inflight), d \in ChunkRec :
                 /\ Touched(i, d) /\ Same(inflight[i], d) /\ ChunkOK(d)
                 /\ inflight[i].got \subseteq d.got /\ (inflight[i].interrupted => d.interrupted)
<1>1. WorkerStep(w)
  BY WorkerSteps
<1>2. ASSUME NEW c \in ChunkRec, NEW d \in ChunkRec, ChunkOK(c), Same(c, d), d.left <= c.left,
             d.got \subseteq c.start .. EndOf(c) - 1
      PROVE  ChunkOK(d)
  <2>1. EndOf(d) = EndOf(c) /\ d.start = c.start /\ d.chunk = c.chunk /\ d.carry = c.carry
    BY <1>2 DEF Same, EndOf
  <2>2. Len(c.chunk) \in Nat /\ c.left \in Nat /\ d.left \in Nat /\ c.left <= Len(c.chunk)
    BY <1>2 DEF ChunkRec, ChunkOK
  <2>3. d.left <= Len(c.chunk)
    BY <1>2, <2>2
  <2> QED  BY <1>2, <2>1, <2>3 DEF ChunkOK
<1>3. ASSUME NEW i \in 1 .. Len(inflight), NEW d \in ChunkRec, Touched(i, d), Lighter(inflight[i], d)
      PROVE  Same(inflight[i], d) /\ ChunkOK(d) /\ inflight[i].got \subseteq d.got /\ (inflight[i].interrupted => d.interrupted)
  <2>1. inflight[i] \in ChunkRec /\ ChunkOK(inflight[i]) /\ inflight[i].left \in Nat
    BY InflightTypes DEF ChunkRec
  <2>2. /\ Same(inflight[i], d) /\ d.got = inflight[i].got /\ d.left = inflight[i].left - 1
        /\ (inflight[i].interrupted => d.interrupted)
    BY <1>3 DEF Lighter
  <2>3. d.left <= inflight[i].left /\ d.got \subseteq inflight[i].start .. EndOf(inflight[i]) - 1
    BY <2>1, <2>2 DEF ChunkOK
  <2> QED  BY <1>2, <2>1, <2>2, <2>3
<1>4. ASSUME NEW i \in 1 .. Len(inflight), NEW d \in ChunkRec, Drops(w, i, d) \/ Returns(w, i, d)
      PROVE  Touched(i, d) /\ Lighter(inflight[i], d)
  BY <1>4 DEF Drops, Returns
<1>5. ASSUME NEW i \in 1 .. Len(inflight), NEW d \in ChunkRec, Keeps(w, i, d)
      PROVE  /\ Touched(i, d) /\ Same(inflight[i], d) /\ ChunkOK(d)
             /\ inflight[i].got \subseteq d.got /\ (inflight[i].interrupted => d.interrupted)
  <2>1. /\ inflight[i].no = at[w].no /\ w \in Busy
        /\ Touched(i, d) /\ Same(inflight[i], d) /\ d.interrupted = inflight[i].interrupted
    BY <1>5 DEF Keeps, Busy
  <2>2. inflight[i] \in ChunkRec /\ ChunkOK(inflight[i]) /\ inflight[i].left \in Nat
    BY InflightTypes DEF ChunkRec
  <2>3. d.left = inflight[i].left - 1 \/ d.left = inflight[i].left
    BY <1>5 DEF Keeps
  <2>4. d.left <= inflight[i].left
    BY <2>2, <2>3
  <2>5. \/ d.got = inflight[i].got
        \/ at[w].main <= at[w].ci /\ d.got = inflight[i].got \cup {IndexAt(inflight[i], at[w].ci)}
    BY <1>5 DEF Keeps
  <2>6. inflight[i].got \subseteq d.got /\ d.got \subseteq inflight[i].start .. EndOf(inflight[i]) - 1
    <3>1. inflight[i].got \subseteq inflight[i].start .. EndOf(inflight[i]) - 1
      BY <2>2 DEF ChunkOK
    <3> QED  BY <2>1, <2>5, <3>1, FrameAtWork
  <2> QED  BY <1>2, <2>1, <2>2, <2>4, <2>6
<1>6. CASE Quits(w) \/ Enters(w) \/ \E i \in 1 .. Len(inflight) : Fails(w, i) \/ \E a \in AtRec : Starts(w, i, a)
  BY <1>6 DEF Quits, Enters, Fails, Starts
<1> QED  BY <1>1, <1>3, <1>4, <1>5, <1>6 DEF WorkerStep

LEMMA GridWorker ==
    ASSUME Inv, NEW w \in Workers, Worker(w)
    PROVE  ShapeInv' /\ GridInv'
<1>1. /\ UNCHANGED <<rpc, held, decoded, prefetch, phase, hand, retry, carry, chunkStart, chunkNo>>
      /\ processing' => processing
  BY WorkerFrame
<1>2. ShapeInv /\ GridInv
  BY DEF Inv
<1>3. CASE UNCHANGED inflight
  BY <1>1, <1>2, <1>3 DEF ShapeInv, GridInv, Handing
<1>4. CASE \E i \in 1 .. Len(inflight), d \in ChunkRec : Touched(i, d) /\ Same(inflight[i], d) /\ ChunkOK(d)
  <2>1. PICK i \in 1 .. Len(inflight), d \in ChunkRec : Touched(i, d) /\ Same(inflight[i], d) /\ ChunkOK(d)
    BY <1>4
  <2>2. Len(inflight') = Len(inflight) /\ inflight'[i] = d
    BY <2>1 DEF Touched
  <2>3. /\ \A e : Chain(inflight, e) => Chain(inflight', e)
        /\ \A e : First(inflight', e) = First(inflight, e)
        /\ \A j \in 1 .. Len(inflight) : Same(inflight[j], inflight'[j]) /\ (j # i => inflight'[j] = inflight[j])
    BY <2>1, ChainTouched
  <2>4. \A j \in 1 .. Len(inflight) : inflight'[j].no = inflight[j].no
    BY <2>3 DEF Same
  <2>5. \A j \in 1 .. Len(inflight) : ChunkOK(inflight'[j])
    BY <1>2, <2>1, <2>2, <2>3 DEF ShapeInv
  <2>6. ShapeInv'
    BY <1>1, <1>2, <2>2, <2>4, <2>5 DEF ShapeInv, Handing
  <2>7. GridInv'
    BY <1>1, <1>2, <2>3 DEF GridInv, Handing
  <2> QED  BY <2>6, <2>7
<1> QED  BY <1>3, <1>4, WorkerChunk

LEMMA GridReader ==
    ASSUME Inv, Reader
    PROVE  ShapeInv' /\ GridInv'
<1>1. /\ UNCHANGED <<phase, inflight, hand, retry, carry, chunkStart, chunkNo>>
      /\ processing' => processing
  BY ReaderFrame
<1>2. ShapeInv /\ GridInv /\ MarkInv
  BY DEF Inv, Phased
<1>3. ShapeInv'
  BY <1>1, <1>2 DEF ShapeInv, Handing
<1>4. ASSUME processing',
             rpc' = "put" => held' = Span(decoded' - Len(held'), Len(held')),
             phase \notin Late => Pieces(Waiting(prefetch'), chunkStart, decoded' - Len(held')),
             rpc' \in {"sentinel", "done"} => decoded' = TotalFrames
      PROVE  GridInv'
  BY <1>1, <1>2, <1>4 DEF GridInv, Handing
<1>5. prefetch \in Seq(Seq(Int)) /\ held \in Seq(Int) /\ held # EndOfStream /\ Len(held) \in Nat /\ decoded \in 0 .. TotalFrames
      /\ decoded \in Nat
  BY CoordIs
<1>6. rpc # "done" /\ ~Marked(prefetch) /\ Waiting(prefetch) = prefetch
  <2>1. rpc # "done"
    BY DEF Reader, Decode, PutChunk, SendSentinel
  <2> QED  BY <1>2, <1>5, <2>1, WaitingIs DEF MarkInv
<1>7. processing => /\ rpc = "put" => held = Span(decoded - Len(held), Len(held))
                    /\ phase \notin Late => Pieces(prefetch, chunkStart, decoded - Len(held))
                    /\ rpc \in {"sentinel", "done"} => decoded = TotalFrames
  BY <1>2, <1>6 DEF GridInv
<1>8. Len(<<>>) = 0
  OBVIOUS
<1>9. CASE Decode /\ processing'
  <2>1. UNCHANGED prefetch /\ rpc = "read" /\ held = <<>>
    BY <1>2, <1>9 DEF Decode, queueVars, MarkInv
  <2>2. PICK n \in Int : n = Smaller(Chunk, TotalFrames - decoded)
    <3>1. Smaller(Chunk, TotalFrames - decoded) \in Int
      BY <1>5, Sizes DEF Smaller
    <3> QED  BY <3>1
  <2>3. CASE n = 0 /\ rpc' = "sentinel" /\ UNCHANGED <<held, decoded>>
    <3>1. decoded = TotalFrames
      BY <1>5, <2>2, <2>3, Sizes DEF Smaller
    <3> QED  BY <1>1, <1>3, <1>4, <1>6, <1>7, <1>9, <2>1, <2>3, <3>1
  <2>4. CASE n > 0 /\ held' = [i \in 1 .. n |-> decoded + i - 1] /\ decoded' = decoded + n /\ rpc' = "put"
    <3>1. n \in Nat /\ held' = Span(decoded, n)
      BY <2>4 DEF Span
    <3>2. Len(held') = n
      BY <1>5, <3>1, SpanIs
    <3>3. decoded' - Len(held') = decoded /\ decoded - Len(held) = decoded
      BY <1>5, <1>8, <2>1, <2>4, <3>2
    <3> QED  BY <1>1, <1>3, <1>4, <1>6, <1>7, <1>9, <2>1, <2>4, <3>1, <3>2, <3>3
  <2> QED  BY <1>9, <2>2, <2>3, <2>4 DEF Decode
<1>10. CASE PutChunk /\ processing'
  <2>1. rpc = "put" /\ rpc' = "read" /\ held' = <<>> /\ UNCHANGED decoded /\ prefetch' = Append(prefetch, held)
    BY <1>1, <1>10 DEF PutChunk, flagVars
  <2>2. ~Marked(prefetch') /\ Waiting(prefetch') = prefetch'
    BY <1>5, <1>6, <2>1, WaitingAppend
  <2>3. PICK n, b : n \in Nat \ {0} /\ n = Len(held) /\ b = decoded - n
    <3>1. Len(held) \in Nat \ {0}
      BY <1>2, <1>5, <2>1 DEF MarkInv
    <3> QED  BY <3>1
  <2>4. b + n = decoded /\ b + n <= TotalFrames /\ decoded' - Len(held') = decoded
    BY <1>5, <1>8, <2>1, <2>3, Sizes
  <2>5. held = Span(b, n) /\ (phase \notin Late => Pieces(prefetch, chunkStart, b))
    BY <1>1, <1>7, <1>10, <2>1, <2>3
  <2>6. phase \notin Late => Pieces(prefetch', chunkStart, b + n)
    <3>1. n \in Nat \ {0}
      BY <2>3
    <3> QED  BY <1>5, <2>1, <2>4, <2>5, <3>1, PiecesAppend
  <2> QED  BY <1>3, <1>4, <1>10, <2>1, <2>2, <2>4, <2>6
<1>11. CASE SendSentinel /\ processing'
  <2>1. rpc = "sentinel" /\ UNCHANGED <<held, decoded, processing>>
    BY <1>11 DEF SendSentinel, flagVars
  <2>2. Waiting(prefetch') = prefetch /\ rpc' = "done"
    <3>1. (prefetch' = prefetch \/ prefetch' = Append(prefetch, EndOfStream)) /\ rpc' = "done"
      BY <1>11, <2>1 DEF SendSentinel
    <3>2. Waiting(Append(prefetch, EndOfStream)) = prefetch
      BY <1>5, <1>6, EndMark, WaitingAppend
    <3> QED  BY <1>6, <3>1, <3>2
  <2> QED  BY <1>3, <1>4, <1>7, <1>11, <2>1, <2>2
<1>12. CASE ~processing'
  BY <1>3, <1>12 DEF GridInv
<1> QED  BY <1>9, <1>10, <1>11, <1>12 DEF Reader

LEMMA GridElse ==
    ASSUME Inv, Writer \/ CallBegins \/ CallEnds \/ UNCHANGED vars
    PROVE  ShapeInv' /\ GridInv'
<1>1. /\ UNCHANGED <<rpc, held, decoded, prefetch, phase, hand, retry, carry, chunkStart, chunkNo, inflight>>
      /\ processing' => processing
  BY WriterFrame, CallFrame, Stutter
<1> QED  BY <1>1 DEF Inv, ShapeInv, GridInv, Handing

LEMMA GridCoord ==
    ASSUME Inv, Coordinator
    PROVE  ShapeInv' /\ GridInv'
<1>1. /\ UNCHANGED <<rpc, held, decoded>>
      /\ processing' => processing
  BY CoordFrame
<1>2. ShapeInv /\ GridInv /\ MarkInv /\ LoopInv
  BY DEF Inv, Phased
<1>3. /\ Len(inflight) \in Nat /\ Len(retry) \in Nat
      /\ prefetch \in Seq(Seq(Int)) /\ inflight \in Seq(ChunkRec) /\ retry \in Seq(ChunkRec)
      /\ back \in {"top", "drain"} /\ phase \in Phases /\ chunkNo \in Nat
      /\ Handing => hand \in ChunkRec /\ ChunkOK(hand)
  BY CoordIs
<1> USE DEF flagVars, readerVars, workerVars, settleVars, gridVars, endVars, queueVars, writerVars, callVars, outsideVars
<1>4. \A i \in 1 .. Len(retry) : ChunkOK(retry[i])
  BY <1>2 DEF ShapeInv
<1>5. ~Handing' => ShapeInv' \/ inflight' # inflight \/ retry' # retry \/ chunkNo' # chunkNo
  BY <1>2 DEF ShapeInv, Handing
<1>6. ASSUME UNCHANGED <<carry, chunkStart, inflight>>,
             phase' \in {"retire", "part", "boundary", "look"} => Chain(retry', First(inflight, chunkStart)),
             processing' /\ phase' \notin Late => phase \notin Late /\ Waiting(prefetch') = Waiting(prefetch),
             ~Handing'
      PROVE  GridInv'
  BY <1>1, <1>2, <1>6 DEF GridInv, Handing
<1>7. CASE Dispatch
  <2>1. PICK c \in ChunkRec :
              /\ ChunkOK(c) /\ c.no = chunkNo /\ c.start = chunkStart /\ c.chunk = Head(prefetch) /\ c.carry = carry
              /\ inflight' = Append(inflight, c) /\ EndOf(c) = chunkStart' /\ chunkStart' <= TotalFrames
              /\ chunkStart' = chunkStart + Len(Head(prefetch))
    BY <1>7, DispatchIs
  <2>2. /\ phase = "top" /\ processing /\ prefetch # <<>> /\ Head(prefetch) # EndOfStream /\ chunkNo' = chunkNo + 1
        /\ UNCHANGED <<phase, hand, retry>> /\ prefetch' = Tail(prefetch) /\ carry' = LastOf(carry \o Head(prefetch), WarmUp)
    BY <1>7 DEF Dispatch
  <2>3. ~Handing'
    BY <2>2 DEF Handing
  <2>4. /\ Len(inflight') = Len(inflight) + 1 /\ inflight'[Len(inflight) + 1] = c
        /\ \A i \in 1 .. Len(inflight) : inflight'[i] = inflight[i]
    BY <1>3, <2>1, Appends
  <2>5. \A i \in 1 .. Len(inflight') : i \in 1 .. Len(inflight) \/ i = Len(inflight) + 1
    BY <1>3, <2>4
  <2>6. \A i \in 1 .. Len(inflight') : ChunkOK(inflight'[i]) /\ inflight'[i].no < chunkNo'
    <3> SUFFICES ASSUME NEW i \in 1 .. Len(inflight') PROVE ChunkOK(inflight'[i]) /\ inflight'[i].no < chunkNo'
      OBVIOUS
    <3>1. CASE i \in 1 .. Len(inflight)
      <4>1. inflight[i].no < chunkNo /\ inflight[i].no \in Nat /\ ChunkOK(inflight[i])
        BY <1>2, <1>3, <3>1, InflightTypes DEF ShapeInv, ChunkRec
      <4> QED  BY <1>3, <2>2, <2>4, <3>1, <4>1
    <3>2. CASE i = Len(inflight) + 1
      BY <1>3, <2>1, <2>2, <2>4, <3>2
    <3> QED  BY <2>5, <3>1, <3>2
  <2>7. \A i, j \in 1 .. Len(inflight') : i < j => inflight'[i].no < inflight'[j].no
    <3> SUFFICES ASSUME NEW i \in 1 .. Len(inflight'), NEW j \in 1 .. Len(inflight'), i < j
                 PROVE  inflight'[i].no < inflight'[j].no
      OBVIOUS
    <3>1. i \in 1 .. Len(inflight)
      BY <1>3, <2>4, <2>5
    <3>2. inflight'[i] = inflight[i] /\ inflight[i].no < chunkNo
      BY <1>2, <2>4, <3>1 DEF ShapeInv
    <3>3. CASE j \in 1 .. Len(inflight)
      BY <1>2, <2>4, <3>1, <3>2, <3>3 DEF ShapeInv
    <3>4. CASE j = Len(inflight) + 1
      BY <2>1, <2>4, <3>2, <3>4
    <3> QED  BY <2>5, <3>3, <3>4
  <2>8. ShapeInv'
    BY <1>4, <2>2, <2>3, <2>6, <2>7 DEF ShapeInv
  <2>9. Chain(inflight, c.start)
    BY <1>2, <2>1, <2>2 DEF GridInv
  <2>10. Chain(inflight', chunkStart')
    BY <1>3, <2>1, <2>9, ChainAppend
  <2>11. /\ Len(carry') = Smaller(WarmUp, chunkStart') /\ carry' = Span(chunkStart' - Len(carry'), Len(carry'))
         /\ Pieces(Waiting(prefetch'), chunkStart', decoded - Len(held))
    <3>1. PICK n, k : n = Len(Head(prefetch)) /\ k = Smaller(WarmUp, chunkStart')
      OBVIOUS
    <3>2. /\ carry' = Span(chunkStart' - k, k) /\ k \in Nat /\ k <= chunkStart' /\ chunkStart' \in Nat
          /\ Pieces(Waiting(prefetch'), chunkStart', decoded - Len(held))
      <4>1. chunkStart' = chunkStart + n /\ k = Smaller(WarmUp, chunkStart + n)
        BY <2>1, <3>1
      <4>2. /\ LastOf(carry \o Head(prefetch), WarmUp) = Span(chunkStart + n - k, k) /\ k \in Nat /\ k <= chunkStart + n
            /\ Pieces(Waiting(Tail(prefetch)), chunkStart + n, decoded - Len(held)) /\ n \in Nat
        BY <2>2, <3>1, <4>1, NextChunk
      <4>3. chunkStart' \in Nat
        BY SMTT(30), <4>1, <4>2, CoordIs
      <4>4. carry' = Span(chunkStart' - k, k) /\ k <= chunkStart'
        <5>1. carry' = LastOf(carry \o Head(prefetch), WarmUp)
          BY <2>2
        <5>2. chunkStart \in Nat
          BY CoordIs
        <5>3. PICK e \in Nat : e = chunkStart'
          BY <4>3
        <5>4. e = chunkStart + n /\ chunkStart + n - k = e - k
          BY <4>1, <4>2, <5>2, <5>3
        <5> QED  BY <4>1, <4>2, <5>1, <5>3, <5>4
      <4>5. Pieces(Waiting(prefetch'), chunkStart', decoded - Len(held))
        <5>1. Waiting(prefetch') = Waiting(Tail(prefetch))
          BY <2>2
        <5> QED  BY <4>1, <4>2, <5>1
      <4> QED  BY <4>2, <4>3, <4>4, <4>5
    <3>3. Len(carry') = k
      BY <3>2, SpanIs
    <3> QED  BY <3>1, <3>2, <3>3
  <2>12. GridInv'
    BY <1>1, <1>2, <2>1, <2>2, <2>3, <2>10, <2>11 DEF GridInv
  <2> QED  BY <2>8, <2>12
<1>8. CASE TakeEnd
  <2>1. /\ phase = "top" /\ prefetch # <<>> /\ prefetch' = Tail(prefetch)
        /\ UNCHANGED <<hand, retry, inflight, carry, chunkStart, chunkNo>> /\ phase' \in {"drain", "leave"}
    BY <1>8 DEF TakeEnd
  <2>2. ~Handing' /\ ShapeInv'
    BY <1>2, <2>1 DEF Handing, ShapeInv
  <2>3. processing' => Waiting(prefetch') = Waiting(prefetch)
    <3>1. CASE Head(prefetch) = EndOfStream
      <4>1. Waiting(prefetch) = <<>> /\ prefetch' = <<>>
        BY <1>2, <1>3, <2>1, <3>1, WaitingMark DEF MarkInv
      <4> QED  BY <4>1 DEF Waiting, Marked
    <3>2. CASE ~processing
      BY <1>1, <3>2
    <3> QED  BY <1>8, <3>1, <3>2 DEF TakeEnd
  <2>4. GridInv'
    BY <1>6, <2>1, <2>2, <2>3 DEF Late
  <2> QED  BY <2>2, <2>4
<1>9. CASE NothingLeft \/ AllRetired \/ Boundary
  <2>1. /\ UNCHANGED <<prefetch, hand, retry, inflight, carry, chunkStart, chunkNo>>
        /\ phase \in {"top", "retire", "boundary"} /\ phase' \in {"leave", "boundary", "look"}
        /\ phase' # "leave" => phase # "top"
    BY <1>9 DEF NothingLeft, AllRetired, Boundary
  <2>2. ~Handing' /\ ShapeInv'
    BY <1>2, <2>1 DEF Handing, ShapeInv
  <2>3. processing' /\ phase' \in {"retire", "part", "boundary", "look"} => Chain(retry', First(inflight, chunkStart))
    BY <1>1, <1>2, <2>1 DEF GridInv
  <2>4. GridInv'
    BY <1>1, <1>2, <2>1, <2>2, <2>3 DEF GridInv, Late
  <2> QED  BY <2>2, <2>4
<1>10. CASE Drained
  <2>1. /\ phase = "drain" /\ back = "drain" /\ UNCHANGED <<hand, retry, inflight, carry, chunkStart, chunkNo>>
        /\ phase' \in {"top", "leave"}
    BY <1>2, <1>10 DEF Drained, LoopInv
  <2>2. ~Handing' /\ ShapeInv'
    BY <1>2, <2>1 DEF Handing, ShapeInv
  <2>3. Waiting(prefetch') = Waiting(prefetch)
    <3>1. ~Marked(prefetch) /\ Waiting(prefetch) = prefetch
      BY <1>2, <1>3, <2>1, WaitingIs DEF MarkInv
    <3>2. prefetch' = Append(prefetch, EndOfStream) \/ prefetch' = prefetch
      BY <1>10 DEF Drained
    <3>3. Waiting(Append(prefetch, EndOfStream)) = prefetch
      BY <1>3, <3>1, EndMark, WaitingAppend
    <3> QED  BY <3>1, <3>2, <3>3
  <2>4. GridInv'
    BY <1>6, <2>1, <2>2, <2>3 DEF Late
  <2> QED  BY <2>2, <2>4
<1>11. CASE Settle
  <2>1. /\ phase \in {"top", "drain"} /\ inflight # <<>> /\ UNCHANGED <<prefetch, carry, chunkStart, chunkNo>>
    BY <1>11 DEF Settle
  <2>2. CASE UNCHANGED <<hand, inflight>> /\ ((phase' = "leave" /\ UNCHANGED retry) \/ (phase' = "retire" /\ retry' = <<>>))
    <3>1. ~Handing' /\ ShapeInv'
      BY <1>2, <2>1, <2>2 DEF Handing, ShapeInv
    <3>2. phase' \in {"retire", "part", "boundary", "look"} => Chain(retry', First(inflight, chunkStart))
      BY <2>2, ChainEmpty
    <3>3. GridInv'
      BY <1>6, <2>1, <2>2, <3>1, <3>2 DEF Late
    <3> QED  BY <3>1, <3>3
  <2>3. CASE UNCHANGED retry /\ phase' = "enqueue" /\ hand' = Head(inflight) /\ inflight' = Tail(inflight)
    <3>1. /\ hand' = inflight[1] /\ hand' \in ChunkRec /\ ChunkOK(hand') /\ Handing'
          /\ \A i \in 1 .. Len(inflight') : inflight'[i] = inflight[i + 1] /\ i + 1 \in 1 .. Len(inflight)
      BY <2>1, <2>3, Oldest DEF Handing
    <3>2. ShapeInv'
      <4>1. \A i, j \in 1 .. Len(inflight') : i < j => i + 1 < j + 1
        BY <1>3, <2>3, Tails
      <4>2. \A i, j \in 1 .. Len(inflight') : i < j => inflight'[i].no < inflight'[j].no
        BY <1>2, <3>1, <4>1 DEF ShapeInv
      <4>3. \A i \in 1 .. Len(inflight') : ChunkOK(inflight'[i]) /\ inflight'[i].no < chunkNo
        BY <1>2, <3>1 DEF ShapeInv
      <4> QED  BY <1>2, <2>1, <2>3, <3>1, <4>2, <4>3 DEF ShapeInv
    <3>3. GridInv'
      <4>1. processing' => Chain(inflight', chunkStart) /\ EndOf(hand') = First(inflight', chunkStart)
        BY <1>1, <1>2, <1>3, <2>1, <2>3, <3>1, ChainTail DEF GridInv
      <4> QED  BY <1>1, <1>2, <2>1, <2>3, <3>1, <4>1 DEF GridInv, Late
    <3> QED  BY <3>2, <3>3
  <2> QED  BY <1>11, <2>2, <2>3 DEF Settle
<1>12. CASE Enqueue
  <2>1. /\ phase = "enqueue" /\ Handing /\ UNCHANGED <<prefetch, retry, inflight, carry, chunkStart, chunkNo>> /\ retry = <<>>
        /\ phase' \in {"leave", "boundary", "top", "drain"} /\ hand' = NoChunk
    BY <1>2, <1>3, <1>12 DEF Enqueue, LoopInv, Handing
  <2>2. ~Handing' /\ ShapeInv'
    BY <1>2, <2>1 DEF Handing, ShapeInv
  <2>3. GridInv'
    BY <1>6, <2>1, <2>2, ChainEmpty DEF Late
  <2> QED  BY <2>2, <2>3
<1>13. CASE EnqueuePart
  <2>1. /\ phase = "part" /\ Handing /\ UNCHANGED <<prefetch, inflight, carry, chunkStart, chunkNo>> /\ retry = <<>>
        /\ phase' \in {"leave", "retire"} /\ hand' = NoChunk /\ retry' \in {retry, Append(retry, hand)}
    BY <1>2, <1>13 DEF EnqueuePart, LoopInv, Handing
  <2>2. Append(retry, hand) \in Seq(ChunkRec) /\ Len(Append(retry, hand)) = 1 /\ Append(retry, hand)[1] = hand
    BY <1>3, <2>1, Appends
  <2>3. \A i \in 1 .. Len(retry') : ChunkOK(retry'[i])
    <3>1. CASE retry' = retry
      BY <1>4, <3>1
    <3>2. CASE retry' = Append(retry, hand)
      <4>1. \A i \in 1 .. Len(retry') : retry'[i] = hand
        BY <2>2, <3>2
      <4> QED  BY <1>3, <2>1, <4>1
    <3> QED  BY <2>1, <3>1, <3>2
  <2>4. ~Handing' /\ ShapeInv'
    BY <1>2, <2>1, <2>3 DEF Handing, ShapeInv
  <2>5. processing' => Chain(retry', First(inflight, chunkStart))
    <3>1. EndOf(hand) = First(inflight, chunkStart) \/ ~processing
      BY <1>2, <2>1 DEF GridInv
    <3>2. Chain(retry, hand.start)
      BY <2>1, ChainEmpty
    <3>3. Chain(Append(retry, hand), EndOf(hand))
      BY <1>3, <2>1, <3>2, ChainAppend
    <3> QED  BY <1>1, <2>1, <3>1, <3>3, ChainEmpty
  <2>6. GridInv'
    BY <1>1, <1>2, <2>1, <2>4, <2>5 DEF GridInv, Late
  <2> QED  BY <2>4, <2>6
<1>14. CASE Retire
  <2>1. phase = "retire" /\ UNCHANGED <<prefetch, carry, chunkStart, chunkNo>> /\ ~Handing
    BY <1>14 DEF Retire, Handing
  <2>2. /\ inflight # <<>> /\ inflight[1] \in ChunkRec /\ ChunkOK(inflight[1])
        /\ \A i \in 1 .. Len(Tail(inflight)) : Tail(inflight)[i] = inflight[i + 1] /\ i + 1 \in 1 .. Len(inflight)
    BY <1>14, RetireIs, Oldest
  <2>3. processing => /\ Chain(Tail(inflight), chunkStart) /\ EndOf(inflight[1]) = First(Tail(inflight), chunkStart)
                      /\ First(inflight, chunkStart) = inflight[1].start
                      /\ Chain(retry, inflight[1].start)
    <3>1. ASSUME processing PROVE Chain(inflight, chunkStart) /\ Chain(retry, First(inflight, chunkStart))
      BY <1>2, <2>1, <3>1 DEF GridInv
    <3> QED  BY <1>3, <2>2, <3>1, ChainTail
  <2>4. ASSUME inflight' = Tail(inflight) 
        PROVE  /\ \A i \in 1 .. Len(inflight') : ChunkOK(inflight'[i]) /\ inflight'[i].no < chunkNo
               /\ \A i, j \in 1 .. Len(inflight') : i < j => inflight'[i].no < inflight'[j].no
    BY <1>2, <2>2, <2>4 DEF ShapeInv
  <2>5. CASE phase' = "leave" /\ UNCHANGED <<hand, retry, inflight>>
    <3>1. ~Handing' /\ ShapeInv'
      BY <1>2, <2>1, <2>5 DEF Handing, ShapeInv
    <3> QED  BY <1>6, <2>1, <2>5, <3>1 DEF Late
  <2>6. CASE /\ UNCHANGED <<hand, phase>> /\ inflight' = Tail(inflight) /\ retry' = Append(retry, inflight[1])
    <3>1. /\ Len(retry') = Len(retry) + 1 /\ retry'[Len(retry) + 1] = inflight[1]
          /\ \A i \in 1 .. Len(retry) : retry'[i] = retry[i]
      BY <1>3, <2>2, <2>6, Appends
    <3>2. \A i \in 1 .. Len(retry') : ChunkOK(retry'[i])
      <4>1. \A i \in 1 .. Len(retry') : i \in 1 .. Len(retry) \/ i = Len(retry) + 1
        BY <1>3, <3>1
      <4> QED  BY <1>4, <2>2, <3>1, <4>1
    <3>3. ~Handing' /\ ShapeInv'
      BY <2>1, <2>4, <2>6, <3>2 DEF Handing, ShapeInv
    <3>4. processing => Chain(retry', First(inflight', chunkStart))
      BY <1>3, <2>2, <2>3, <2>6, ChainAppend
    <3>5. GridInv'
      BY <1>1, <1>2, <2>1, <2>3, <2>6, <3>3, <3>4 DEF GridInv, Late
    <3> QED  BY <3>3, <3>5
  <2>7. CASE /\ UNCHANGED retry /\ inflight' = Tail(inflight) /\ ~bad /\ phase' = "part"
             /\ Same(inflight[1], hand') /\ ChunkOK(hand')
    <3>1. EndOf(hand') = EndOf(inflight[1]) /\ retry = <<>>
      BY <1>2, <2>1, <2>7 DEF Same, EndOf, LoopInv
    <3>2. ShapeInv'
      BY <1>4, <2>1, <2>4, <2>7 DEF ShapeInv
    <3>3. GridInv'
      BY <1>1, <1>2, <2>1, <2>3, <2>7, <3>1, ChainEmpty DEF GridInv, Late
    <3> QED  BY <3>2, <3>3
  <2> QED  BY <1>14, <2>5, <2>6, <2>7, RetireIs
<1>15. CASE Requeue
  <2>1. /\ phase = "look" /\ phase' \in {"top", "drain"} /\ retry' = <<>> /\ inflight = <<>> /\ ~Handing
        /\ UNCHANGED <<hand, chunkNo, inflight>>
    BY <1>3, <1>15, RequeueIs
  <2>2. Len(<<>>) = 0
    OBVIOUS
  <2>3. ~Handing' /\ ShapeInv'
    BY <1>2, <2>1, <2>2 DEF Handing, ShapeInv
  <2>4. CASE UNCHANGED <<carry, chunkStart, prefetch>>
    <3>1. GridInv'
      BY <1>6, <2>1, <2>3, <2>4 DEF Late
    <3> QED  BY <2>3, <3>1
  <2>5. CASE /\ processing /\ retry # <<>> /\ 1 \in 1 .. Len(retry)
             /\ retry[1] \in ChunkRec /\ ChunkOK(retry[1])
             /\ carry' = retry[1].carry /\ chunkStart' = retry[1].start
             /\ prefetch' \in Seq(Seq(Int)) /\ ChunksOf(retry) \in Seq(Seq(Int))
             /\ Waiting(prefetch') = ChunksOf(retry) \o Waiting(prefetch)
             /\ Pieces(ChunksOf(retry), chunkStart', chunkStart)
    <3>1. Pieces(Waiting(prefetch), chunkStart, decoded - Len(held))
      BY <1>2, <2>1, <2>5 DEF GridInv, Late
    <3>2. Pieces(Waiting(prefetch'), chunkStart', decoded - Len(held))
      BY <1>3, <2>5, <3>1, WaitingIs, PiecesConcat
    <3>3. /\ chunkStart' <= TotalFrames /\ Len(carry') = Smaller(WarmUp, chunkStart')
          /\ carry' = Span(chunkStart' - Len(carry'), Len(carry'))
      <4>1. EndOf(retry[1]) <= TotalFrames /\ EndOf(retry[1]) = retry[1].start + Len(retry[1].chunk)
            /\ retry[1].start \in Nat /\ Len(retry[1].chunk) \in Nat
        BY <2>5, ChunkIs
      <4> QED  BY <2>5, <4>1, Sizes DEF ChunkOK
    <3>4. GridInv'
      BY <1>1, <1>2, <2>1, <2>3, <2>5, <3>2, <3>3, ChainEmpty DEF GridInv
    <3> QED  BY <2>3, <3>4
  <2> QED  BY <1>15, <2>4, <2>5, RequeueIs
<1>16. CASE Leave \/ StopWriter \/ JoinReader
  <2>1. /\ UNCHANGED <<prefetch, hand, retry, inflight, carry, chunkStart, chunkNo>>
        /\ phase' \in Torn \ {"stopWriter"} /\ (phase \in Late => phase' \in Late)
    BY <1>16 DEF Leave, StopWriter, JoinReader, Torn, Late
  <2>2. ~Handing' /\ ShapeInv'
    BY <1>2, <2>1 DEF Handing, ShapeInv, Torn
  <2>3. GridInv'
    BY <1>6, <2>1, <2>2 DEF Torn
  <2> QED  BY <2>2, <2>3
<1>17. CASE JoinPool
  <2>1. /\ UNCHANGED <<prefetch, hand, retry, carry, chunkStart, chunkNo>> /\ inflight' = <<>>
        /\ phase = "pool" /\ phase' = "stopWriter"
    BY <1>17 DEF JoinPool
  <2>2. Len(<<>>) = 0
    OBVIOUS
  <2>3. ~Handing' /\ ShapeInv'
    BY <1>2, <2>1, <2>2 DEF Handing, ShapeInv
  <2>4. GridInv'
    BY <1>1, <1>2, <2>1, <2>3, ChainEmpty DEF GridInv, Late
  <2> QED  BY <2>3, <2>4
<1>18. CASE JoinWriter
  <2>1. /\ UNCHANGED <<hand, retry, inflight, carry, chunkStart, chunkNo>> /\ phase' = "joinReader"
    BY <1>18 DEF JoinWriter
  <2>2. ~Handing' /\ ShapeInv'
    BY <1>2, <2>1 DEF Handing, ShapeInv
  <2>3. GridInv'
    BY <1>6, <2>1, <2>2 DEF Late
  <2> QED  BY <2>2, <2>3
<1> QED  BY <1>7, <1>8, <1>9, <1>10, <1>11, <1>12, <1>13, <1>14, <1>15, <1>16, <1>17, <1>18 DEF Coordinator

LEMMA GridStep == Inv /\ [Next]_vars => ShapeInv' /\ GridInv'
BY GridReader, GridWorker, GridCoord, GridElse DEF Next

-----------------------------------------------------------------------------
(* The blocks of a chunk.                                                   *)

\* A step of a worker takes at most the first block of the queue.
Kept == /\ Len(workQ') \in Nat
        /\ \E m \in {0, 1} : \A k \in 1 .. Len(workQ') : k + m \in 1 .. Len(workQ) /\ workQ'[k] = workQ[k + m]
        /\ Len(inflight') = Len(inflight) /\ \A j \in 1 .. Len(inflight) : inflight'[j].no = inflight[j].no
        /\ phase' = phase /\ (processing' => processing)

\* Who works, works on the block it worked on.
BusyKept == \A v \in Busy' : /\ v \in Busy /\ at'[v].no = at[v].no
                             /\ at'[v].main = at[v].main /\ at'[v].end = at[v].end

LEMMA KeptQueue ==
    ASSUME Inv, Kept
    PROVE  /\ \A k \in 1 .. Len(workQ') : \E l \in 1 .. Len(workQ) : workQ'[k] = workQ[l]
           /\ \A k \in 1 .. Len(workQ') : workQ'[k] # Quit => \E i \in 1 .. Len(inflight') : inflight'[i].no = workQ'[k].no
           /\ \A k, l \in 1 .. Len(workQ') :
                 k < l /\ workQ'[k].no = workQ'[l].no /\ workQ'[k] # Quit => workQ'[k].last <= workQ'[l].first
           /\ phase' \in Torn => \A k \in 1 .. Len(workQ') : workQ'[k] = Quit
           /\ phase' \notin Torn => \A k \in 1 .. Len(workQ') : workQ'[k] # Quit
<1>1. PICK m \in {0, 1} : \A k \in 1 .. Len(workQ') : k + m \in 1 .. Len(workQ) /\ workQ'[k] = workQ[k + m]
  BY DEF Kept
<1>2. QuitInv /\ KnownInv /\ ApartInv
  BY DEF Inv, BlockInv
<1>3. \A k \in 1 .. Len(workQ') : workQ'[k] # Quit => \E i \in 1 .. Len(inflight') : inflight'[i].no = workQ'[k].no
  <2>1. \A k \in 1 .. Len(workQ') : workQ'[k] # Quit => \E i \in 1 .. Len(inflight) : inflight[i].no = workQ'[k].no
    BY <1>1, <1>2 DEF KnownInv
  <2> QED  BY <2>1 DEF Kept
<1>4. \A k, l \in 1 .. Len(workQ') :
         k < l /\ workQ'[k].no = workQ'[l].no /\ workQ'[k] # Quit => workQ'[k].last <= workQ'[l].first
  <2> SUFFICES ASSUME NEW k \in 1 .. Len(workQ'), NEW l \in 1 .. Len(workQ'), k < l,
                      workQ'[k].no = workQ'[l].no, workQ'[k] # Quit
               PROVE  workQ'[k].last <= workQ'[l].first
    OBVIOUS
  <2>1. k + m \in 1 .. Len(workQ) /\ l + m \in 1 .. Len(workQ) /\ workQ'[k] = workQ[k + m] /\ workQ'[l] = workQ[l + m]
    BY <1>1
  <2>2. k + m < l + m
    BY DEF Kept
  <2>3. PICK a \in 1 .. Len(workQ), b \in 1 .. Len(workQ) : a = k + m /\ b = l + m
    BY <2>1
  <2> QED  BY <1>2, <2>1, <2>2, <2>3 DEF ApartInv
<1>5. /\ phase' \in Torn => \A k \in 1 .. Len(workQ') : workQ'[k] = Quit
      /\ phase' \notin Torn => \A k \in 1 .. Len(workQ') : workQ'[k] # Quit
  BY <1>1, <1>2 DEF QuitInv, Kept
<1> QED  BY <1>1, <1>3, <1>4, <1>5

LEMMA KeptBusy ==
    ASSUME Inv, Kept, BusyKept
    PROVE  KnownInv' /\ ApartInv'
<1>1. KnownInv /\ ApartInv
  BY DEF Inv, BlockInv
<1>2. \A v \in Busy' : \E i \in 1 .. Len(inflight') : inflight'[i].no = at'[v].no
  <2>1. \A v \in Busy' : \E i \in 1 .. Len(inflight) : inflight[i].no = at'[v].no
    BY <1>1 DEF KnownInv, BusyKept
  <2> QED  BY <2>1 DEF Kept
<1>3. \A w, v \in Busy' : w # v /\ at'[w].no = at'[v].no => at'[w].end <= at'[v].main \/ at'[v].end <= at'[w].main
  BY <1>1 DEF ApartInv, BusyKept
<1> QED  BY <1>2, <1>3, KeptQueue DEF KnownInv, ApartInv

\* A part of the blocks that are out, and a part that one of them is missing in.
LEMMA Fewer ==
    ASSUME Inv, NEW c, NEW S, S \subseteq Owed(c), NEW n \in Nat, Cardinality(Owed(c)) <= n
    PROVE  /\ Cardinality(S) <= n
           /\ \A x \in Owed(c) : x \notin S => Cardinality(S) <= n - 1
<1>1. PICK O : O = Owed(c)
  OBVIOUS
<1>2. IsFiniteSet(O) /\ Cardinality(O) \in Nat /\ Cardinality(O) <= n
  BY <1>1, OwedFinite
<1>3. IsFiniteSet(S) /\ Cardinality(S) <= Cardinality(O) /\ Cardinality(S) \in Nat
  BY <1>1, <1>2, FS_Subset, FS_CardinalityType
<1>4. ASSUME NEW x \in O, x \notin S PROVE Cardinality(S) <= n - 1
  <2>1. S \subseteq O \ {x}
    BY <1>1, <1>4
  <2>2. IsFiniteSet(O \ {x}) /\ Cardinality(O \ {x}) = Cardinality(O) - 1
    BY <1>2, <1>4, FS_RemoveElement
  <2>3. Cardinality(S) <= Cardinality(O \ {x})
    BY <2>1, <2>2, FS_Subset
  <2> QED  BY <1>2, <1>3, <2>2, <2>3
<1> QED  BY <1>1, <1>2, <1>3, <1>4

LEMMA OwedKept ==
    ASSUME Inv, Kept, BusyKept, NEW c
    PROVE  Owed(c)' \subseteq Owed(c)
<1>1. \A k \in 1 .. Len(workQ') : workQ'[k].no = c.no => workQ'[k].first \in Owed(c)
  BY KeptQueue DEF Owed
<1>2. \A v \in Busy' : at'[v].no = c.no => at'[v].main - Len(c.carry) \in Owed(c)
  BY DEF Owed, BusyKept
<1> QED  BY <1>1, <1>2 DEF Owed

\* The chunk c is d now: what is new in it was in no block that is still out.
LEMMA BlocksKept ==
    ASSUME Inv, Kept, BusyKept, NEW c \in ChunkRec, BlocksOf(c), NEW d \in ChunkRec, Same(c, d),
           \A k \in 1 .. Len(workQ') : workQ'[k].no = c.no => \A g \in d.got \ c.got : ~InBlock(c, workQ'[k], g),
           \A v \in Busy' : at'[v].no = c.no =>
               /\ \A g \in d.got \ c.got : ~InWork(c, at'[v], g)
               /\ at'[v].ci \in Nat /\ at[v].ci <= at'[v].ci /\ at'[v].ci < at'[v].end
               /\ wpc'[v] = "fallback" => FailOK(c, at'[v]),
           Cardinality(Owed(c)') <= d.left
    PROVE  BlocksOf(d)'
<1>1. /\ d.no = c.no /\ d.start = c.start /\ d.chunk = c.chunk /\ d.carry = c.carry
  BY DEF Same
<1>2. \A g, b : InBlock(d, b, g) <=> InBlock(c, b, g)
  BY <1>1 DEF InBlock
<1>3. /\ \A g, a : InWork(d, a, g) <=> InWork(c, a, g)
      /\ \A a : FailOK(d, a) <=> FailOK(c, a)
  BY <1>1 DEF InWork, FailOK, BaseGlobal, IndexAt
<1>4. ASSUME NEW k \in 1 .. Len(workQ'), workQ'[k].no = d.no PROVE QueuedOK(d, workQ'[k])
  <2>1. PICK l \in 1 .. Len(workQ) : workQ'[k] = workQ[l]
    BY KeptQueue
  <2>2. QueuedOK(c, workQ[l])
    BY <1>1, <1>4, <2>1 DEF BlocksOf
  <2> QED  BY <1>1, <1>2, <1>4, <2>1, <2>2 DEF QueuedOK
<1>5. ASSUME NEW k \in 1 .. Len(workQ'), NEW v \in Busy', workQ'[k].no = d.no, at'[v].no = d.no
      PROVE  at'[v].end <= Len(d.carry) + workQ'[k].first
  <2>1. PICK l \in 1 .. Len(workQ) : workQ'[k] = workQ[l]
    BY KeptQueue
  <2>2. v \in Busy /\ at[v].no = c.no /\ at'[v].end = at[v].end
    BY <1>1, <1>5 DEF BusyKept
  <2>3. at[v].end <= Len(c.carry) + workQ[l].first
    BY <1>1, <1>5, <2>1, <2>2 DEF BlocksOf
  <2> QED  BY <1>1, <2>1, <2>2, <2>3
<1>6. ASSUME NEW v \in Busy', at'[v].no = d.no PROVE WorkOK(d, at'[v]) /\ (wpc'[v] = "fallback" => FailOK(d, at'[v]))
  <2>1. v \in Busy /\ at[v].no = c.no /\ at'[v].end = at[v].end /\ at'[v].main = at[v].main
    BY <1>1, <1>6 DEF BusyKept
  <2>2. WorkOK(c, at[v])
    BY <2>1 DEF BlocksOf
  <2>3. /\ at'[v].ci \in Nat /\ at[v].ci <= at'[v].ci /\ at'[v].ci < at'[v].end
        /\ \A g \in d.got \ c.got : ~InWork(c, at'[v], g)
        /\ wpc'[v] = "fallback" => FailOK(c, at'[v])
    BY <1>1, <1>6
  <2>4. \A g \in c.got : ~InWork(c, at'[v], g)
    <3> SUFFICES ASSUME NEW g \in c.got, InWork(c, at'[v], g) PROVE FALSE
      OBVIOUS
    <3>1. PICK p, q, e, t : /\ p = g - BaseGlobal(c) /\ q = at[v].ci /\ e = at'[v].end /\ t = at'[v].ci
                           /\ q \in Nat /\ e \in Nat
      <4>1. at[v].ci \in Nat /\ at[v].end \in Nat
        BY <2>1, QueueTypes
      <4> QED  BY <2>1, <4>1
    <3>2. p \in Int /\ t \in Nat
      <4>1. c.start \in Nat /\ c.carry \in Seq(Nat) /\ g \in Nat
        BY DEF ChunkRec
      <4>2. Len(c.carry) \in Nat
        BY <4>1
      <4>3. BaseGlobal(c) \in Int
        BY <4>1, <4>2 DEF BaseGlobal
      <4> QED  BY <2>3, <3>1, <4>1, <4>3
    <3>3. at'[v].main <= p /\ t <= p /\ p < e /\ q <= t
      BY <2>3, <3>1 DEF InWork
    <3>4. InWork(c, at[v], g)
      BY <2>1, <3>1, <3>2, <3>3 DEF InWork
    <3> QED  BY <2>2, <3>4 DEF WorkOK
  <2>5. WorkOK(d, at'[v])
    BY <1>1, <1>3, <2>1, <2>2, <2>3, <2>4 DEF WorkOK
  <2> QED  BY <1>3, <2>3, <2>5
<1>7. Owed(d)' = Owed(c)'
  BY <1>1 DEF Owed
<1> QED  BY <1>4, <1>5, <1>6, <1>7 DEF BlocksOf

\* The work of a chunk, at the chunk's place in flight.
LEMMA WorkIs ==
    ASSUME Inv, NEW i \in 1 .. Len(inflight)
    PROVE  /\ inflight[i] \in ChunkRec /\ ChunkOK(inflight[i]) /\ BlocksOf(inflight[i])
           /\ inflight[i].no \in Nat /\ inflight[i].left \in Nat /\ Cardinality(Owed(inflight[i])) <= inflight[i].left
           /\ Len(inflight[i].carry) \in Nat /\ inflight[i].start \in Nat
           /\ inflight[i].start = BaseGlobal(inflight[i]) + Len(inflight[i].carry) /\ BaseGlobal(inflight[i]) \in Nat
           /\ \A w \in Busy : at[w].no = inflight[i].no => WorkOK(inflight[i], at[w])
           /\ \A j \in 1 .. Len(inflight) : inflight[j].no = inflight[i].no => j = i
<1>1. inflight[i] \in ChunkRec /\ ChunkOK(inflight[i]) /\ BlocksOf(inflight[i])
  BY InflightTypes
<1>2. inflight[i].no \in Nat /\ inflight[i].left \in Nat
  BY <1>1 DEF ChunkRec
<1>3. /\ Cardinality(Owed(inflight[i])) <= inflight[i].left
      /\ \A w \in Busy : at[w].no = inflight[i].no => WorkOK(inflight[i], at[w])
  BY <1>1 DEF BlocksOf
<1>4. /\ Len(inflight[i].carry) \in Nat /\ inflight[i].start \in Nat /\ BaseGlobal(inflight[i]) \in Nat
      /\ inflight[i].start = BaseGlobal(inflight[i]) + Len(inflight[i].carry)
  BY <1>1, Places
<1> QED  BY <1>1, <1>2, <1>3, <1>4, ChunkOfIs

\* A chunk that the step leaves alone.
LEMMA BlocksSame ==
    ASSUME Inv, Kept, BusyKept, NEW i \in 1 .. Len(inflight), NEW c, c = inflight[i],
           \A v \in Busy' : at'[v].no = c.no => at'[v] = at[v] /\ (wpc'[v] = "fallback" => FailOK(c, at'[v]))
    PROVE  BlocksOf(c)'
<1>1. /\ c \in ChunkRec /\ BlocksOf(c) /\ c.left \in Nat /\ Cardinality(Owed(c)) <= c.left
      /\ \A w \in Busy : at[w].no = c.no => WorkOK(c, at[w])
  BY WorkIs
<1>2. Same(c, c) /\ \A g \in c.got \ c.got : FALSE
  BY <1>1 DEF Same
<1>3. Cardinality(Owed(c)') <= c.left
  <2>1. PICK S : S = Owed(c)'
    OBVIOUS
  <2>2. S \subseteq Owed(c)
    BY <2>1, OwedKept
  <2>3. Cardinality(S) <= c.left
    BY <1>1, <2>2, Fewer
  <2> QED  BY <2>1, <2>3
<1>4. \A v \in Busy' : at'[v].no = c.no =>
               /\ \A g \in c.got \ c.got : ~InWork(c, at'[v], g)
               /\ at'[v].ci \in Nat /\ at[v].ci <= at'[v].ci /\ at'[v].ci < at'[v].end
               /\ wpc'[v] = "fallback" => FailOK(c, at'[v])
  <2> SUFFICES ASSUME NEW v \in Busy', at'[v].no = c.no
               PROVE  /\ at'[v].ci \in Nat /\ at[v].ci <= at'[v].ci /\ at'[v].ci < at'[v].end
                      /\ wpc'[v] = "fallback" => FailOK(c, at'[v])
    BY <1>2
  <2>1. at'[v] = at[v] /\ v \in Busy /\ at[v].ci \in Nat
    BY QueueTypes DEF BusyKept
  <2>2. at[v].ci < at[v].end
    BY <1>1, <2>1 DEF WorkOK
  <2> QED  BY <2>1, <2>2
<1>5. \A k \in 1 .. Len(workQ') : workQ'[k].no = c.no => \A g \in c.got \ c.got : ~InBlock(c, workQ'[k], g)
  BY <1>2
<1> QED  BY <1>1, <1>2, <1>3, <1>4, <1>5, BlocksKept

\* A block that is no longer out, of the queue or of a worker.
LEMMA BlockGone ==
    ASSUME Inv, Kept, BusyKept, NEW i \in 1 .. Len(inflight), NEW c, c = inflight[i],
           \/ /\ workQ # <<>> /\ workQ' = Tail(workQ) /\ Head(workQ) # Quit /\ Head(workQ).no = c.no
              /\ \A v \in Busy : at[v].no = c.no => at'[v] = at[v]
           \/ \E w \in Busy : w \notin Busy' /\ at[w].no = c.no /\ workQ' = workQ
    PROVE  Cardinality(Owed(c)') <= c.left - 1
<1>1. /\ c \in ChunkRec /\ BlocksOf(c) /\ c.left \in Nat /\ Cardinality(Owed(c)) <= c.left
      /\ \A w \in Busy : at[w].no = c.no => WorkOK(c, at[w])
      /\ Len(c.carry) \in Nat
  BY WorkIs
<1>2. PICK n \in Nat : n = Len(c.carry)
  BY <1>1
<1>3. /\ workQ \in Seq(BlockRec \cup {Quit}) /\ Len(workQ) \in Nat
      /\ \A k \in 1 .. Len(workQ) : workQ[k].first \in Nat /\ workQ[k].last \in Nat
      /\ \A w \in Busy : at[w].ci \in Nat /\ at[w].main \in Nat /\ at[w].end \in Nat
  BY QueueTypes
<1>0. \A w \in Busy : at[w].main \in Nat /\ at[w].end \in Nat
  BY <1>3
<1>4. PICK S : S = Owed(c)'
  OBVIOUS
<1>5. S \subseteq Owed(c)
  BY <1>4, OwedKept
<1>6. ASSUME NEW x \in Owed(c), \A k \in 1 .. Len(workQ') : workQ'[k].no = c.no => workQ'[k].first # x,
             \A v \in Busy' : at'[v].no = c.no => at'[v].main - n # x
      PROVE  Cardinality(Owed(c)') <= c.left - 1
  <2>1. x \notin S
    BY <1>2, <1>4, <1>6 DEF Owed
  <2>2. Cardinality(S) <= c.left - 1
    BY <1>1, <1>5, <1>6, <2>1, Fewer
  <2> QED  BY <1>4, <2>2
<1>7. CASE /\ workQ # <<>> /\ workQ' = Tail(workQ) /\ Head(workQ) # Quit /\ Head(workQ).no = c.no
           /\ \A v \in Busy : at[v].no = c.no => at'[v] = at[v]
  <2>1. /\ 1 \in 1 .. Len(workQ) /\ workQ[1] = Head(workQ) /\ Len(workQ) \in Nat /\ Len(workQ') = Len(workQ) - 1
        /\ \A k \in 1 .. Len(workQ') : workQ'[k] = workQ[k + 1] /\ k + 1 \in 1 .. Len(workQ) /\ 1 < k + 1
    <3>1. Len(workQ) \in Nat \ {0} /\ Len(workQ') = Len(workQ) - 1
      BY <1>3, <1>7, Tails
    <3>2. workQ[1] = Head(workQ) /\ \A k \in 1 .. Len(workQ') : workQ'[k] = workQ[k + 1]
      BY <1>3, <1>7, Tails
    <3>3. PICK n2 \in Nat \ {0} : n2 = Len(workQ)
      BY <3>1
    <3>4. \A k \in 1 .. n2 - 1 : k + 1 \in 1 .. n2 /\ 1 < k + 1
      OBVIOUS
    <3>5. 1 \in 1 .. n2
      OBVIOUS
    <3> QED  BY <3>1, <3>2, <3>3, <3>4, <3>5
  <2>2. PICK x \in Nat, y \in Nat : x = workQ[1].first /\ y = workQ[1].last
    BY <1>3, <2>1
  <2>3. x \in Owed(c)
    BY <1>7, <2>1, <2>2 DEF Owed
  <2>4. x < y
    BY <1>1, <1>7, <2>1, <2>2 DEF BlocksOf, QueuedOK
  <2>5. \A k \in 1 .. Len(workQ') : workQ'[k].no = c.no => workQ'[k].first # x
    <3> SUFFICES ASSUME NEW k \in 1 .. Len(workQ'), workQ'[k].no = c.no PROVE workQ'[k].first # x
      OBVIOUS
    <3>1. PICK l \in 1 .. Len(workQ) : l = k + 1
      BY <2>1
    <3>2. workQ'[k] = workQ[l] /\ 1 < l
      BY <2>1, <3>1
    <3>3. y <= workQ[l].first
      BY ZenonT(60), <1>7, <2>1, <2>2, <3>2 DEF Inv, BlockInv, ApartInv
    <3>4. workQ[l].first \in Nat
      BY <1>3
    <3> QED  BY <2>4, <3>2, <3>3, <3>4
  <2>6. \A v \in Busy' : at'[v].no = c.no => at'[v].main - n # x
    <3> SUFFICES ASSUME NEW v \in Busy', at'[v].no = c.no PROVE at'[v].main - n # x
      OBVIOUS
    <3>1. v \in Busy /\ at[v].no = c.no /\ at'[v].main = at[v].main
      BY DEF BusyKept
    <3>2. at[v].end <= n + x /\ at[v].main < at[v].end
      BY <1>1, <1>2, <1>7, <2>1, <2>2, <3>1 DEF BlocksOf, WorkOK
    <3>3. at[v].main \in Nat /\ at[v].end \in Nat
      BY <1>0, <3>1
    <3> QED  BY <3>1, <3>2, <3>3
  <2> QED  BY <1>6, <2>3, <2>5, <2>6
<1>8. ASSUME NEW w \in Busy, w \notin Busy', at[w].no = c.no, workQ' = workQ
      PROVE  Cardinality(Owed(c)') <= c.left - 1
  <2>1. PICK m, e, x : m \in Nat /\ e \in Nat /\ m = at[w].main /\ e = at[w].end /\ x = m - n
    <3>1. at[w].main \in Nat /\ at[w].end \in Nat
      BY <1>0
    <3> QED  BY <3>1
  <2>2. x \in Owed(c)
    BY <1>2, <1>8, <2>1 DEF Owed
  <2>3. m < e /\ n <= m
    BY <1>1, <1>2, <1>8, <2>1 DEF WorkOK
  <2>4. \A k \in 1 .. Len(workQ') : workQ'[k].no = c.no => workQ'[k].first # x
    <3> SUFFICES ASSUME NEW k \in 1 .. Len(workQ), workQ[k].no = c.no PROVE workQ[k].first # x
      BY <1>8
    <3>1. e <= n + workQ[k].first
      BY <1>1, <1>2, <1>8, <2>1 DEF BlocksOf
    <3>2. workQ[k].first \in Nat
      BY <1>3
    <3> QED  BY <2>1, <2>3, <3>1, <3>2
  <2>5. \A v \in Busy' : at'[v].no = c.no => at'[v].main - n # x
    <3> SUFFICES ASSUME NEW v \in Busy', at'[v].no = c.no PROVE at'[v].main - n # x
      OBVIOUS
    <3>1. v \in Busy /\ at[v].no = c.no /\ at'[v].main = at[v].main /\ v # w
      BY <1>8 DEF BusyKept
    <3>2. PICK p \in Nat, q \in Nat : p = at[v].main /\ q = at[v].end
      BY <1>0, <3>1
    <3>3. p < q
      BY <1>1, <3>1, <3>2 DEF WorkOK
    <3>4. e <= p \/ q <= m
      BY <1>8, <2>1, <3>1, <3>2 DEF Inv, BlockInv, ApartInv
    <3>5. p # m
      BY <2>1, <2>3, <3>2, <3>3, <3>4
    <3> QED  BY <2>1, <3>1, <3>2, <3>5
  <2> QED  BY <1>6, <2>2, <2>4, <2>5
<1> QED  BY <1>7, <1>8

\* Nobody drops a frame that was neither done nor given back.
LEMMA CoverKept ==
    ASSUME Inv, NEW c \in ChunkRec, NEW d, Same(c, d), Covered(c), c.got \subseteq d.got,
           \A k \in 1 .. Len(workQ) : workQ[k].no = c.no =>
               \/ \E l \in 1 .. Len(workQ') : workQ'[l] = workQ[k]
               \/ \E v \in Busy' : at'[v].no = c.no /\ \A g \in Nat : InBlock(c, workQ[k], g) => InWork(c, at'[v], g),
           \A v \in Busy : at[v].no = c.no =>
               \A g \in Nat : InWork(c, at[v], g) =>
                   g \in d.got \/ \E u \in Busy' : at'[u].no = c.no /\ InWork(c, at'[u], g)
    PROVE  Covered(d)'
<1>1. /\ d.no = c.no /\ d.start = c.start /\ d.chunk = c.chunk /\ d.carry = c.carry /\ EndOf(d) = EndOf(c)
  BY DEF Same, EndOf
<1>2. /\ \A g, b : InBlock(d, b, g) <=> InBlock(c, b, g)
      /\ \A g, a : InWork(d, a, g) <=> InWork(c, a, g)
  BY <1>1 DEF InBlock, InWork, BaseGlobal
<1>3. ASSUME NEW g \in d.start .. EndOf(d) - 1
      PROVE  \/ g \in d.got
             \/ \E k \in 1 .. Len(workQ') : workQ'[k].no = d.no /\ InBlock(d, workQ'[k], g)
             \/ \E w \in Busy' : at'[w].no = d.no /\ InWork(d, at'[w], g)
  <2>1. g \in Nat /\ g \in c.start .. EndOf(c) - 1
    <3>1. c.start \in Nat
      BY DEF ChunkRec
    <3> QED  BY <1>1, <3>1
  <2>2. CASE g \in c.got
    BY <2>2
  <2>3. CASE \E k \in 1 .. Len(workQ) : workQ[k].no = c.no /\ InBlock(c, workQ[k], g)
    BY <1>1, <1>2, <2>1, <2>3
  <2>4. CASE \E w \in Busy : at[w].no = c.no /\ InWork(c, at[w], g)
    BY <1>1, <1>2, <2>1, <2>4
  <2> QED  BY <2>1, <2>2, <2>3, <2>4 DEF Covered
<1> QED  BY <1>3 DEF Covered

Numbered == Len(inflight') = Len(inflight) /\ \A j \in 1 .. Len(inflight) : inflight'[j].no = inflight[j].no

LEMMA TouchedNumbered ==
    ASSUME Inv, NEW i \in 1 .. Len(inflight), NEW d \in ChunkRec, Touched(i, d), Same(inflight[i], d)
    PROVE  /\ Numbered /\ inflight'[i] = d
           /\ \A j \in 1 .. Len(inflight) : j # i => inflight'[j] = inflight[j] /\ inflight[j].no # d.no
           /\ d.no = inflight[i].no
<1>1. d.no = inflight[i].no
  BY DEF Same
<1>2. \A j \in 1 .. Len(inflight) : j # i => inflight[j].no # inflight[i].no
  BY WorkIs
<1> QED  BY <1>1, <1>2 DEF Touched, Numbered

LEMMA SameNumbered == UNCHANGED inflight => Numbered
BY DEF Numbered

LEMMA WorkerKept ==
    ASSUME Inv, NEW w \in Workers, Worker(w), Numbered, workQ' = workQ \/ Takes(w)
    PROVE  /\ Kept /\ Len(workQ') \in Nat
           /\ wpc \in [Workers -> {"idle", "frame", "run", "fallback", "done"}] /\ at \in [Workers -> AtRec]
           /\ Takes(w) => /\ w \notin Busy /\ 1 \in 1 .. Len(workQ) /\ workQ[1] = Head(workQ)
                          /\ \A k \in 1 .. Len(workQ') : workQ'[k] = workQ[k + 1]
                          /\ \A k \in 1 .. Len(workQ) : k = 1 \/ \E l \in 1 .. Len(workQ') : workQ'[l] = workQ[k]
<1>1. UNCHANGED phase /\ (processing' => processing)
  BY WorkerFrame
<1>2. /\ workQ \in Seq(BlockRec \cup {Quit}) /\ Len(workQ) \in Nat
  BY QueueTypes
<1>3. wpc \in [Workers -> {"idle", "frame", "run", "fallback", "done"}] /\ at \in [Workers -> AtRec]
  BY DEF Inv, Types, WorkerTypes
<1>4. CASE workQ' = workQ
  <2>1. \A k \in 1 .. Len(workQ') : k + 0 \in 1 .. Len(workQ) /\ workQ'[k] = workQ[k + 0]
    BY <1>2, <1>4
  <2>2. Kept
    BY <1>1, <1>2, <1>4, <2>1 DEF Kept, Numbered
  <2>3. ~Takes(w)
    <3>1. ASSUME Takes(w) PROVE FALSE
      <4>1. workQ # <<>> /\ workQ' = Tail(workQ)
        BY <3>1 DEF Takes
      <4>2. Len(Tail(workQ)) = Len(workQ) - 1 /\ Len(workQ) \in Nat
        BY <1>2, <4>1, Tails
      <4> QED  BY <1>4, <4>1, <4>2
    <3> QED  BY <3>1
  <2> QED  BY <1>2, <1>3, <1>4, <2>2, <2>3
<1>5. CASE Takes(w)
  <2>1. wpc[w] = "idle" /\ workQ # <<>> /\ workQ' = Tail(workQ)
    BY <1>5 DEF Takes
  <2>2. w \notin Busy
    BY <2>1 DEF Busy
  <2>3. /\ Len(workQ) \in Nat \ {0} /\ Len(workQ') = Len(workQ) - 1 /\ workQ[1] = Head(workQ)
        /\ \A k \in 1 .. Len(workQ') : workQ'[k] = workQ[k + 1]
    BY <1>2, <2>1, Tails
  <2>4. PICK n \in Nat \ {0} : n = Len(workQ)
    BY <2>3
  <2>5. \A k \in 1 .. n - 1 : k + 1 \in 1 .. n
    OBVIOUS
  <2>6. n - 1 \in Nat /\ 1 \in 1 .. n /\ \A k \in 1 .. n : k = 1 \/ (k - 1 \in 1 .. n - 1 /\ (k - 1) + 1 = k)
    OBVIOUS
  <2>7. Len(workQ') = n - 1
    BY <2>3, <2>4
  <2>8. \A k \in 1 .. Len(workQ') : k + 1 \in 1 .. Len(workQ) /\ workQ'[k] = workQ[k + 1]
    BY <2>3, <2>4, <2>5, <2>7
  <2>9. Kept
    BY <1>1, <2>6, <2>7, <2>8 DEF Kept, Numbered
  <2>10. \A k \in 1 .. Len(workQ) : k = 1 \/ \E l \in 1 .. Len(workQ') : workQ'[l] = workQ[k]
    <3> SUFFICES ASSUME NEW k \in 1 .. n, k # 1 PROVE \E l \in 1 .. n - 1 : workQ'[l] = workQ[k]
      BY <2>4, <2>7
    <3>1. PICK l \in 1 .. n - 1 : l + 1 = k
      BY <2>6
    <3>2. workQ'[l] = workQ[l + 1]
      BY <2>3, <2>7
    <3> QED  BY <3>1, <3>2
  <2> QED  BY <1>3, <2>2, <2>3, <2>4, <2>6, <2>7, <2>9, <2>10
<1> QED  BY <1>4, <1>5

\* Who stops working takes nothing with him.
LEMMA BlockQuits ==
    ASSUME Inv, NEW w \in Workers, Worker(w), Quits(w)
    PROVE  BlockInv'
<1>1. Takes(w) /\ Head(workQ) = Quit /\ wpc' = [wpc EXCEPT ![w] = "done"] /\ UNCHANGED <<at, inflight>>
  BY DEF Quits
<1>2. /\ Kept /\ wpc \in [Workers -> {"idle", "frame", "run", "fallback", "done"}] /\ w \notin Busy
      /\ 1 \in 1 .. Len(workQ) /\ workQ[1] = Head(workQ)
  BY <1>1, SameNumbered, WorkerKept
<1>3. phase = "pool" /\ phase' = phase
  <2>1. phase \in Torn
    BY <1>1, <1>2 DEF Inv, BlockInv, QuitInv
  <2>2. wpc[w] # "done"
    BY <1>1 DEF Takes
  <2> QED  BY <1>2, <2>1, <2>2 DEF Inv, BlockInv, QuitInv, Kept
<1>4. Busy' = Busy /\ \A v \in Busy : wpc'[v] = wpc[v]
  BY <1>1, <1>2 DEF Busy
<1>5. BusyKept
  BY <1>1, <1>4 DEF BusyKept
<1>6. QuitInv'
  BY <1>2, <1>3, KeptQueue DEF QuitInv, Torn
<1>7. WorkInv'
  <2>1. ASSUME NEW j \in 1 .. Len(inflight'), NEW c, c = inflight'[j] PROVE BlocksOf(c)'
    <3>1. j \in 1 .. Len(inflight) /\ c = inflight[j]
      BY <1>1, <2>1
    <3>2. \A v \in Busy' : at'[v].no = c.no => at'[v] = at[v] /\ (wpc'[v] = "fallback" => FailOK(c, at'[v]))
      BY <1>1, <1>4, <3>1, WorkIs DEF BlocksOf
    <3> QED  BY <1>2, <1>5, <3>1, <3>2, BlocksSame
  <2> QED  BY <2>1 DEF WorkInv
<1>8. CoverInv'
  BY <1>3 DEF CoverInv, Torn
<1> QED  BY <1>2, <1>5, <1>6, <1>7, <1>8, KeptBusy DEF BlockInv

LEMMA BlockDrops ==
    ASSUME Inv, NEW w \in Workers, Worker(w), NEW i \in 1 .. Len(inflight), NEW d \in ChunkRec, Drops(w, i, d)
    PROVE  BlockInv'
<1>1. /\ Takes(w) /\ Head(workQ) # Quit /\ inflight[i].no = Head(workQ).no
      /\ UNCHANGED <<wpc, at>> /\ ~processing' /\ Touched(i, d) /\ Lighter(inflight[i], d)
  BY DEF Drops
<1>2. Same(inflight[i], d) /\ d.got = inflight[i].got /\ d.left = inflight[i].left - 1
  BY <1>1 DEF Lighter
<1>3. /\ Numbered /\ inflight'[i] = d /\ d.no = inflight[i].no
      /\ \A j \in 1 .. Len(inflight) : j # i => inflight'[j] = inflight[j]
  BY <1>1, <1>2, TouchedNumbered
<1>4. Kept /\ w \notin Busy /\ workQ[1] = Head(workQ) /\ 1 \in 1 .. Len(workQ)
  BY <1>1, <1>3, WorkerKept
<1>5. Busy' = Busy
  BY <1>1 DEF Busy
<1>6. BusyKept
  BY <1>1, <1>5 DEF BusyKept
<1>7. QuitInv'
  <2>1. phase \notin Torn
    BY <1>1, <1>4 DEF Inv, BlockInv, QuitInv
  <2>2. phase' \notin Torn /\ \A v \in Workers : wpc'[v] # "done"
    BY <1>1, <1>4, <2>1 DEF Inv, BlockInv, QuitInv, Kept
  <2> QED  BY <1>4, <2>2, KeptQueue DEF QuitInv
<1>8. WorkInv'
  <2>1. ASSUME NEW j \in 1 .. Len(inflight'), NEW c, c = inflight'[j] PROVE BlocksOf(c)'
    <3>1. j \in 1 .. Len(inflight)
      BY <1>3, <2>1 DEF Numbered
    <3>2. PICK b : b = inflight[j] /\ b \in ChunkRec /\ BlocksOf(b)
      BY <3>1, WorkIs
    <3>3. \A v \in Busy' : at'[v].no = b.no => at'[v] = at[v] /\ (wpc'[v] = "fallback" => FailOK(b, at'[v]))
      BY <1>1, <1>5, <3>1, <3>2, WorkIs DEF BlocksOf
    <3>4. CASE j # i
      <4>1. b = c
        BY <1>3, <2>1, <3>1, <3>2, <3>4
      <4> QED  BY <1>4, <1>6, <3>1, <3>2, <3>3, <4>1, BlocksSame
    <3>5. CASE j = i
      <4>1. c = d /\ Same(b, c) /\ c \in ChunkRec /\ c.left = b.left - 1 /\ c.got \ b.got = {}
        BY <1>2, <1>3, <2>1, <3>2, <3>5
      <4>2. Cardinality(Owed(b)') <= b.left - 1
        BY <1>1, <1>4, <1>6, <3>1, <3>2, <3>5, BlockGone DEF Takes
      <4>3. \A v \in Busy' : at'[v].no = b.no =>
               /\ \A g \in c.got \ b.got : ~InWork(b, at'[v], g)
               /\ at'[v].ci \in Nat /\ at[v].ci <= at'[v].ci /\ at'[v].ci < at'[v].end
               /\ wpc'[v] = "fallback" => FailOK(b, at'[v])
        <5> SUFFICES ASSUME NEW v \in Busy', at'[v].no = b.no
                     PROVE  at'[v].ci \in Nat /\ at[v].ci <= at'[v].ci /\ at'[v].ci < at'[v].end
          BY <3>3, <4>1
        <5>1. at'[v] = at[v] /\ v \in Busy /\ at[v].ci \in Nat
          BY <1>1, <1>5, QueueTypes
        <5>2. at[v].ci < at[v].end
          BY <3>1, <3>2, <5>1, WorkIs DEF WorkOK
        <5> QED  BY <5>1, <5>2
      <4>4. \A k \in 1 .. Len(workQ') : workQ'[k].no = b.no => \A g \in c.got \ b.got : ~InBlock(b, workQ'[k], g)
        BY <4>1
      <4> QED  BY <1>4, <1>6, <3>2, <4>1, <4>2, <4>3, <4>4, BlocksKept
    <3> QED  BY <3>4, <3>5
  <2> QED  BY <2>1 DEF WorkInv
<1>9. CoverInv'
  BY <1>1 DEF CoverInv
<1> QED  BY <1>4, <1>6, <1>7, <1>8, <1>9, KeptBusy DEF BlockInv

LEMMA BlockReturns ==
    ASSUME Inv, NEW w \in Workers, Worker(w), NEW i \in 1 .. Len(inflight), NEW d \in ChunkRec, Returns(w, i, d)
    PROVE  BlockInv'
<1>1. /\ wpc[w] = "frame" /\ inflight[i].no = at[w].no
      /\ wpc' = [wpc EXCEPT ![w] = "idle"] /\ at' = [at EXCEPT ![w] = Nowhere]
      /\ UNCHANGED workQ /\ Touched(i, d) /\ Lighter(inflight[i], d) /\ (processing => d.interrupted)
  BY DEF Returns
<1>2. Same(inflight[i], d) /\ d.got = inflight[i].got /\ d.left = inflight[i].left - 1
  BY <1>1 DEF Lighter
<1>3. /\ Numbered /\ inflight'[i] = d /\ d.no = inflight[i].no
      /\ \A j \in 1 .. Len(inflight) : j # i => inflight'[j] = inflight[j] /\ inflight[j].no # d.no
  BY <1>1, <1>2, TouchedNumbered
<1>4. /\ Kept /\ wpc \in [Workers -> {"idle", "frame", "run", "fallback", "done"}] /\ at \in [Workers -> AtRec]
  BY <1>1, <1>3, WorkerKept
<1>5. /\ w \in Busy /\ Busy' = Busy \ {w} /\ \A v \in Busy' : at'[v] = at[v] /\ wpc'[v] = wpc[v] /\ v \in Busy
  BY <1>1, <1>4 DEF Busy
<1>6. BusyKept
  BY <1>5 DEF BusyKept
<1>7. QuitInv'
  <2>1. phase' = phase /\ \A v \in Workers : wpc'[v] # "done" \/ wpc'[v] = wpc[v]
    BY <1>1, <1>4 DEF Kept
  <2>2. phase \notin Torn \ {"pool"}
    BY <1>1 DEF Inv, BlockInv, QuitInv
  <2>3. phase \notin Torn => \A v \in Workers : wpc'[v] # "done"
    BY <2>1 DEF Inv, BlockInv, QuitInv
  <2> QED  BY <1>4, <2>1, <2>2, <2>3, KeptQueue DEF QuitInv
<1>8. WorkInv'
  <2>1. ASSUME NEW j \in 1 .. Len(inflight'), NEW c, c = inflight'[j] PROVE BlocksOf(c)'
    <3>1. j \in 1 .. Len(inflight)
      BY <1>3, <2>1 DEF Numbered
    <3>2. PICK b : b = inflight[j] /\ b \in ChunkRec /\ BlocksOf(b)
      BY <3>1, WorkIs
    <3>3. \A v \in Busy' : at'[v].no = b.no => at'[v] = at[v] /\ (wpc'[v] = "fallback" => FailOK(b, at'[v]))
      BY <1>5, <3>1, <3>2, WorkIs DEF BlocksOf
    <3>4. CASE j # i
      <4>1. b = c
        BY <1>3, <2>1, <3>1, <3>2, <3>4
      <4> QED  BY <1>4, <1>6, <3>1, <3>2, <3>3, <4>1, BlocksSame
    <3>5. CASE j = i
      <4>1. c = d /\ Same(b, c) /\ c \in ChunkRec /\ c.left = b.left - 1 /\ c.got \ b.got = {}
        BY <1>2, <1>3, <2>1, <3>2, <3>5
      <4>2. Cardinality(Owed(b)') <= b.left - 1
        BY <1>1, <1>4, <1>5, <1>6, <3>1, <3>2, <3>5, BlockGone
      <4>3. \A v \in Busy' : at'[v].no = b.no =>
               /\ \A g \in c.got \ b.got : ~InWork(b, at'[v], g)
               /\ at'[v].ci \in Nat /\ at[v].ci <= at'[v].ci /\ at'[v].ci < at'[v].end
               /\ wpc'[v] = "fallback" => FailOK(b, at'[v])
        <5> SUFFICES ASSUME NEW v \in Busy', at'[v].no = b.no
                     PROVE  at'[v].ci \in Nat /\ at[v].ci <= at'[v].ci /\ at'[v].ci < at'[v].end
          BY <3>3, <4>1
        <5>1. at'[v] = at[v] /\ v \in Busy /\ at[v].ci \in Nat
          BY <1>5, QueueTypes
        <5>2. at[v].ci < at[v].end
          BY <3>1, <3>2, <5>1, WorkIs DEF WorkOK
        <5> QED  BY <5>1, <5>2
      <4>4. \A k \in 1 .. Len(workQ') : workQ'[k].no = b.no => \A g \in c.got \ b.got : ~InBlock(b, workQ'[k], g)
        BY <4>1
      <4> QED  BY <1>4, <1>6, <3>2, <4>1, <4>2, <4>3, <4>4, BlocksKept
    <3> QED  BY <3>4, <3>5
  <2> QED  BY <2>1 DEF WorkInv
<1>9. CoverInv'
  <2>1. ASSUME processing', phase' \notin Torn, NEW j \in 1 .. Len(inflight'), NEW c, c = inflight'[j], ~c.interrupted
        PROVE  Covered(c)'
    <3>1. j \in 1 .. Len(inflight) /\ processing /\ phase \notin Torn
      BY <1>3, <1>4, <2>1 DEF Numbered, Kept
    <3>2. j # i
      BY <1>1, <1>3, <2>1, <3>1
    <3>3. c = inflight[j] /\ c.no # at[w].no
      BY <1>1, <1>3, <2>1, <3>1, <3>2
    <3>4. c \in ChunkRec /\ Covered(c) /\ Same(c, c)
      BY <2>1, <3>1, <3>3, WorkIs DEF Inv, BlockInv, CoverInv, Same
    <3>5. \A v \in Busy : at[v].no = c.no => v \in Busy' /\ at'[v] = at[v]
      BY <1>5, <3>3
    <3>6. \A v \in Busy : at[v].no = c.no =>
               \A g \in Nat : InWork(c, at[v], g) =>
                   g \in c.got \/ \E u \in Busy' : at'[u].no = c.no /\ InWork(c, at'[u], g)
      BY <3>5
    <3>7. \A k \in 1 .. Len(workQ) : \E l \in 1 .. Len(workQ') : workQ'[l] = workQ[k]
      BY <1>1
    <3> QED  BY <3>4, <3>6, <3>7, CoverKept
  <2> QED  BY <2>1 DEF CoverInv
<1> QED  BY <1>4, <1>6, <1>7, <1>8, <1>9, KeptBusy DEF BlockInv

\* A model call begins, or fails on a frame that it may fail on.
LEMMA BlockCalls ==
    ASSUME Inv, NEW w \in Workers, Worker(w), NEW x \in {"run", "fallback"}, UNCHANGED <<workQ, at, inflight>>,
           wpc[w] \in {"frame", "run"}, wpc' = [wpc EXCEPT ![w] = x],
           x = "fallback" => \E i \in 1 .. Len(inflight) :
               inflight[i].no = at[w].no /\ at[w].main <= at[w].ci /\ FrameAt(inflight[i], at[w].ci) \in Faulty
    PROVE  BlockInv'
<1>1. /\ Kept /\ wpc \in [Workers -> {"idle", "frame", "run", "fallback", "done"}]
  BY SameNumbered, WorkerKept
<1>2. w \in Busy /\ Busy' = Busy /\ \A v \in Busy : v # w => wpc'[v] = wpc[v]
  BY <1>1 DEF Busy
<1>3. BusyKept
  BY <1>2 DEF BusyKept
<1>4. QuitInv'
  <2>1. phase' = phase /\ \A v \in Workers : wpc'[v] # "done" \/ wpc'[v] = wpc[v]
    BY <1>1 DEF Kept
  <2>2. phase \notin Torn \ {"pool"}
    BY DEF Inv, BlockInv, QuitInv
  <2>3. phase \notin Torn => \A v \in Workers : wpc'[v] # "done"
    BY <2>1 DEF Inv, BlockInv, QuitInv
  <2> QED  BY <1>1, <2>1, <2>2, <2>3, KeptQueue DEF QuitInv
<1>5. WorkInv'
  <2>1. ASSUME NEW j \in 1 .. Len(inflight'), NEW c, c = inflight'[j] PROVE BlocksOf(c)'
    <3>1. j \in 1 .. Len(inflight) /\ c = inflight[j] /\ BlocksOf(c)
      BY <2>1, WorkIs
    <3>2. x = "fallback" /\ at[w].no = c.no => FailOK(c, at[w])
      <4>1. ASSUME x = "fallback", at[w].no = c.no PROVE FailOK(c, at[w])
        <5>1. PICK i \in 1 .. Len(inflight) :
                 inflight[i].no = at[w].no /\ at[w].main <= at[w].ci /\ FrameAt(inflight[i], at[w].ci) \in Faulty
          BY <4>1
        <5>2. j = i
          BY <3>1, <4>1, <5>1, WorkIs
        <5>3. IndexAt(c, at[w].ci) = FrameAt(c, at[w].ci)
          BY <1>2, <3>1, <5>1, <5>2, FrameAtWork
        <5> QED  BY <3>1, <5>1, <5>2, <5>3 DEF FailOK
      <4> QED  BY <4>1
    <3>3. \A v \in Busy' : at'[v].no = c.no => at'[v] = at[v] /\ (wpc'[v] = "fallback" => FailOK(c, at'[v]))
      BY <1>1, <1>2, <3>1, <3>2 DEF BlocksOf
    <3> QED  BY <1>1, <1>3, <3>1, <3>3, BlocksSame
  <2> QED  BY <2>1 DEF WorkInv
<1>6. CoverInv'
  <2>1. ASSUME processing', phase' \notin Torn, NEW j \in 1 .. Len(inflight'), NEW c, c = inflight'[j], ~c.interrupted
        PROVE  Covered(c)'
    <3>1. j \in 1 .. Len(inflight) /\ processing /\ phase \notin Torn /\ c = inflight[j]
      BY <1>1, <2>1 DEF Kept
    <3>2. c \in ChunkRec /\ Covered(c) /\ Same(c, c)
      BY <2>1, <3>1, WorkIs DEF Inv, BlockInv, CoverInv, Same
    <3> QED  BY <1>2, <3>2, CoverKept
  <2> QED  BY <2>1 DEF CoverInv
<1> QED  BY <1>1, <1>3, <1>4, <1>5, <1>6, KeptBusy DEF BlockInv

\* A worker goes on with its block or ends it; the other chunks and workers are left alone.
LEMMA KeepsRest ==
    ASSUME Inv, NEW w \in Workers, Worker(w), NEW i \in 1 .. Len(inflight), NEW d \in ChunkRec, Keeps(w, i, d),
           NEW c, c = inflight[i], BusyKept, BlocksOf(d)', c.got \subseteq d.got,
           \A v \in Busy : v # w => v \in Busy' /\ at'[v] = at[v] /\ wpc'[v] = wpc[v],
           \A g \in Nat : InWork(c, at[w], g) => g \in d.got \/ (w \in Busy' /\ at'[w].no = at[w].no /\ InWork(c, at'[w], g))
    PROVE  BlockInv'
<1>1. /\ wpc[w] \in {"run", "fallback"} /\ inflight[i].no = at[w].no
      /\ UNCHANGED workQ /\ Touched(i, d) /\ Same(c, d) /\ d.interrupted = c.interrupted
      /\ wpc' \in {[wpc EXCEPT ![w] = "idle"], [wpc EXCEPT ![w] = "frame"]}
  BY DEF Keeps
<1>2. /\ Numbered /\ inflight'[i] = d /\ d.no = inflight[i].no
      /\ \A j \in 1 .. Len(inflight) : j # i => inflight'[j] = inflight[j] /\ inflight[j].no # d.no
  BY <1>1, TouchedNumbered
<1>3. /\ Kept /\ wpc \in [Workers -> {"idle", "frame", "run", "fallback", "done"}]
  BY <1>1, <1>2, WorkerKept
<1>4. QuitInv'
  <2>1. phase' = phase /\ \A v \in Workers : wpc'[v] # "done" \/ wpc'[v] = wpc[v]
    BY <1>1, <1>3 DEF Kept
  <2>2. phase \notin Torn \ {"pool"}
    BY <1>1 DEF Inv, BlockInv, QuitInv
  <2>3. phase \notin Torn => \A v \in Workers : wpc'[v] # "done"
    BY <2>1 DEF Inv, BlockInv, QuitInv
  <2> QED  BY <1>3, <2>1, <2>2, <2>3, KeptQueue DEF QuitInv
<1>5. \A v \in Busy' : v \in Busy
  BY DEF BusyKept
<1>6. WorkInv'
  <2>1. ASSUME NEW j \in 1 .. Len(inflight'), NEW x, x = inflight'[j] PROVE BlocksOf(x)'
    <3>1. j \in 1 .. Len(inflight)
      BY <1>2, <2>1 DEF Numbered
    <3>2. CASE j = i
      BY <1>2, <2>1, <3>2
    <3>3. CASE j # i
      <4>1. x = inflight[j] /\ x.no # at[w].no /\ BlocksOf(x)
        BY <1>1, <1>2, <2>1, <3>1, <3>3, WorkIs
      <4>2. \A v \in Busy' : at'[v].no = x.no => at'[v] = at[v] /\ (wpc'[v] = "fallback" => FailOK(x, at'[v]))
        <5> SUFFICES ASSUME NEW v \in Busy', at'[v].no = x.no
                     PROVE  at'[v] = at[v] /\ (wpc'[v] = "fallback" => FailOK(x, at'[v]))
          OBVIOUS
        <5>1. v \in Busy /\ at[v].no = x.no /\ v # w
          BY <4>1 DEF BusyKept
        <5> QED  BY <4>1, <5>1 DEF BlocksOf
      <4> QED  BY <1>3, <3>1, <4>1, <4>2, BlocksSame
    <3> QED  BY <3>2, <3>3
  <2> QED  BY <2>1 DEF WorkInv
<1>7. CoverInv'
  <2>1. ASSUME processing', phase' \notin Torn, NEW j \in 1 .. Len(inflight'), NEW y, y = inflight'[j], ~y.interrupted
        PROVE  Covered(y)'
    <3>1. j \in 1 .. Len(inflight) /\ processing /\ phase \notin Torn
      BY <1>2, <1>3, <2>1 DEF Numbered, Kept
    <3>2. \A k \in 1 .. Len(workQ) : \E l \in 1 .. Len(workQ') : workQ'[l] = workQ[k]
      BY <1>1
    <3>3. CASE j = i
      <4>1. y = d /\ ~c.interrupted /\ c \in ChunkRec /\ Covered(c) /\ c.no = at[w].no
        BY <1>1, <1>2, <2>1, <3>1, <3>3, WorkIs DEF Inv, BlockInv, CoverInv
      <4>2. \A v \in Busy : at[v].no = c.no =>
               \A g \in Nat : InWork(c, at[v], g) =>
                   g \in d.got \/ \E u \in Busy' : at'[u].no = c.no /\ InWork(c, at'[u], g)
        BY <4>1
      <4> QED  BY <1>1, <3>2, <4>1, <4>2, CoverKept
    <3>4. CASE j # i
      <4>1. y = inflight[j] /\ y.no # at[w].no /\ y \in ChunkRec /\ Covered(y) /\ Same(y, y)
        BY <1>1, <1>2, <2>1, <3>1, <3>4, WorkIs DEF Inv, BlockInv, CoverInv, Same
      <4>2. \A v \in Busy : at[v].no = y.no =>
               \A g \in Nat : InWork(y, at[v], g) =>
                   g \in y.got \/ \E u \in Busy' : at'[u].no = y.no /\ InWork(y, at'[u], g)
        BY <4>1
      <4> QED  BY <3>2, <4>1, <4>2, CoverKept
    <3> QED  BY <3>3, <3>4
  <2> QED  BY <2>1 DEF CoverInv
<1> QED  BY <1>3, <1>4, <1>6, <1>7, KeptBusy DEF BlockInv

\* A frame is kept: it leaves the worker's block and enters the results.
LEMMA BlockKeeps ==
    ASSUME Inv, NEW w \in Workers, Worker(w), NEW i \in 1 .. Len(inflight), NEW d \in ChunkRec, Keeps(w, i, d)
    PROVE  BlockInv'
<1>1. /\ wpc[w] \in {"run", "fallback"} /\ inflight[i].no = at[w].no
      /\ UNCHANGED workQ /\ Touched(i, d) /\ Same(inflight[i], d) /\ d.interrupted = inflight[i].interrupted
  BY DEF Keeps
<1>2. /\ Numbered /\ inflight'[i] = d /\ d.no = inflight[i].no
      /\ \A j \in 1 .. Len(inflight) : j # i => inflight'[j] = inflight[j] /\ inflight[j].no # d.no
  BY <1>1, TouchedNumbered
<1>3. /\ Kept /\ wpc \in [Workers -> {"idle", "frame", "run", "fallback", "done"}] /\ at \in [Workers -> AtRec]
  BY <1>1, <1>2, WorkerKept
<1>4. w \in Busy
  BY <1>1 DEF Busy
<1>5. PICK c : c = inflight[i] /\ c \in ChunkRec /\ BlocksOf(c) /\ WorkOK(c, at[w]) /\ c.left \in Nat /\ Cardinality(Owed(c)) <= c.left
  BY <1>1, <1>4, WorkIs
<1>6. PICK p \in Nat, e \in Nat, m \in Nat : p = at[w].ci /\ e = at[w].end /\ m = at[w].main
  <2>1. at[w].ci \in Nat /\ at[w].end \in Nat /\ at[w].main \in Nat
    BY QueueTypes
  <2> QED  BY <2>1
<1>7. PICK n \in Nat, b \in Nat : n = Len(c.carry) /\ b = BaseGlobal(c) /\ c.start = b + n
  BY <1>5, WorkIs
<1>8. n <= m /\ m < e /\ p < e
  BY <1>5, <1>6, <1>7 DEF WorkOK
\* What is new is the frame at hand, and it is in no block that is out afterwards.
<1>9. \A g \in d.got : g \in c.got \/ (m <= p /\ g = b + p)
  BY <1>5, <1>6, <1>7 DEF Keeps, IndexAt
<1>10. c.got \subseteq d.got /\ (m <= p => b + p \in d.got)
  <2>1. \/ p < m /\ d.got = c.got
        \/ m <= p /\ d.got = c.got \cup {b + p}
    BY <1>5, <1>6, <1>7 DEF Keeps, IndexAt
  <2> QED  BY <2>1
<1>11. \A k \in 1 .. Len(workQ') : workQ'[k].no = c.no => \A g \in d.got \ c.got : ~InBlock(c, workQ'[k], g)
  <2> SUFFICES ASSUME NEW k \in 1 .. Len(workQ), workQ[k].no = c.no PROVE ~InBlock(c, workQ[k], b + p)
    BY <1>1, <1>9
  <2>1. e <= n + workQ[k].first
    BY <1>1, <1>4, <1>5, <1>6, <1>7 DEF BlocksOf
  <2>2. PICK f \in Nat : f = workQ[k].first
    <3>1. workQ[k].first \in Nat
      BY QueueTypes
    <3> QED  BY <3>1
  <2>3. ~((b + n) + f <= b + p)
    BY <1>8, <2>1, <2>2
  <2> QED  BY <1>7, <2>2, <2>3 DEF InBlock
<1>12. ASSUME NEW v \in Busy, v # w, at[v].no = c.no PROVE m <= p => ~InWork(c, at[v], b + p)
  <2>1. PICK q \in Nat, r \in Nat : q = at[v].main /\ r = at[v].end
    <3>1. at[v].main \in Nat /\ at[v].end \in Nat
      BY QueueTypes
    <3> QED  BY <3>1
  <2>2. e <= q \/ r <= m
    BY <1>1, <1>4, <1>5, <1>6, <1>12, <2>1 DEF Inv, BlockInv, ApartInv
  <2>3. (b + p) - b = p
    BY <1>6, <1>7
  <2> QED  BY <1>7, <1>8, <2>1, <2>2, <2>3 DEF InWork
<1>13. ASSUME NEW v \in Busy, v # w, at[v].no = c.no
       PROVE  at[v].ci \in Nat /\ at[v].ci < at[v].end /\ (wpc[v] = "fallback" => FailOK(c, at[v]))
  BY <1>5, <1>13, QueueTypes DEF BlocksOf, WorkOK
<1>14. CASE /\ p + 1 = e /\ d.left = c.left - 1
            /\ at' = [at EXCEPT ![w] = Nowhere] /\ wpc' = [wpc EXCEPT ![w] = "idle"]
  <2>1. Busy' = Busy \ {w} /\ \A v \in Busy' : at'[v] = at[v] /\ wpc'[v] = wpc[v] /\ v \in Busy /\ v # w
    BY <1>3, <1>4, <1>14 DEF Busy
  <2>2. BusyKept
    BY <2>1 DEF BusyKept
  <2>3. Cardinality(Owed(c)') <= d.left
    BY <1>1, <1>3, <1>4, <1>5, <1>14, <2>1, <2>2, BlockGone
  <2>4. \A v \in Busy' : at'[v].no = c.no =>
               /\ \A g \in d.got \ c.got : ~InWork(c, at'[v], g)
               /\ at'[v].ci \in Nat /\ at[v].ci <= at'[v].ci /\ at'[v].ci < at'[v].end
               /\ wpc'[v] = "fallback" => FailOK(c, at'[v])
    <3> SUFFICES ASSUME NEW v \in Busy', at'[v].no = c.no
                 PROVE  /\ \A g \in d.got \ c.got : ~InWork(c, at'[v], g)
                        /\ at'[v].ci \in Nat /\ at[v].ci <= at'[v].ci /\ at'[v].ci < at'[v].end
                        /\ wpc'[v] = "fallback" => FailOK(c, at'[v])
      OBVIOUS
    <3>1. at'[v] = at[v] /\ wpc'[v] = wpc[v] /\ v \in Busy /\ v # w /\ at[v].no = c.no
      BY <2>1
    <3>2. \A g \in d.got \ c.got : ~InWork(c, at[v], g)
      BY <1>9, <1>12, <3>1
    <3> QED  BY <1>13, <3>1, <3>2
  <2>5. BlocksOf(d)'
    BY <1>1, <1>3, <1>5, <1>11, <2>2, <2>3, <2>4, BlocksKept
  <2>6. \A g \in Nat : InWork(c, at[w], g) => g \in d.got
    <3> SUFFICES ASSUME NEW g \in Nat, InWork(c, at[w], g) PROVE g \in d.got
      OBVIOUS
    <3>1. m <= g - b /\ p <= g - b /\ g - b < e
      BY <1>6, <1>7 DEF InWork
    <3>2. g = b + p /\ m <= p
      BY <1>14, <3>1
    <3> QED  BY <1>10, <3>2
  <2> QED  BY <1>4, <1>5, <1>10, <2>1, <2>2, <2>5, <2>6, KeepsRest
<1>15. CASE /\ p + 1 # e /\ d.left = c.left
            /\ at' = [at EXCEPT ![w].ci = p + 1] /\ wpc' = [wpc EXCEPT ![w] = "frame"]
  <2>1. /\ Busy' = Busy
        /\ \A v \in Busy : v # w => at'[v] = at[v] /\ wpc'[v] = wpc[v]
        /\ at'[w].no = at[w].no /\ at'[w].main = m /\ at'[w].end = e /\ at'[w].ci = p + 1 /\ wpc'[w] = "frame"
    <3>1. at[w] \in AtRec /\ at'[w] = [at[w] EXCEPT !.ci = p + 1]
      BY <1>3, <1>15
    <3>2. at'[w].no = at[w].no /\ at'[w].main = m /\ at'[w].end = e /\ at'[w].ci = p + 1
      BY <1>6, <3>1 DEF AtRec
    <3> QED  BY <1>3, <1>4, <1>15, <3>2 DEF Busy
  <2>2. BusyKept
    BY <1>6, <2>1 DEF BusyKept
  <2>3. Cardinality(Owed(c)') <= d.left
    <3>1. PICK S : S = Owed(c)'
      OBVIOUS
    <3>2. S \subseteq Owed(c)
      BY <1>3, <2>2, <3>1, OwedKept
    <3> QED  BY <1>5, <1>15, <3>1, <3>2, Fewer
  <2>4. \A v \in Busy' : at'[v].no = c.no =>
               /\ \A g \in d.got \ c.got : ~InWork(c, at'[v], g)
               /\ at'[v].ci \in Nat /\ at[v].ci <= at'[v].ci /\ at'[v].ci < at'[v].end
               /\ wpc'[v] = "fallback" => FailOK(c, at'[v])
    <3> SUFFICES ASSUME NEW v \in Busy', at'[v].no = c.no
                 PROVE  /\ \A g \in d.got \ c.got : ~InWork(c, at'[v], g)
                        /\ at'[v].ci \in Nat /\ at[v].ci <= at'[v].ci /\ at'[v].ci < at'[v].end
                        /\ wpc'[v] = "fallback" => FailOK(c, at'[v])
      OBVIOUS
    <3>1. CASE v = w
      <4>1. ~InWork(c, at'[w], b + p)
        <5>1. ~(p + 1 <= (b + p) - b)
          OBVIOUS
        <5> QED  BY <1>7, <2>1, <5>1 DEF InWork
      <4>2. p + 1 < e
        BY <1>8, <1>15
      <4>3. \A g \in d.got \ c.got : ~InWork(c, at'[v], g)
        BY <1>9, <3>1, <4>1
      <4> QED  BY <1>6, <2>1, <3>1, <4>2, <4>3
    <3>2. CASE v # w
      <4>1. at'[v] = at[v] /\ wpc'[v] = wpc[v] /\ v \in Busy /\ at[v].no = c.no
        BY <2>1, <3>2
      <4>2. \A g \in d.got \ c.got : ~InWork(c, at[v], g)
        BY <1>9, <1>12, <3>2, <4>1
      <4> QED  BY <1>13, <3>2, <4>1, <4>2
    <3> QED  BY <3>1, <3>2
  <2>5. BlocksOf(d)'
    BY <1>1, <1>3, <1>5, <1>11, <2>2, <2>3, <2>4, BlocksKept
  <2>6. \A g \in Nat : InWork(c, at[w], g) => g \in d.got \/ InWork(c, at'[w], g)
    <3> SUFFICES ASSUME NEW g \in Nat, InWork(c, at[w], g), g \notin d.got PROVE InWork(c, at'[w], g)
      OBVIOUS
    <3>1. m <= g - b /\ p <= g - b /\ g - b < e
      BY <1>6, <1>7 DEF InWork
    <3>2. g # b + p
      <4>1. ASSUME g = b + p PROVE FALSE
        <5>1. g - b = p
          BY <4>1
        <5> QED  BY <1>10, <3>1, <4>1, <5>1
      <4> QED  BY <4>1
    <3>3. p + 1 <= g - b
      BY <3>1, <3>2
    <3> QED  BY <1>7, <2>1, <3>1, <3>3 DEF InWork
  <2> QED  BY <1>4, <1>5, <1>10, <2>1, <2>2, <2>5, <2>6, KeepsRest
<1> QED  BY <1>5, <1>6, <1>14, <1>15 DEF Keeps

\* A worker takes a block: what was queued is with a worker now.
LEMMA BlockStarts ==
    ASSUME Inv, NEW w \in Workers, Worker(w), NEW i \in 1 .. Len(inflight), NEW a \in AtRec, Starts(w, i, a)
    PROVE  BlockInv'
<1>1. /\ Takes(w) /\ Head(workQ) # Quit /\ inflight[i].no = Head(workQ).no
      /\ a.no = Head(workQ).no /\ a.main = Len(inflight[i].carry) + Head(workQ).first
      /\ a.end = Len(inflight[i].carry) + Head(workQ).last /\ a.ci <= a.main
      /\ at' = [at EXCEPT ![w] = a] /\ wpc' = [wpc EXCEPT ![w] = "frame"]
      /\ UNCHANGED <<inflight, processing>>
  BY DEF Starts
<1>2. /\ Kept /\ wpc \in [Workers -> {"idle", "frame", "run", "fallback", "done"}] /\ at \in [Workers -> AtRec]
      /\ w \notin Busy /\ 1 \in 1 .. Len(workQ) /\ workQ[1] = Head(workQ)
      /\ \A k \in 1 .. Len(workQ') : workQ'[k] = workQ[k + 1]
      /\ \A k \in 1 .. Len(workQ) : k = 1 \/ \E l \in 1 .. Len(workQ') : workQ'[l] = workQ[k]
  BY <1>1, SameNumbered, WorkerKept
<1>3. Busy' = Busy \cup {w} /\ at'[w] = a /\ wpc'[w] = "frame" /\ \A v \in Busy : v # w /\ at'[v] = at[v] /\ wpc'[v] = wpc[v]
  BY <1>1, <1>2 DEF Busy
<1>4. /\ \A k \in 1 .. Len(workQ') : \E l \in 1 .. Len(workQ) : workQ'[k] = workQ[l]
      /\ \A k \in 1 .. Len(workQ') : workQ'[k] # Quit => \E j \in 1 .. Len(inflight') : inflight'[j].no = workQ'[k].no
      /\ \A k, l \in 1 .. Len(workQ') :
            k < l /\ workQ'[k].no = workQ'[l].no /\ workQ'[k] # Quit => workQ'[k].last <= workQ'[l].first
      /\ phase' \in Torn => \A k \in 1 .. Len(workQ') : workQ'[k] = Quit
      /\ phase' \notin Torn => \A k \in 1 .. Len(workQ') : workQ'[k] # Quit
  BY <1>2, KeptQueue
<1>5. PICK c : c = inflight[i] /\ c \in ChunkRec /\ BlocksOf(c) /\ c.no = workQ[1].no
  BY <1>1, <1>2, WorkIs
<1>6. PICK n \in Nat, b \in Nat : n = Len(c.carry) /\ b = BaseGlobal(c) /\ c.start = b + n
  BY <1>5, WorkIs
<1>7. PICK f \in Nat, t \in Nat : f = workQ[1].first /\ t = workQ[1].last
  <2>1. workQ[1].first \in Nat /\ workQ[1].last \in Nat
    BY <1>2, QueueTypes
  <2> QED  BY <2>1
<1>8. a.no = c.no /\ a.main = n + f /\ a.end = n + t /\ a.ci <= n + f /\ a.ci \in Nat
  BY <1>1, <1>2, <1>5, <1>6, <1>7 DEF AtRec
<1>9. QueuedOK(c, workQ[1])
  BY <1>2, <1>5 DEF BlocksOf
<1>10. f < t /\ t <= Len(c.chunk) /\ Len(c.chunk) \in Nat
  <2>1. Len(c.chunk) \in Nat
    BY <1>5 DEF ChunkRec
  <2> QED  BY <1>7, <1>9, <2>1 DEF QueuedOK
\* The block's frames are the ones the worker has to do.
<1>11. \A g \in Nat : InBlock(c, workQ[1], g) <=> InWork(c, a, g)
  <2> SUFFICES ASSUME NEW g \in Nat PROVE InBlock(c, workQ[1], g) <=> InWork(c, a, g)
    OBVIOUS
  <2>1. InBlock(c, workQ[1], g) <=> (b + n) + f <= g /\ g < (b + n) + t
    BY <1>6, <1>7 DEF InBlock
  <2>2. InWork(c, a, g) <=> n + f <= g - b /\ a.ci <= g - b /\ g - b < n + t
    BY <1>6, <1>8 DEF InWork
  <2>3. PICK q \in Nat : q = a.ci
    BY <1>8
  <2>4. (b + n) + f <= g /\ g < (b + n) + t <=> n + f <= g - b /\ q <= g - b /\ g - b < n + t
    BY <1>8, <2>3
  <2> QED  BY <2>1, <2>2, <2>3, <2>4
<1>12. WorkOK(c, a)
  <2>1. \A g \in c.got : ~InWork(c, a, g)
    <3>1. c.got \subseteq Nat
      BY <1>5 DEF ChunkRec
    <3> QED  BY <1>9, <1>11, <3>1 DEF QueuedOK
  <2>2. PICK q \in Nat, s \in Nat : q = a.ci /\ s = Len(c.chunk)
    BY <1>8, <1>10
  <2>3. n <= n + f /\ n + f < n + t /\ q < n + t /\ n + t <= n + s
    BY <1>8, <1>10, <2>2
  <2> QED  BY <1>6, <1>8, <2>1, <2>2, <2>3 DEF WorkOK
<1>13. \A v \in Busy : at[v].no = c.no => at[v].end <= n + f
  BY <1>2, <1>5, <1>6, <1>7 DEF BlocksOf
<1>14. \A k \in 1 .. Len(workQ') : workQ'[k].no = c.no => n + t <= n + workQ'[k].first
  <2> SUFFICES ASSUME NEW k \in 1 .. Len(workQ'), workQ'[k].no = c.no PROVE n + t <= n + workQ'[k].first
    OBVIOUS
  <2>1. PICK m \in {0, 1} : \A j \in 1 .. Len(workQ') : j + m \in 1 .. Len(workQ) /\ workQ'[j] = workQ[j + m]
    BY <1>2 DEF Kept
  <2>2. k + 1 \in 1 .. Len(workQ)
    <3>1. Len(workQ') = Len(workQ) - 1 /\ Len(workQ) \in Nat
      BY <1>1, QueueTypes, Tails DEF Takes
    <3> QED  BY <3>1
  <2>3. PICK l \in 1 .. Len(workQ) : l = k + 1
    BY <2>2
  <2>4. workQ'[k] = workQ[l] /\ 1 < l
    BY <1>2, <2>3
  <2>5. t <= workQ[l].first
    BY <1>1, <1>2, <1>5, <1>7, <2>4 DEF Inv, BlockInv, ApartInv
  <2>6. workQ[l].first \in Nat
    BY QueueTypes
  <2> QED  BY <2>4, <2>5, <2>6
<1>15. \A j \in 1 .. Len(inflight) : inflight[j].no = c.no => inflight[j] = c
  BY <1>5, WorkIs
<1>16. KnownInv'
  <2>1. \A v \in Busy' : \E j \in 1 .. Len(inflight') : inflight'[j].no = at'[v].no
    BY <1>1, <1>3, <1>5, <1>8 DEF Inv, BlockInv, KnownInv
  <2> QED  BY <1>4, <2>1 DEF KnownInv
<1>17. ApartInv'
  <2>1. ASSUME NEW u \in Busy', NEW v \in Busy', u # v, at'[u].no = at'[v].no
        PROVE  at'[u].end <= at'[v].main \/ at'[v].end <= at'[u].main
    <3>1. CASE u = w
      BY <1>3, <1>8, <1>13, <2>1, <3>1
    <3>2. CASE v = w
      BY <1>3, <1>8, <1>13, <2>1, <3>2
    <3>3. CASE u # w /\ v # w
      BY <1>3, <2>1, <3>3 DEF Inv, BlockInv, ApartInv
    <3> QED  BY <3>1, <3>2, <3>3
  <2> QED  BY <1>4, <2>1 DEF ApartInv
<1>18. phase \notin Torn /\ phase' = phase
  BY <1>1, <1>2 DEF Inv, BlockInv, QuitInv, Kept
<1>19. QuitInv'
  <2>1. \A v \in Workers : wpc'[v] # "done"
    BY <1>1, <1>2, <1>18 DEF Inv, BlockInv, QuitInv
  <2> QED  BY <1>4, <1>18, <2>1 DEF QuitInv
<1>20. WorkInv'
  <2>1. ASSUME NEW j \in 1 .. Len(inflight'), NEW x, x = inflight'[j] PROVE BlocksOf(x)'
    <3>1. j \in 1 .. Len(inflight) /\ x = inflight[j] /\ (x.no = c.no => x = c)
      BY <1>1, <1>15, <2>1
    <3>2. BlocksOf(x) /\ x.left \in Nat /\ Cardinality(Owed(x)) <= x.left
      BY <3>1, WorkIs
    <3>3. \A k \in 1 .. Len(workQ') : workQ'[k].no = x.no => QueuedOK(x, workQ'[k])
      BY <1>4, <3>2 DEF BlocksOf
    <3>4. ASSUME NEW k \in 1 .. Len(workQ'), NEW v \in Busy', workQ'[k].no = x.no, at'[v].no = x.no
          PROVE  at'[v].end <= Len(x.carry) + workQ'[k].first
      <4>1. CASE v = w
        BY <1>3, <1>6, <1>8, <1>14, <3>1, <3>4, <4>1
      <4>2. CASE v # w
        <5>1. PICK l \in 1 .. Len(workQ) : workQ'[k] = workQ[l]
          BY <1>4
        <5> QED  BY <1>3, <3>2, <3>4, <4>2, <5>1 DEF BlocksOf
      <4> QED  BY <4>1, <4>2
    <3>5. ASSUME NEW v \in Busy', at'[v].no = x.no
          PROVE  WorkOK(x, at'[v]) /\ (wpc'[v] = "fallback" => FailOK(x, at'[v]))
      <4>1. CASE v = w
        BY <1>3, <1>8, <1>12, <3>1, <3>5, <4>1
      <4>2. CASE v # w
        BY <1>3, <3>2, <3>5, <4>2 DEF BlocksOf
      <4> QED  BY <4>1, <4>2
    <3>6. Cardinality(Owed(x)') <= x.left
      <4>1. PICK S : S = Owed(x)'
        OBVIOUS
      <4>2. \A k \in 1 .. Len(workQ') : workQ'[k].no = x.no => workQ'[k].first \in Owed(x)
        BY <1>4 DEF Owed
      <4>3. ASSUME NEW v \in Busy', at'[v].no = x.no PROVE at'[v].main - Len(x.carry) \in Owed(x)
        <5>1. CASE v = w
          <6>1. x = c /\ at'[v].main = n + f /\ Len(x.carry) = n
            BY <1>3, <1>6, <1>8, <3>1, <4>3, <5>1
          <6>2. (n + f) - n = f
            OBVIOUS
          <6>3. f \in Owed(x)
            BY <1>2, <1>5, <1>7, <6>1 DEF Owed
          <6> QED  BY <6>1, <6>2, <6>3
        <5>2. CASE v # w
          BY <1>3, <4>3, <5>2 DEF Owed
        <5> QED  BY <5>1, <5>2
      <4>4. S \subseteq Owed(x)
        BY <4>1, <4>2, <4>3 DEF Owed
      <4> QED  BY <3>2, <4>1, <4>4, Fewer
    <3> QED  BY <3>3, <3>4, <3>5, <3>6 DEF BlocksOf
  <2> QED  BY <2>1 DEF WorkInv
<1>21. CoverInv'
  <2>1. ASSUME processing', phase' \notin Torn, NEW j \in 1 .. Len(inflight'), NEW x, x = inflight'[j], ~x.interrupted
        PROVE  Covered(x)'
    <3>1. j \in 1 .. Len(inflight) /\ x = inflight[j] /\ (x.no = c.no => x = c) /\ processing
      BY <1>1, <1>15, <2>1
    <3>2. x \in ChunkRec /\ Covered(x) /\ Same(x, x)
      BY <1>18, <2>1, <3>1, WorkIs DEF Inv, BlockInv, CoverInv, Same
    <3>3. \A k \in 1 .. Len(workQ) : workQ[k].no = x.no =>
               \/ \E l \in 1 .. Len(workQ') : workQ'[l] = workQ[k]
               \/ \E v \in Busy' : at'[v].no = x.no /\ \A g \in Nat : InBlock(x, workQ[k], g) => InWork(x, at'[v], g)
      <4> SUFFICES ASSUME NEW k \in 1 .. Len(workQ), workQ[k].no = x.no, k = 1
                   PROVE  w \in Busy' /\ at'[w].no = x.no /\ \A g \in Nat : InBlock(x, workQ[k], g) => InWork(x, at'[w], g)
        BY <1>2
      <4>1. x = c
        BY <1>5, <3>1
      <4> QED  BY <1>3, <1>8, <1>11, <4>1
    <3>4. \A v \in Busy : at[v].no = x.no =>
               \A g \in Nat : InWork(x, at[v], g) =>
                   g \in x.got \/ \E u \in Busy' : at'[u].no = x.no /\ InWork(x, at'[u], g)
      BY <1>3
    <3> QED  BY <3>2, <3>3, <3>4, CoverKept
  <2> QED  BY <2>1 DEF CoverInv
<1> QED  BY <1>16, <1>17, <1>19, <1>20, <1>21 DEF BlockInv

LEMMA BlockWorker ==
    ASSUME Inv, NEW w \in Workers, Worker(w)
    PROVE  BlockInv'
<1>1. WorkerStep(w)
  BY WorkerSteps
<1>2. CASE Enters(w)
  BY <1>2, BlockCalls DEF Enters
<1>3. ASSUME NEW i \in 1 .. Len(inflight), Fails(w, i) PROVE BlockInv'
  BY <1>3, BlockCalls DEF Fails
<1> QED  BY <1>1, <1>2, <1>3, BlockQuits, BlockDrops, BlockReturns, BlockKeeps, BlockStarts DEF WorkerStep

\* Who is no worker and not the coordinator does not touch blocks.
LEMMA BlockElse ==
    ASSUME Inv, Reader \/ Writer \/ CallBegins \/ CallEnds \/ UNCHANGED vars
    PROVE  BlockInv'
<1>1. /\ UNCHANGED <<workQ, wpc, at, phase, inflight>> /\ (processing' => processing)
  BY ReaderFrame, WriterFrame, CallFrame, Stutter
<1>2. UNCHANGED Busy
  BY <1>1 DEF Busy
<1>3. QuitInv' /\ KnownInv' /\ ApartInv'
  BY <1>1, <1>2 DEF Inv, BlockInv, QuitInv, KnownInv, ApartInv
<1>4. WorkInv'
  BY <1>1, <1>2 DEF Inv, BlockInv, WorkInv, BlocksOf, Owed
<1>5. CoverInv'
  BY <1>1, <1>2 DEF Inv, BlockInv, CoverInv, Covered
<1> QED  BY <1>3, <1>4, <1>5 DEF BlockInv

\* A step of the coordinator that leaves the blocks and the chunks alone.
LEMMA BlockUntouched ==
    ASSUME Inv, UNCHANGED <<workQ, wpc, at, inflight>>, processing' => processing,
           (phase \notin Torn /\ phase' \notin Torn) \/ (phase \in Torn \ {"pool"} /\ phase' \in Torn \ {"pool"})
    PROVE  BlockInv'
<1>1. UNCHANGED Busy
  BY DEF Busy
<1>2. QuitInv' /\ KnownInv' /\ ApartInv'
  BY <1>1 DEF Inv, BlockInv, QuitInv, KnownInv, ApartInv
<1>3. WorkInv'
  BY <1>1 DEF Inv, BlockInv, WorkInv, BlocksOf, Owed
<1>4. CoverInv'
  BY <1>1 DEF Inv, BlockInv, CoverInv, Covered
<1> QED  BY <1>2, <1>3, <1>4 DEF BlockInv

\* The oldest chunk leaves when all its blocks are back, so nobody is left with one.
LEMMA BlockOldest ==
    ASSUME Inv, UNCHANGED <<workQ, wpc, at>>, processing' => processing, phase \notin Torn, phase' \notin Torn,
           inflight # <<>>, Done(inflight[1]), inflight' = Tail(inflight)
    PROVE  BlockInv'
<1>1. UNCHANGED Busy
  BY DEF Busy
<1>2. /\ 1 \in 1 .. Len(inflight) /\ Len(inflight') = Len(inflight) - 1 /\ Len(inflight) \in Nat
      /\ \A j \in 1 .. Len(inflight') : inflight'[j] = inflight[j + 1] /\ j + 1 \in 1 .. Len(inflight)
  BY Oldest, InflightTypes
<1>3. Owed(inflight[1]) = {}
  <2>1. inflight[1].left = 0
    BY DEF Done
  <2> QED  BY <1>2, <2>1, OwedPositive
<1>4. /\ \A k \in 1 .. Len(workQ) : workQ[k].no # inflight[1].no
      /\ \A v \in Busy : at[v].no # inflight[1].no
  BY <1>3 DEF Owed
<1>5. \A i \in 1 .. Len(inflight) : i = 1 \/ \E j \in 1 .. Len(inflight') : inflight'[j] = inflight[i]
  <2> SUFFICES ASSUME NEW i \in 1 .. Len(inflight), i # 1 PROVE \E j \in 1 .. Len(inflight') : inflight'[j] = inflight[i]
    OBVIOUS
  <2>1. i - 1 \in 1 .. Len(inflight') /\ (i - 1) + 1 = i
    BY <1>2
  <2>2. PICK j \in 1 .. Len(inflight') : j + 1 = i
    BY <2>1
  <2> QED  BY <1>2, <2>2
<1>6. KnownInv'
  <2>1. ASSUME NEW k \in 1 .. Len(workQ), workQ[k] # Quit PROVE \E j \in 1 .. Len(inflight') : inflight'[j].no = workQ[k].no
    <3>1. PICK i \in 1 .. Len(inflight) : inflight[i].no = workQ[k].no
      BY <2>1 DEF Inv, BlockInv, KnownInv
    <3>2. PICK j \in 1 .. Len(inflight') : inflight'[j] = inflight[i]
      BY <1>4, <1>5, <3>1
    <3> QED  BY <3>1, <3>2
  <2>2. ASSUME NEW v \in Busy PROVE \E j \in 1 .. Len(inflight') : inflight'[j].no = at[v].no
    <3>1. PICK i \in 1 .. Len(inflight) : inflight[i].no = at[v].no
      BY <2>2 DEF Inv, BlockInv, KnownInv
    <3>2. PICK j \in 1 .. Len(inflight') : inflight'[j] = inflight[i]
      BY <1>4, <1>5, <3>1
    <3> QED  BY <3>1, <3>2
  <2> QED  BY <1>1, <2>1, <2>2 DEF KnownInv
<1>7. QuitInv' /\ ApartInv'
  BY <1>1 DEF Inv, BlockInv, QuitInv, ApartInv
<1>8. WorkInv'
  <2>1. ASSUME NEW j \in 1 .. Len(inflight'), NEW c, c = inflight'[j] PROVE BlocksOf(c)'
    <3>1. PICK i \in 1 .. Len(inflight) : c = inflight[i]
      BY <1>2, <2>1
    <3>2. BlocksOf(c)
      BY <3>1, WorkIs
    <3> QED  BY <1>1, <3>2 DEF BlocksOf, Owed
  <2> QED  BY <2>1 DEF WorkInv
<1>9. CoverInv'
  <2>1. ASSUME processing', NEW j \in 1 .. Len(inflight'), NEW c, c = inflight'[j], ~c.interrupted PROVE Covered(c)'
    <3>1. PICK i \in 1 .. Len(inflight) : c = inflight[i]
      BY <1>2, <2>1
    <3>2. Covered(c)
      BY <2>1, <3>1 DEF Inv, BlockInv, CoverInv
    <3> QED  BY <1>1, <3>2 DEF Covered
  <2> QED  BY <2>1 DEF CoverInv
<1> QED  BY <1>6, <1>7, <1>8, <1>9 DEF BlockInv

\* A chunk is laid out in blocks that cover it; they are queued behind the others.
LEMMA BlockDispatch ==
    ASSUME Inv, Dispatch
    PROVE  BlockInv'
<1>1. PICK c \in ChunkRec :
              /\ ChunkOK(c) /\ c.no = chunkNo /\ c.start = chunkStart /\ c.chunk = Head(prefetch) /\ c.carry = carry
              /\ c.got = {} /\ c.left = Len(Blocks(Head(prefetch))) /\ ~c.interrupted
              /\ inflight' = Append(inflight, c)
  BY DispatchIs
<1>2. /\ phase = "top" /\ UNCHANGED <<phase, wpc, at, processing>> /\ workQ' = workQ \o Blocks(Head(prefetch))
      /\ processing /\ prefetch # <<>> /\ Head(prefetch) # EndOfStream
  BY DEF Dispatch, outsideVars, flagVars, workerVars
<1>3. Head(prefetch) \in Seq(Int) /\ Len(Head(prefetch)) \in Nat \ {0}
  BY <1>2, NextChunk
<1>4. PICK h : h = Head(prefetch)
  OBVIOUS
<1>5. /\ Blocks(h) \in Seq(BlockRec) /\ Len(Blocks(h)) \in 1 .. Len(h)
      /\ \A l \in 1 .. Len(Blocks(h)) : /\ Blocks(h)[l] \in BlockRec /\ Blocks(h)[l] # Quit /\ Blocks(h)[l].no = chunkNo
                                        /\ Blocks(h)[l].first < Blocks(h)[l].last /\ Blocks(h)[l].last <= Len(h)
      /\ \A k, l \in 1 .. Len(Blocks(h)) : k < l => Blocks(h)[k].last <= Blocks(h)[l].first
      /\ \A p \in 0 .. Len(h) - 1 : \E l \in 1 .. Len(Blocks(h)) : Blocks(h)[l].first <= p /\ p < Blocks(h)[l].last
  BY <1>3, <1>4, BlocksAre
<1>6. PICK bs : bs = Blocks(h)
  OBVIOUS
<1>7. /\ workQ \in Seq(BlockRec \cup {Quit}) /\ Len(workQ) \in Nat
      /\ bs \in Seq(BlockRec \cup {Quit})
  <2>1. \A l \in 1 .. Len(bs) : bs[l] \in BlockRec \cup {Quit}
    BY <1>5, <1>6
  <2>2. bs \in Seq(BlockRec)
    BY <1>5, <1>6
  <2>3. bs \in Seq(BlockRec \cup {Quit})
    BY <2>1, <2>2, SeqDef
  <2> QED  BY <2>3, QueueTypes
<1>8. PICK n \in Nat, m \in Nat : n = Len(workQ) /\ m = Len(bs)
  BY <1>7, Empty
<1>9. /\ Len(workQ') = n + m /\ workQ' = workQ \o bs
      /\ \A k \in 1 .. n + m : workQ'[k] = IF k <= n THEN workQ[k] ELSE bs[k - n]
  BY <1>2, <1>4, <1>6, <1>7, <1>8, ConcatProperties
<1>10. \A k \in 1 .. Len(workQ') :
          \/ k \in 1 .. n /\ workQ'[k] = workQ[k]
          \/ \E l \in 1 .. m : k = n + l /\ workQ'[k] = bs[l]
  <2> SUFFICES ASSUME NEW k \in 1 .. n + m
               PROVE  \/ k \in 1 .. n /\ workQ'[k] = workQ[k]
                      \/ \E l \in 1 .. m : k = n + l /\ workQ'[k] = bs[l]
    BY <1>9
  <2>1. CASE k <= n
    BY <1>9, <2>1
  <2>2. CASE ~(k <= n)
    <3>1. k - n \in 1 .. m /\ k = n + (k - n)
      BY <2>2
    <3> QED  BY <1>9, <2>2, <3>1
  <2> QED  BY <2>1, <2>2
<1>11. /\ \A k \in 1 .. n : k \in 1 .. Len(workQ') /\ workQ'[k] = workQ[k]
       /\ \A l \in 1 .. m : n + l \in 1 .. Len(workQ') /\ workQ'[n + l] = bs[l]
  <2>1. \A l \in 1 .. m : n + l \in 1 .. n + m /\ ~(n + l <= n) /\ (n + l) - n = l
    OBVIOUS
  <2> QED  BY <1>9, <2>1
<1>12. \A l \in 1 .. m : /\ bs[l].no = chunkNo /\ bs[l] # Quit /\ bs[l].first \in Nat /\ bs[l].last \in Nat
                         /\ bs[l].first < bs[l].last /\ bs[l].last <= Len(h)
  <2>1. \A l \in 1 .. m : bs[l] \in BlockRec
    BY <1>5, <1>6, <1>8
  <2> QED  BY <1>5, <1>6, <1>8, <2>1 DEF BlockRec
\* Nobody has a block of the new chunk yet.
<1>13. chunkNo \in Nat /\ \A i \in 1 .. Len(inflight) : inflight[i].no < chunkNo /\ inflight[i].no \in Nat /\ inflight[i].no # chunkNo
  <2>1. chunkNo \in Nat /\ \A i \in 1 .. Len(inflight) : inflight[i].no < chunkNo /\ inflight[i].no \in Nat
    BY CoordIs, WorkIs DEF Inv, ShapeInv
  <2> QED  BY <2>1
<1>14. \A k \in 1 .. n : workQ[k].no # chunkNo /\ workQ[k] # Quit
  BY <1>2, <1>8, <1>13 DEF Inv, BlockInv, KnownInv, QuitInv, Torn
<1>15. \A v \in Busy : at[v].no # chunkNo
  BY <1>13 DEF Inv, BlockInv, KnownInv
<1>16. UNCHANGED Busy
  BY <1>2 DEF Busy
<1>17. /\ Len(inflight') = Len(inflight) + 1 /\ inflight'[Len(inflight) + 1] = c /\ Len(inflight) \in Nat
       /\ \A i \in 1 .. Len(inflight) : inflight'[i] = inflight[i] /\ i \in 1 .. Len(inflight')
       /\ \A j \in 1 .. Len(inflight') : j \in 1 .. Len(inflight) \/ j = Len(inflight) + 1
       /\ Len(inflight) + 1 \in 1 .. Len(inflight')
  <2>1. inflight \in Seq(ChunkRec) /\ Len(inflight) \in Nat
    BY InflightTypes
  <2>2. /\ Len(inflight') = Len(inflight) + 1 /\ inflight'[Len(inflight) + 1] = c
        /\ \A i \in 1 .. Len(inflight) : inflight'[i] = inflight[i]
    BY <1>1, <2>1, Appends
  <2> QED  BY <2>1, <2>2
<1>18. QuitInv'
  BY <1>2, <1>10, <1>12, <1>14 DEF Inv, BlockInv, QuitInv, Torn
<1>19. KnownInv'
  <2>1. \A k \in 1 .. Len(workQ') : \E i \in 1 .. Len(inflight') : inflight'[i].no = workQ'[k].no
    <3> SUFFICES ASSUME NEW k \in 1 .. Len(workQ') PROVE \E i \in 1 .. Len(inflight') : inflight'[i].no = workQ'[k].no
      OBVIOUS
    <3>1. CASE k \in 1 .. n /\ workQ'[k] = workQ[k]
      <4>1. \E i \in 1 .. Len(inflight) : inflight[i].no = workQ[k].no
        BY <1>8, <1>14, <3>1 DEF Inv, BlockInv, KnownInv
      <4> QED  BY <1>17, <3>1, <4>1
    <3>2. CASE \E l \in 1 .. m : workQ'[k] = bs[l]
      BY <1>1, <1>12, <1>17, <3>2
    <3> QED  BY <1>10, <3>1, <3>2
  <2>2. \A v \in Busy' : \E i \in 1 .. Len(inflight') : inflight'[i].no = at'[v].no
    BY <1>2, <1>16, <1>17 DEF Inv, BlockInv, KnownInv
  <2> QED  BY <2>1, <2>2 DEF KnownInv
<1>20. ApartInv'
  <2>1. ASSUME NEW k \in 1 .. Len(workQ'), NEW l \in 1 .. Len(workQ'), k < l, workQ'[k].no = workQ'[l].no
        PROVE  workQ'[k].last <= workQ'[l].first
    <3>1. CASE k \in 1 .. n /\ workQ'[k] = workQ[k]
      <4>1. workQ'[l].no # chunkNo
        BY <1>14, <2>1, <3>1
      <4>2. l \in 1 .. n /\ workQ'[l] = workQ[l]
        BY <1>10, <1>12, <4>1
      <4> QED  BY <1>8, <1>14, <2>1, <3>1, <4>2 DEF Inv, BlockInv, ApartInv
    <3>2. ASSUME NEW x \in 1 .. m, k = n + x, workQ'[k] = bs[x] PROVE workQ'[k].last <= workQ'[l].first
      <4>1. workQ'[l].no = chunkNo
        BY <1>12, <2>1, <3>2
      <4>2. PICK y \in 1 .. m : l = n + y /\ workQ'[l] = bs[y]
        BY <1>10, <1>14, <4>1
      <4>3. x < y
        BY <2>1, <3>2, <4>2
      <4> QED  BY <1>5, <1>6, <1>8, <3>2, <4>2, <4>3
    <3> QED  BY <1>10, <3>1, <3>2
  <2>2. \A w, v \in Busy' : w # v /\ at'[w].no = at'[v].no => at'[w].end <= at'[v].main \/ at'[v].end <= at'[w].main
    BY <1>2, <1>16 DEF Inv, BlockInv, ApartInv
  <2> QED  BY <2>1, <2>2 DEF ApartInv
<1>21. BlocksOf(c)'
  <2>1. \A k \in 1 .. Len(workQ') : workQ'[k].no = c.no => QueuedOK(c, workQ'[k])
    <3> SUFFICES ASSUME NEW k \in 1 .. Len(workQ'), workQ'[k].no = c.no PROVE QueuedOK(c, workQ'[k])
      OBVIOUS
    <3>1. PICK l \in 1 .. m : workQ'[k] = bs[l]
      BY <1>1, <1>10, <1>14
    <3> QED  BY <1>1, <1>4, <1>12, <3>1 DEF QueuedOK
  <2>2. \A v \in Busy' : at'[v].no # c.no
    BY <1>1, <1>2, <1>15, <1>16
  <2>3. Cardinality(Owed(c)') <= c.left
    <3>1. PICK S : S = Owed(c)'
      OBVIOUS
    <3> DEFINE f == [l \in 1 .. m |-> bs[l].first]
               T == {f[l] : l \in 1 .. m}
    <3>2. S \subseteq T
      <4>1. \A k \in 1 .. Len(workQ') : workQ'[k].no = c.no => workQ'[k].first \in T
        <5> SUFFICES ASSUME NEW k \in 1 .. Len(workQ'), workQ'[k].no = c.no PROVE workQ'[k].first \in T
          OBVIOUS
        <5>1. PICK l \in 1 .. m : workQ'[k] = bs[l]
          BY <1>1, <1>10, <1>14
        <5>2. f[l] = workQ'[k].first
          BY <5>1
        <5> QED  BY <5>2
      <4> HIDE DEF T
      <4> QED  BY <2>2, <3>1, <4>1 DEF Owed
    <3>3. f \in Surjection(1 .. m, T)
      BY DEF Surjection
    <3> HIDE DEF f, T
    <3>4. IsFiniteSet(1 .. m) /\ Cardinality(1 .. m) = m
      <4>1. IsFiniteSet(1 .. m) /\ Cardinality(1 .. m) = IF 1 > m THEN 0 ELSE m - 1 + 1
        BY FS_Interval
      <4> QED  BY <4>1
    <3>5. IsFiniteSet(T) /\ Cardinality(T) <= m
      BY <3>3, <3>4, FS_Surjection
    <3>6. Cardinality(S) <= Cardinality(T) /\ Cardinality(S) \in Nat /\ Cardinality(T) \in Nat
      BY <3>2, <3>5, FS_Subset, FS_CardinalityType
    <3> QED  BY <1>1, <1>4, <1>6, <1>8, <3>1, <3>5, <3>6
  <2> QED  BY <2>1, <2>2, <2>3 DEF BlocksOf
<1>22. WorkInv'
  <2>1. ASSUME NEW j \in 1 .. Len(inflight'), NEW x, x = inflight'[j] PROVE BlocksOf(x)'
    <3>1. CASE j = Len(inflight) + 1
      BY <1>17, <1>21, <2>1, <3>1
    <3>2. CASE j \in 1 .. Len(inflight)
      <4>1. x = inflight[j] /\ BlocksOf(x) /\ x.no # chunkNo /\ x.left \in Nat /\ Cardinality(Owed(x)) <= x.left
        BY <1>13, <1>17, <2>1, <3>2, WorkIs
      <4>2. \A k \in 1 .. Len(workQ') : workQ'[k].no = x.no => k \in 1 .. Len(workQ) /\ workQ'[k] = workQ[k]
        BY <1>8, <1>10, <1>12, <4>1
      <4>3. Cardinality(Owed(x)') <= x.left
        <5>1. PICK S : S = Owed(x)'
          OBVIOUS
        <5>2. S \subseteq Owed(x)
          BY <1>2, <1>16, <4>2, <5>1 DEF Owed
        <5> QED  BY <4>1, <5>1, <5>2, Fewer
      <4> QED  BY <1>2, <1>16, <4>1, <4>2, <4>3 DEF BlocksOf
    <3> QED  BY <1>17, <3>1, <3>2
  <2> QED  BY <2>1 DEF WorkInv
<1>23. CoverInv'
  <2>1. ASSUME NEW j \in 1 .. Len(inflight'), NEW x, x = inflight'[j], ~x.interrupted PROVE Covered(x)'
    <3>1. CASE j = Len(inflight) + 1
      <4>1. x = c /\ c.start \in Nat /\ Len(c.chunk) \in Nat /\ EndOf(c) = c.start + Len(c.chunk)
        BY <1>1, <1>17, <2>1, <3>1, ChunkIs
      <4>2. ASSUME NEW g \in c.start .. EndOf(c) - 1
            PROVE  \E k \in 1 .. Len(workQ') : workQ'[k].no = c.no /\ InBlock(c, workQ'[k], g)
        <5>1. g - c.start \in 0 .. Len(h) - 1
          BY <1>1, <1>4, <4>1, <4>2
        <5>2. PICK l \in 1 .. m : bs[l].first <= g - c.start /\ g - c.start < bs[l].last
          BY <1>5, <1>6, <1>8, <5>1
        <5>3. c.start + bs[l].first <= g /\ g < c.start + bs[l].last
          BY SMTT(30), <1>12, <4>1, <5>2
        <5>4. workQ'[n + l] = bs[l] /\ n + l \in 1 .. Len(workQ')
          BY <1>11
        <5>5. InBlock(c, workQ'[n + l], g) /\ workQ'[n + l].no = c.no
          BY <1>1, <1>12, <5>3, <5>4 DEF InBlock
        <5> QED  BY <5>4, <5>5
      <4> QED  BY <4>1, <4>2 DEF Covered
    <3>2. CASE j \in 1 .. Len(inflight)
      <4>1. x = inflight[j] /\ x \in ChunkRec /\ Covered(x) /\ Same(x, x)
        BY <1>2, <1>17, <2>1, <3>2, WorkIs DEF Inv, BlockInv, CoverInv, Torn, Same
      <4>2. \A k \in 1 .. Len(workQ) : \E l \in 1 .. Len(workQ') : workQ'[l] = workQ[k]
        BY <1>8, <1>11
      <4> QED  BY <1>2, <1>16, <4>1, <4>2, CoverKept
    <3> QED  BY <1>17, <3>1, <3>2
  <2> QED  BY <2>1 DEF CoverInv
<1> QED  BY <1>18, <1>19, <1>20, <1>22, <1>23 DEF BlockInv

\* The pool is told to quit, and joined: nobody has a block any more.
LEMMA BlockTorn ==
    ASSUME Inv, Leave \/ JoinPool
    PROVE  BlockInv'
<1>1. UNCHANGED <<wpc, at>> /\ UNCHANGED Busy /\ phase' \in Torn
  BY DEF Leave, JoinPool, workerVars, outsideVars, Busy, Torn
<1>2. \A k \in 1 .. Len(workQ') : workQ'[k] = Quit
  <2>1. CASE Leave
    <3>1. workQ' = [w \in 1 .. Width |-> Quit] /\ Width \in Nat
      BY <2>1, Sizes DEF Leave
    <3>2. Len(workQ') = Width
      BY <3>1
    <3> QED  BY <3>1, <3>2
  <2>2. CASE JoinPool
    BY <2>2 DEF JoinPool, Inv, BlockInv, QuitInv, Torn
  <2> QED  BY <2>1, <2>2
<1>3. QuitInv'
  BY <1>1, <1>2 DEF QuitInv, Leave, JoinPool, Torn
<1>4. ApartInv'
  BY <1>1, <1>2 DEF ApartInv, Inv, BlockInv
<1>5. CoverInv'
  BY <1>1 DEF CoverInv
<1>6. CASE JoinPool
  <2>1. Busy = {} /\ inflight' = <<>> /\ Len(<<>>) = 0
    BY <1>6 DEF JoinPool, Busy
  <2>2. KnownInv'
    BY <1>1, <1>2, <2>1 DEF KnownInv
  <2>3. WorkInv'
    BY <2>1 DEF WorkInv
  <2> QED  BY <1>3, <1>4, <1>5, <2>2, <2>3 DEF BlockInv
<1>7. CASE Leave
  <2>1. UNCHANGED inflight
    BY <1>7 DEF Leave
  <2>2. KnownInv'
    BY <1>1, <1>2, <2>1 DEF KnownInv, Inv, BlockInv
  <2>3. ASSUME NEW j \in 1 .. Len(inflight'), NEW c, c = inflight'[j] PROVE BlocksOf(c)'
    <3>1. c \in ChunkRec /\ BlocksOf(c) /\ c.no \in Nat /\ c.left \in Nat /\ Cardinality(Owed(c)) <= c.left
      BY <2>1, <2>3, WorkIs
    <3>2. \A k \in 1 .. Len(workQ') : workQ'[k].no # c.no
      <4>1. Quit.no = -1
        BY DEF Quit
      <4> QED  BY <1>2, <3>1, <4>1
    <3>3. PICK S : S = Owed(c)'
      OBVIOUS
    <3>4. S \subseteq Owed(c)
      BY <1>1, <3>2, <3>3 DEF Owed
    <3>5. Cardinality(S) <= c.left
      BY <3>1, <3>4, Fewer
    <3> QED  BY <1>1, <3>1, <3>2, <3>3, <3>5 DEF BlocksOf
  <2>4. WorkInv'
    BY <2>3 DEF WorkInv
  <2> QED  BY <1>3, <1>4, <1>5, <2>2, <2>4 DEF BlockInv
<1> QED  BY <1>6, <1>7

LEMMA BlockCoord ==
    ASSUME Inv, Coordinator
    PROVE  BlockInv'
<1>1. processing' => processing
  BY CoordFrame
<1> USE DEF outsideVars, workerVars, queueVars
<1>2. CASE TakeEnd \/ NothingLeft \/ Drained \/ AllRetired \/ Boundary \/ Enqueue \/ EnqueuePart \/ Requeue
  <2>1. UNCHANGED <<workQ, wpc, at, inflight>>
    BY <1>2 DEF TakeEnd, NothingLeft, Drained, AllRetired, Boundary, Enqueue, EnqueuePart, Requeue
  <2>2. back \in {"top", "drain"}
    BY CoordIs
  <2>3. phase \notin Torn /\ phase' \notin Torn
    BY <1>2, <2>2 DEF TakeEnd, NothingLeft, Drained, AllRetired, Boundary, Enqueue, EnqueuePart, Requeue, Torn
  <2> QED  BY <1>1, <2>1, <2>3, BlockUntouched
<1>3. CASE StopWriter \/ JoinWriter \/ JoinReader
  <2>1. UNCHANGED <<workQ, wpc, at, inflight>> /\ phase \in Torn \ {"pool"} /\ phase' \in Torn \ {"pool"}
    BY <1>3 DEF StopWriter, JoinWriter, JoinReader, Torn
  <2> QED  BY <1>1, <2>1, BlockUntouched
<1>4. CASE Settle \/ Retire
  <2>1. UNCHANGED <<workQ, wpc, at>> /\ phase \notin Torn /\ phase' \notin Torn /\ inflight # <<>> /\ Done(Head(inflight))
    BY <1>4 DEF Settle, Retire, Torn
  <2>2. inflight' = inflight \/ inflight' = Tail(inflight)
    BY <1>4 DEF Settle, Retire
  <2>3. Head(inflight) = inflight[1]
    BY <2>1, Oldest
  <2> QED  BY <1>1, <2>1, <2>2, <2>3, BlockUntouched, BlockOldest
<1> QED  BY <1>2, <1>3, <1>4, BlockTorn, BlockDispatch DEF Coordinator

LEMMA BlockStep == Inv /\ [Next]_vars => BlockInv'
BY BlockWorker, BlockCoord, BlockElse DEF Next

-----------------------------------------------------------------------------
(* What is handed over to the encoder.                                      *)

Leaving == Torn \cup {"leave"}

LEMMA Splits == ASSUME NEW a \in Nat, NEW e \in Nat, NEW h \in 0 .. e - 1 PROVE h \in 0 .. a - 1 \/ h \in a .. e - 1
OBVIOUS

LEMMA PutIs ==
    ASSUME NEW i
    PROVE  /\ \A g : g \in Put(i) <=>
                  g \in written \/ g \in DOMAIN load \/ (g \in Frames /\ \E j \in 1 .. i : g \in DOMAIN writeQ[j])
           /\ \A g : g \in Put(i)' <=>
                  g \in written' \/ g \in DOMAIN load' \/ (g \in Frames /\ \E j \in 1 .. i : g \in DOMAIN writeQ'[j])
BY DEF Put

\* Nothing is written twice, and what is written comes next.
LEMMA EncodedStep == Inv /\ [Next]_vars => EncodedInv'
<1> SUFFICES ASSUME Inv, [Next]_vars PROVE EncodedInv'
  OBVIOUS
<1>1. EncodedInv /\ encoded \in Seq(Nat)
  BY DEF Inv, Types, WriterTypes
<1>2. CASE UNCHANGED <<encoded, written>>
  BY <1>1, <1>2 DEF EncodedInv
<1>3. ASSUME WriteFrame, NEW gi, gi = Least(DOMAIN load), gi \notin written, processing,
             encoded' = Append(encoded, load[gi]), written' = written \cup {gi}
      PROVE  EncodedInv'
  <2>1. load # NoFrames /\ xpc = "write"
    BY <1>3 DEF WriteFrame
  <2>2. gi \in DOMAIN load /\ gi \in Nat /\ load[gi] = gi /\ \A h \in DOMAIN load : gi <= h
    BY <1>3, <2>1, LoadIs, Sizes
  <2>3. Going
    BY <1>3, <2>1 DEF Going, Inv, Phased, ErrorInv
  <2>4. Downward(Put(0))
    <3>1. Len(writeQ) \in Nat
      BY Empty DEF Inv, Types, WriterTypes
    <3>2. 0 \in 0 .. Len(writeQ)
      BY <3>1
    <3> QED  BY <2>3, <3>2 DEF Inv, HandInv
  <2>5. \A h \in 0 .. gi : h \in written \/ h \in DOMAIN load
    <3>1. gi \in Put(0)
      BY <2>2, PutIs
    <3>2. \A h \in 0 .. gi : h \in Put(0)
      BY <2>4, <3>1 DEF Downward
    <3> QED  BY <3>2, PutIs
  <2>6. PICK n \in Nat : n = Len(encoded) /\ written = 0 .. n - 1
    BY <1>1 DEF EncodedInv
  <2>7. gi = n
    <3>1. gi >= n
      BY <1>3, <2>2, <2>6
    <3>2. n \in 0 .. gi /\ n \notin written
      BY <2>2, <2>6, <3>1
    <3>3. gi <= n
      BY <2>2, <2>5, <3>2
    <3> QED  BY <2>2, <3>1, <3>3
  <2>8. /\ Len(encoded') = n + 1 /\ encoded'[n + 1] = n /\ \A i \in 1 .. n : encoded'[i] = encoded[i]
    BY <1>1, <1>3, <2>2, <2>6, <2>7, Appends
  <2>9. \A i \in 1 .. Len(encoded') : encoded'[i] = i - 1
    <3> SUFFICES ASSUME NEW i \in 1 .. n + 1 PROVE encoded'[i] = i - 1
      BY <2>8
    <3>1. i = n + 1 \/ i \in 1 .. n
      OBVIOUS
    <3> QED  BY <1>1, <2>6, <2>8, <3>1 DEF EncodedInv
  <2>10. written' = 0 .. n
    BY <1>3, <2>6, <2>7
  <2>11. Len(encoded') - 1 = n
    BY <2>8
  <2> QED  BY <2>9, <2>10, <2>11 DEF EncodedInv
<1>4. CASE Writer
  <2>1. UNCHANGED <<encoded, written>> \/ WriteFrame
    BY <1>4 DEF Writer, TakeItem, AtSafePoint, Unpark
  <2> QED  BY <1>2, <1>3, <2>1 DEF WriteFrame
<1> QED  BY <1>2, <1>4, ReaderFrame, WorkerFrame, CoordFrame, CallFrame, Stutter DEF Next

\* A step that hands nothing new over.
LEMMA HandMoves ==
    ASSUME HandInv,
           Going' =>
              /\ Going /\ Handed' = Handed
              /\ \A i \in 0 .. Len(writeQ') : Put(i)' = Handed \/ \E k \in 0 .. Len(writeQ) : Put(i)' = Put(k)
              /\ \/ phase \notin Leaving /\ phase' \notin Leaving /\ Due' = Due
                 \/ phase \in Leaving /\ phase' \in Leaving /\ inflight' \in {inflight, <<>>} /\ retry' = retry
                 \/ phase \notin Leaving /\ phase' \in Leaving /\ Due = TotalFrames /\ inflight' = <<>> /\ retry' = <<>>
    PROVE  HandInv'
<1> SUFFICES ASSUME Going' PROVE HandInv'
  BY DEF HandInv
<1>1. /\ \A i \in 0 .. Len(writeQ) : Downward(Put(i))
      /\ Downward(Handed)
      /\ phase \notin Leaving => 0 .. Due - 1 \subseteq Handed
      /\ phase \in Leaving => inflight = <<>> /\ retry = <<>> /\ 0 .. TotalFrames - 1 \subseteq Handed
  BY DEF HandInv, Leaving
<1>2. \A S : S = Handed \/ (\E k \in 0 .. Len(writeQ) : S = Put(k)) => Downward(S)
  BY <1>1
<1>3. \A i \in 0 .. Len(writeQ') : Downward(Put(i)')
  BY <1>2
<1>4. Downward(Handed')
  BY <1>1
<1>5. phase' \notin Leaving => 0 .. Due' - 1 \subseteq Handed'
  BY <1>1
<1>6. phase' \in Leaving => inflight' = <<>> /\ retry' = <<>> /\ 0 .. TotalFrames - 1 \subseteq Handed'
  BY <1>1
<1> QED  BY <1>3, <1>4, <1>5, <1>6 DEF HandInv, Leaving, Downward

\* A step that takes a chunk in hand: the part of it that is done follows on what is handed over.
LEMMA HandTakes ==
    ASSUME Inv, Going' => Going, UNCHANGED <<writeQ, written, load>>, hand = NoChunk,
           phase \notin Leaving, phase' \notin Leaving,
           NEW a \in Nat, a = Due, hand'.got \subseteq Nat,
           \A g \in hand'.got : \A h \in a .. g : h \in hand'.got,
           NEW e \in Nat, e = Due', \A h \in a .. e - 1 : h \in hand'.got
    PROVE  HandInv'
<1> SUFFICES ASSUME Going' PROVE HandInv'
  BY DEF HandInv
<1>1. /\ \A i \in 0 .. Len(writeQ) : Downward(Put(i))
      /\ Downward(Handed) /\ 0 .. a - 1 \subseteq Handed
  BY DEF Inv, HandInv, Leaving
<1>2. Handed = Put(Len(writeQ)) /\ Handed' = Put(Len(writeQ)) \cup hand'.got
  BY NoChunkIs DEF Handed, Put
<1>3. PICK P, G : P = Put(Len(writeQ)) /\ G = hand'.got
  OBVIOUS
<1>4. \A i \in 0 .. Len(writeQ') : Downward(Put(i)')
  BY <1>1 DEF Put
<1>5. Downward(P \cup G)
  <2> SUFFICES ASSUME NEW g \in P \cup G, NEW h \in 0 .. g PROVE h \in P \cup G
    BY DEF Downward
  <2>1. CASE g \in P
    BY <1>1, <1>2, <1>3, <2>1 DEF Downward
  <2>2. CASE g \in G
    <3>1. g \in Nat /\ (h \in 0 .. a - 1 \/ h \in a .. g)
      BY <1>3, <2>2
    <3> QED  BY <1>1, <1>2, <1>3, <2>2, <3>1
  <2> QED  BY <2>1, <2>2
<1>6. 0 .. e - 1 \subseteq P \cup G
  <2> SUFFICES ASSUME NEW h \in 0 .. e - 1 PROVE h \in P \cup G
    OBVIOUS
  <2>1. h \in 0 .. a - 1 \/ h \in a .. e - 1
    BY Splits
  <2> QED  BY <1>1, <1>2, <1>3, <2>1
<1>7. Handed' = P \cup G
  BY <1>2, <1>3
<1> QED  BY <1>4, <1>5, <1>6, <1>7 DEF HandInv, Leaving, Downward

\* A run that somebody stopped, or that lost its writer, does not come back.
LEMMA GoingBack == Inv /\ [Next]_vars => (Going' => Going)
<1> SUFFICES ASSUME Inv, [Next]_vars, Going' PROVE Going
  OBVIOUS
<1>1. processing
  BY ReaderFrame, WorkerFrame, CoordFrame, WriterFrame, CallFrame, Stutter DEF Next, Going
<1>2. CASE UNCHANGED writerError
  BY <1>1, <1>2 DEF Going
<1>3. CASE Writer
  <2>1. UNCHANGED writerError \/ writerError'
    BY <1>3 DEF Writer, TakeItem, WriteFrame, AtSafePoint, Unpark
  <2> QED  BY <1>2, <2>1 DEF Going
<1> QED  BY <1>2, <1>3, ReaderFrame, WorkerFrame, CoordFrame, CallFrame, Stutter DEF Next

\* The writer moves what is put from the queue to the encoder.
LEMMA HandWriter ==
    ASSUME Inv, Writer
    PROVE  HandInv'
<1>1. UNCHANGED <<processing, phase, inflight, hand, retry, chunkStart>>
  BY WriterFrame
<1>2. Going' => Going
  BY <1>1, GoingBack DEF Next
<1>3. UNCHANGED Due
  BY <1>1 DEF Due, First
<1>4. HandInv /\ writeQ \in Seq(Items \cup {EndOfWrites}) /\ load \in Items
  BY DEF Inv, Types, WriterTypes
<1>5. ASSUME Going' => /\ Len(writeQ') \in Nat
                       /\ \A i \in 0 .. Len(writeQ') : \E k \in 0 .. Len(writeQ) : Put(i)' = Put(k)
                       /\ Put(Len(writeQ))' = Put(Len(writeQ))
      PROVE  HandInv'
  <2>1. Going' => Handed' = Handed
    BY <1>1, <1>5 DEF Handed
  <2> QED  BY <1>1, <1>2, <1>3, <1>4, <1>5, <2>1, HandMoves
<1>6. CASE UNCHANGED <<writeQ, written, load>>
  <2>1. /\ \A i : Put(i)' = Put(i)
        /\ Put(Len(writeQ))' = Put(Len(writeQ))
    BY <1>6 DEF Put
  <2>2. Len(writeQ) \in Nat
    BY <1>4, Empty
  <2> QED  BY <1>5, <1>6, <2>1, <2>2
<1>7. CASE /\ writeQ # <<>> /\ writeQ' = Tail(writeQ) /\ load = NoFrames /\ UNCHANGED written
           /\ IF Head(writeQ) = EndOfWrites THEN UNCHANGED load ELSE load' = Head(writeQ)
  <2>1. /\ Len(writeQ) \in Nat \ {0} /\ Len(writeQ') = Len(writeQ) - 1 /\ writeQ[1] = Head(writeQ)
        /\ \A j \in 1 .. Len(writeQ') : writeQ'[j] = writeQ[j + 1]
    BY <1>4, <1>7, Tails
  <2>2. DOMAIN load' = {g \in Frames : g \in DOMAIN writeQ[1]}
    <3>1. CASE Head(writeQ) = EndOfWrites
      <4>1. DOMAIN load' = {} /\ DOMAIN EndOfWrites = {-1} /\ -1 \notin Frames
        BY <1>7, <3>1, ItemsAre, ItemSizes, Sizes
      <4> QED  BY <2>1, <3>1, <4>1
    <3>2. CASE Head(writeQ) # EndOfWrites
      <4>1. Head(writeQ) \in Items
        BY <1>4, <1>7, <3>2, Tails
      <4> QED  BY <1>7, <2>1, <3>2, <4>1, ItemsAre
    <3> QED  BY <3>1, <3>2
  <2>3. ASSUME NEW i \in 0 .. Len(writeQ') PROVE Put(i)' = Put(i + 1)
    <3>1. DOMAIN load = {} /\ written' = written
      BY <1>7, ItemsAre
    <3>2. ASSUME NEW g PROVE (\E j \in 1 .. i + 1 : g \in DOMAIN writeQ[j]) <=>
                             g \in DOMAIN writeQ[1] \/ \E j \in 1 .. i : g \in DOMAIN writeQ'[j]
      <4>1. \A j \in 1 .. i : j + 1 \in 1 .. i + 1 /\ writeQ'[j] = writeQ[j + 1]
        BY <2>1
      <4>2. ASSUME NEW j \in 1 .. i + 1, j # 1 PROVE \E k \in 1 .. i : writeQ[j] = writeQ'[k]
        <5>1. PICK k \in 1 .. i : j = k + 1
          <6>1. j - 1 \in 1 .. i /\ j = (j - 1) + 1
            BY <4>2
          <6> QED  BY <6>1
        <5> QED  BY <4>1, <5>1
      <4>3. 1 \in 1 .. i + 1
        OBVIOUS
      <4> QED  BY <4>1, <4>2, <4>3
    <3>3. ASSUME NEW g PROVE g \in Put(i)' <=> g \in Put(i + 1)
      BY <2>2, <3>1, <3>2, PutIs
    <3> QED  BY <3>3 DEF Put
  <2>4. \A i \in 0 .. Len(writeQ') : i + 1 \in 0 .. Len(writeQ)
    BY <2>1
  <2>5. Len(writeQ') + 1 = Len(writeQ) /\ Len(writeQ') \in Nat /\ Len(writeQ') \in 0 .. Len(writeQ')
    BY <2>1
  <2>6. Put(Len(writeQ))' = Put(Len(writeQ))
    <3>1. PICK n : n = Len(writeQ')
      OBVIOUS
    <3>2. Put(n)' = Put(n + 1) /\ n + 1 = Len(writeQ)
      BY <2>3, <2>5, <3>1
    <3>3. Put(Len(writeQ))' = Put(n)'
      BY <3>1 DEF Put
    <3> QED  BY <3>2, <3>3
  <2> QED  BY <1>5, <2>3, <2>4, <2>5, <2>6
<1>8. ASSUME NEW gi, gi = Least(DOMAIN load), load # NoFrames, UNCHANGED writeQ, gi \in written',
             load' = Without(load, gi), written' \in {written, written \cup {gi}}
      PROVE  HandInv'
  <2>1. DOMAIN load' = DOMAIN load \ {gi} /\ gi \in DOMAIN load
    BY <1>8, LoadIs
  <2>2. /\ \A i : Put(i)' = Put(i)
        /\ Put(Len(writeQ))' = Put(Len(writeQ))
    BY <1>8, <2>1 DEF Put
  <2>3. Len(writeQ) \in Nat
    BY <1>4, Empty
  <2> QED  BY <1>5, <1>8, <2>2, <2>3
<1>9. CASE WriteFrame
  <2>1. PICK gi : gi = Least(DOMAIN load)
    OBVIOUS
  <2>2. UNCHANGED writeQ /\ load # NoFrames
    BY <1>9 DEF WriteFrame, queueVars
  <2>3. \/ Going' => gi \in written' /\ load' = Without(load, gi) /\ written' \in {written, written \cup {gi}}
        \/ ~Going'
    BY <1>1, <1>9, <2>1 DEF WriteFrame, Going
  <2>4. CASE ~Going'
    BY <2>4 DEF HandInv
  <2> QED  BY <1>8, <2>1, <2>2, <2>3, <2>4
<1>10. CASE TakeItem
  BY <1>6, <1>7, <1>10 DEF TakeItem
<1>11. CASE AtSafePoint \/ Unpark
  BY <1>6, <1>11 DEF AtSafePoint, Unpark, queueVars
<1> QED  BY <1>9, <1>10, <1>11 DEF Writer

LEMMA HandElse ==
    ASSUME Inv, Reader \/ (\E w \in Workers : Worker(w)) \/ CallBegins \/ CallEnds \/ UNCHANGED vars
    PROVE  HandInv'
<1>1. UNCHANGED <<phase, hand, retry, chunkStart, writeQ, written, load, writerError>> /\ (processing' => processing)
  BY ReaderFrame, WorkerFrame, CallFrame, Stutter
<1>2. HandInv /\ (Going' => Going)
  BY <1>1 DEF Inv, Going
<1>3. /\ \A e : First(inflight', e) = First(inflight, e)
      /\ inflight = <<>> => inflight' = <<>>
  <2>1. CASE UNCHANGED inflight
    BY <2>1 DEF First
  <2>2. CASE \E i \in 1 .. Len(inflight), d \in ChunkRec : Touched(i, d) /\ Same(inflight[i], d)
    <3>1. inflight # <<>>
      BY <2>2, InflightTypes, Empty
    <3> QED  BY <2>2, <3>1, ChainTouched
  <2> QED  BY <2>1, <2>2, WorkerChunk, ReaderFrame, CallFrame, Stutter
<1>4. UNCHANGED Due
  BY <1>1, <1>3 DEF Due
<1>5. UNCHANGED Handed /\ \A i : Put(i)' = Put(i)
  BY <1>1 DEF Handed, Put
<1>6. phase \in Leaving => inflight' = inflight \/ ~Going
  BY <1>2, <1>3 DEF HandInv, Leaving
<1> QED  BY <1>1, <1>2, <1>4, <1>5, <1>6, HandMoves

\* All the frames of a chunk that is done and was not interrupted have a result.
LEMMA DoneComplete ==
    ASSUME Inv, Going, phase \notin Torn, inflight # <<>>, Done(inflight[1])
    PROVE  /\ ~inflight[1].interrupted => \A g \in inflight[1].start .. EndOf(inflight[1]) - 1 : g \in inflight[1].got
           /\ inflight[1].got \subseteq Nat
<1>1. 1 \in 1 .. Len(inflight) /\ inflight[1] \in ChunkRec
  BY Oldest
<1>2. Owed(inflight[1]) = {}
  <2>1. inflight[1].left = 0
    BY DEF Done
  <2> QED  BY <1>1, <2>1, OwedPositive
<1>3. /\ \A k \in 1 .. Len(workQ) : workQ[k].no # inflight[1].no
      /\ \A v \in Busy : at[v].no # inflight[1].no
  BY <1>2 DEF Owed
<1>4. ~inflight[1].interrupted => Covered(inflight[1])
  BY <1>1 DEF Inv, BlockInv, CoverInv, Going
<1>5. inflight[1].got \subseteq Nat
  BY <1>1 DEF ChunkRec
<1> QED  BY <1>3, <1>4, <1>5 DEF Covered

\* Nothing waits and nothing is in flight: the grid has come to the end of the clip.
LEMMA AllLaid ==
    ASSUME Inv, processing, phase \in {"top", "drain"}, prefetch = <<>>, inflight = <<>>, rpc = "done"
    PROVE  Due = TotalFrames /\ retry = <<>>
<1>1. retry = <<>> /\ hand = NoChunk
  BY CoordIs DEF Inv, Phased, LoopInv, Handing
<1>2. Due = chunkStart
  BY <1>1, NoChunkIs DEF Due, First
<1>3. held = <<>> /\ Len(<<>>) = 0
  BY DEF Inv, Phased, MarkInv
<1>4. Waiting(prefetch) = <<>>
  BY EndMark DEF Waiting, Marked
<1>5. Pieces(<<>>, chunkStart, decoded - 0) /\ decoded = TotalFrames
  BY <1>3, <1>4 DEF Inv, GridInv, Late
<1>6. chunkStart = decoded - 0
  BY <1>5, PiecesEmpty
<1> QED  BY <1>1, <1>2, <1>5, <1>6, Sizes

LEMMA HandLaid ==
    ASSUME Inv, Dispatch \/ TakeEnd \/ NothingLeft \/ Drained
    PROVE  HandInv'
<1>1. Coordinator /\ Going' => Going
  BY GoingBack DEF Next, Coordinator
<1>2. UNCHANGED <<writeQ, written, load, hand, retry, writerError, processing>>
  BY DEF Dispatch, TakeEnd, NothingLeft, Drained, outsideVars, writerVars, settleVars, queueVars, flagVars
<1>3. UNCHANGED Handed /\ \A i : Put(i)' = Put(i)
  BY <1>2 DEF Handed, Put
<1>4. HandInv /\ LoopInv /\ MarkInv
  BY DEF Inv, Phased
<1>5. phase \in {"top", "drain"} /\ phase \notin Leaving /\ retry = <<>> /\ hand = NoChunk
  <2>1. phase \in {"top", "drain"}
    BY DEF Dispatch, TakeEnd, NothingLeft, Drained
  <2> QED  BY <1>4, <2>1, CoordIs DEF LoopInv, Leaving, Torn, Handing
<1>6. /\ Due = First(inflight, chunkStart)
      /\ Due' = First(inflight', chunkStart')
  BY <1>2, <1>5, NoChunkIs DEF Due
<1>7. ASSUME Going' => \/ phase' \notin Leaving /\ Due' = Due
                       \/ phase' \in Leaving /\ Due = TotalFrames /\ inflight' = <<>>
      PROVE  HandInv'
  BY <1>1, <1>2, <1>3, <1>4, <1>5, <1>7, HandMoves DEF Coordinator
<1>8. CASE Dispatch
  <2>1. PICK c \in ChunkRec : c.start = chunkStart /\ inflight' = Append(inflight, c)
    BY <1>8, DispatchIs
  <2>2. phase' \notin Leaving
    BY <1>5, <1>8 DEF Dispatch
  <2>3. CASE Going
    <3>1. Chain(inflight, chunkStart) /\ inflight \in Seq(ChunkRec)
      BY <2>3, CoordIs DEF Inv, GridInv, Going
    <3>2. First(inflight', chunkStart') = First(inflight, chunkStart)
      BY <2>1, <3>1, ChainAppend
    <3> QED  BY <1>6, <1>7, <2>2, <3>2
  <2> QED  BY <1>1, <1>7, <1>8, <2>3 DEF Coordinator
<1>9. CASE TakeEnd
  <2>1. UNCHANGED <<inflight, chunkStart>> /\ (phase' = "drain" \/ ~processing)
    BY <1>9 DEF TakeEnd
  <2>2. Due' = Due /\ "drain" \notin Leaving
    BY <1>6, <2>1 DEF Leaving, Torn
  <2> QED  BY <1>2, <1>7, <2>1, <2>2 DEF Going
<1>10. CASE NothingLeft
  <2>1. prefetch = <<>> /\ inflight = <<>> /\ inflight' = <<>> /\ phase' = "leave" /\ (~processing \/ rpc = "done")
    BY <1>10 DEF NothingLeft, queueVars
  <2>2. processing => Due = TotalFrames
    BY <1>5, <2>1, AllLaid
  <2> QED  BY <1>2, <1>7, <2>1, <2>2 DEF Going, Leaving
<1>11. CASE Drained
  <2>1. /\ phase = "drain" /\ back = "drain" /\ inflight = <<>> /\ inflight' = <<>> /\ UNCHANGED chunkStart
        /\ (phase' = "top" \/ (phase' = "leave" /\ ~requeued))
    BY <1>4, <1>11 DEF Drained, LoopInv, gridVars
  <2>2. CASE phase' = "top"
    <3>1. Due' = Due /\ "top" \notin Leaving
      BY <1>6, <2>1 DEF Leaving, Torn
    <3> QED  BY <1>7, <2>2, <3>1
  <2>3. CASE phase' = "leave" /\ ~requeued
    <3>1. prefetch = <<>> /\ rpc = "done"
      BY <1>4, <2>1, <2>3 DEF MarkInv
    <3>2. processing => Due = TotalFrames
      BY <1>5, <2>1, <3>1, AllLaid
    <3> QED  BY <1>2, <1>7, <2>1, <2>3, <3>2 DEF Going, Leaving
  <2> QED  BY <2>1, <2>2, <2>3
<1> QED  BY <1>8, <1>9, <1>10, <1>11

LEMMA HandSettle ==
    ASSUME Inv, Settle
    PROVE  HandInv'
<1>1. Going' => Going
  BY GoingBack DEF Next, Coordinator
<1>2. UNCHANGED <<writeQ, written, load, processing, chunkStart, workerError>>
  BY DEF Settle, outsideVars, writerVars, flagVars, gridVars, workerVars
<1>3. HandInv /\ LoopInv /\ ErrorInv
  BY DEF Inv, Phased
<1>4. /\ phase \in {"top", "drain"} /\ phase \notin Leaving /\ phase \notin Torn /\ retry = <<>> /\ hand = NoChunk
      /\ inflight # <<>> /\ inflight[1] = Head(inflight) /\ Done(inflight[1])
  <2>1. phase \in {"top", "drain"} /\ inflight # <<>> /\ Done(Head(inflight))
    BY DEF Settle
  <2> QED  BY <1>3, <2>1, CoordIs, Oldest DEF LoopInv, Leaving, Torn, Handing
<1>5. SUFFICES ASSUME Going' PROVE HandInv'
  BY DEF HandInv
<1>6. Going /\ processing /\ ~workerError
  BY <1>1, <1>3, <1>5 DEF Going, ErrorInv
<1>7. CASE phase' = "retire" /\ retry' = <<>> /\ UNCHANGED <<hand, inflight>>
  <2>1. UNCHANGED Handed /\ \A i : Put(i)' = Put(i)
    BY <1>2, <1>7 DEF Handed, Put
  <2>2. Due' = Due /\ phase' \notin Leaving
    BY <1>2, <1>4, <1>7 DEF Due, Leaving, Torn
  <2> QED  BY <1>2, <1>3, <1>4, <1>6, <2>1, <2>2, HandMoves
<1>8. CASE /\ phase' = "enqueue" /\ hand' = Head(inflight) /\ inflight' = Tail(inflight) /\ UNCHANGED retry
           /\ ~Head(inflight).interrupted
  <2>1. phase' \notin Leaving
    BY <1>8 DEF Leaving, Torn
  <2>2. PICK c \in ChunkRec : c = inflight[1] /\ ChunkOK(c) /\ c = hand' /\ ~c.interrupted
    BY <1>4, <1>8, Oldest
  <2>3. PICK a \in Nat, e \in Nat : a = c.start /\ e = EndOf(c)
    BY <2>2, Places
  <2>4. /\ c.got \subseteq Nat /\ \A g \in a .. e - 1 : g \in c.got
        /\ c.got \subseteq a .. e - 1
    BY <1>4, <1>6, <2>2, <2>3, DoneComplete DEF ChunkOK
  <2>5. inflight \in Seq(ChunkRec) /\ Chain(inflight, chunkStart)
    BY <1>4, <1>6, CoordIs DEF Inv, GridInv
  <2>6. First(inflight, chunkStart) = a /\ First(inflight', chunkStart) = e
    BY <1>4, <1>8, <2>2, <2>3, <2>5, ChainTail
  <2>7. a = Due /\ e = Due'
    BY <1>2, <1>4, <1>8, <2>2, <2>6, NoChunkIs DEF Due
  <2>8. \A g \in hand'.got : \A h \in a .. g : h \in hand'.got
    <3> SUFFICES ASSUME NEW g \in c.got, NEW h \in a .. g PROVE h \in c.got
      BY <2>2
    <3>1. g \in a .. e - 1
      BY <2>4
    <3>2. h \in a .. e - 1
      BY <3>1
    <3> QED  BY <2>4, <3>2
  <2> QED  BY <1>1, <1>2, <1>4, <2>1, <2>2, <2>4, <2>7, <2>8, HandTakes
<1> QED  BY <1>6, <1>7, <1>8 DEF Settle

\* What is put in the queue adds its frames to what is put, and nothing else.
LEMMA PutAppend ==
    ASSUME Inv, NEW x, writeQ' = Append(writeQ, x), UNCHANGED <<written, load>>,
           NEW G, \A g : g \in G <=> g \in Frames /\ g \in DOMAIN x
    PROVE  /\ Len(writeQ) \in Nat /\ Len(writeQ') = Len(writeQ) + 1
           /\ \A i \in 0 .. Len(writeQ) : Put(i)' = Put(i)
           /\ Put(Len(writeQ))' = Put(Len(writeQ)) \cup G
           /\ \A i \in 0 .. Len(writeQ') : i \in 0 .. Len(writeQ) \/ Put(i)' = Put(Len(writeQ)) \cup G
<1>1. writeQ \in Seq(Items \cup {EndOfWrites})
  BY DEF Inv, Types, WriterTypes
<1>2. PICK n \in Nat : n = Len(writeQ)
  BY <1>1, Empty
<1>3. /\ Len(writeQ') = n + 1 /\ writeQ'[n + 1] = x /\ \A i \in 1 .. n : writeQ'[i] = writeQ[i]
  <2>1. PICK S : S = Items \cup {EndOfWrites} \cup {x}
    OBVIOUS
  <2>2. writeQ \in Seq(S) /\ x \in S
    BY <1>1, <2>1, SeqDef
  <2> QED  BY <1>2, <2>2, Appends
<1>4. \A i \in 0 .. n : Put(i)' = Put(i)
  BY <1>3 DEF Put
<1>5. Put(n + 1)' = Put(n) \cup G
  <2>1. ASSUME NEW g PROVE (\E j \in 1 .. n + 1 : g \in DOMAIN writeQ'[j]) <=>
                           g \in DOMAIN x \/ \E j \in 1 .. n : g \in DOMAIN writeQ[j]
    <3>1. \A j \in 1 .. n + 1 : j = n + 1 \/ j \in 1 .. n
      OBVIOUS
    <3>2. n + 1 \in 1 .. n + 1 /\ \A j \in 1 .. n : j \in 1 .. n + 1
      OBVIOUS
    <3> QED  BY <1>3, <3>1, <3>2
  <2>2. ASSUME NEW g PROVE g \in Put(n + 1)' <=> g \in Put(n) \cup G
    BY <2>1, PutIs
  <2> QED  BY <2>2 DEF Put
<1>6. Put(Len(writeQ))' = Put(n + 1)'
  BY <1>3 DEF Put
<1>7. \A i \in 0 .. n + 1 : i \in 0 .. n \/ i = n + 1
  OBVIOUS
<1> QED  BY <1>2, <1>3, <1>4, <1>5, <1>6, <1>7

LEMMA HandEnqueue ==
    ASSUME Inv, Enqueue \/ EnqueuePart
    PROVE  HandInv'
<1>1. Going' => Going
  BY GoingBack DEF Next, Coordinator
<1>2. UNCHANGED <<written, load, processing, chunkStart, writerError, inflight>> /\ hand' = NoChunk
  BY DEF Enqueue, EnqueuePart, outsideVars, writerVars, flagVars, gridVars
<1>3. HandInv /\ LoopInv
  BY DEF Inv, Phased
<1>4. Handing /\ phase \in {"enqueue", "part"} /\ phase \notin Leaving /\ retry = <<>>
  <2>1. phase \in {"enqueue", "part"}
    BY DEF Enqueue, EnqueuePart
  <2> QED  BY <1>3, <2>1 DEF Handing, Leaving, Torn, LoopInv
<1>5. SUFFICES ASSUME Going' PROVE HandInv'
  BY DEF HandInv
<1>6. Going /\ processing /\ ~writerError
  BY <1>1, <1>5 DEF Going
<1>7. DOMAIN Results(hand) = hand.got /\ hand.got \subseteq Frames /\ ~NotEnqueued
  BY <1>4, <1>6, HandOver, Numbers DEF NotEnqueued
<1>8. writeQ' = Append(writeQ, Results(hand))
  BY <1>7 DEF Enqueue, EnqueuePart, Enqueued
<1>9. PICK x, G : x = Results(hand) /\ G = hand.got /\ writeQ' = Append(writeQ, x) /\ \A g : g \in G <=> g \in Frames /\ g \in DOMAIN x
  BY <1>7, <1>8
<1>10. /\ Len(writeQ) \in Nat
       /\ \A i \in 0 .. Len(writeQ) : Put(i)' = Put(i)
       /\ Put(Len(writeQ))' = Put(Len(writeQ)) \cup G
       /\ \A i \in 0 .. Len(writeQ') : i \in 0 .. Len(writeQ) \/ Put(i)' = Put(Len(writeQ)) \cup G
  BY <1>2, <1>9, PutAppend
<1>11. Handed = Put(Len(writeQ)) \cup G /\ Handed' = Handed
  BY <1>2, <1>9, <1>10, NoChunkIs DEF Handed
<1>12. Due' = Due /\ phase' \notin Leaving
  <2>1. back \in {"top", "drain"}
    BY CoordIs
  <2>2. CASE Enqueue
    <3>1. UNCHANGED retry /\ ~hand.interrupted
      BY <1>3, <2>2 DEF Enqueue, LoopInv
    <3>2. phase' \in {"boundary", "top", "drain"}
      BY <1>6, <1>7, <2>1, <2>2 DEF Enqueue
    <3> QED  BY <1>2, <1>4, <3>1, <3>2, NoChunkIs DEF Due, Leaving, Torn
  <2>3. CASE EnqueuePart
    <3>1. phase' = "retire"
      BY <1>7, <2>3 DEF EnqueuePart
    <3>2. CASE hand.interrupted
      <4>1. retry' = Append(retry, hand)
        BY <1>6, <1>7, <2>3, <3>2 DEF EnqueuePart
      <4>2. hand \in ChunkRec /\ retry \in Seq(ChunkRec) /\ Len(retry) = 0
        BY <1>4, CoordIs
      <4>3. retry' # <<>> /\ retry'[1] = hand
        BY <4>1, <4>2, Appends
      <4>4. Due' = hand.start
        BY <4>3 DEF Due
      <4>5. Due = hand.start
        BY <1>4, <3>2 DEF Due
      <4> QED  BY <3>1, <4>4, <4>5 DEF Leaving, Torn
    <3>3. CASE ~hand.interrupted
      <4>1. retry' = retry
        BY <1>7, <2>3, <3>3 DEF EnqueuePart
      <4> QED  BY <1>2, <1>4, <3>1, <3>3, <4>1, NoChunkIs DEF Due, Leaving, Torn
    <3> QED  BY <3>2, <3>3
  <2> QED  BY <2>2, <2>3
<1> QED  BY <1>3, <1>4, <1>6, <1>10, <1>11, <1>12, HandMoves

LEMMA HandRetire ==
    ASSUME Inv, Retire
    PROVE  HandInv'
<1>1. Going' => Going
  BY GoingBack DEF Next, Coordinator
<1>2. UNCHANGED <<writeQ, written, load, processing, chunkStart, workerError>> /\ phase = "retire"
  BY DEF Retire, outsideVars, writerVars, flagVars, gridVars, workerVars
<1>3. HandInv /\ LoopInv /\ ErrorInv
  BY DEF Inv, Phased
<1>4. phase \notin Leaving /\ phase \notin Torn /\ hand = NoChunk
  BY <1>2, CoordIs DEF Leaving, Torn, Handing
<1>5. SUFFICES ASSUME Going' PROVE HandInv'
  BY DEF HandInv
<1>6. Going /\ processing /\ ~workerError
  BY <1>1, <1>3, <1>5 DEF Going, ErrorInv
<1>7. /\ inflight # <<>> /\ Done(inflight[1]) /\ inflight \in Seq(ChunkRec) /\ retry \in Seq(ChunkRec)
      /\ inflight[1] \in ChunkRec /\ ChunkOK(inflight[1])
  BY RetireIs, Oldest, CoordIs
<1>8. CASE UNCHANGED <<hand, phase>> /\ bad /\ retry' = Append(retry, inflight[1])
  <2>1. retry # <<>>
    BY <1>2, <1>3, <1>8 DEF LoopInv
  <2>2. 1 \in 1 .. Len(retry)
    BY <1>7, <2>1, Tails
  <2>3. retry' # <<>> /\ retry'[1] = retry[1]
    BY <1>7, <1>8, <2>2, Appends
  <2>4. Due' = Due
    BY <2>1, <2>3 DEF Due
  <2>5. UNCHANGED Handed /\ \A i : Put(i)' = Put(i)
    BY <1>2, <1>8 DEF Handed, Put
  <2> QED  BY <1>2, <1>3, <1>4, <1>6, <1>8, <2>4, <2>5, HandMoves
<1>9. CASE /\ UNCHANGED retry /\ inflight' = Tail(inflight) /\ ~bad /\ phase' = "part"
           /\ hand'.got = (IF inflight[1].interrupted /\ processing THEN Contiguous(inflight[1]) ELSE inflight[1].got)
           /\ hand' \in ChunkRec /\ Same(inflight[1], hand') /\ hand'.interrupted = inflight[1].interrupted
  <2>1. phase' \notin Leaving /\ retry = <<>>
    BY <1>2, <1>3, <1>9 DEF Leaving, Torn, LoopInv
  <2>2. PICK c \in ChunkRec : c = inflight[1] /\ ChunkOK(c)
    BY <1>7
  <2>3. PICK a \in Nat, e \in Nat : a = c.start /\ e = EndOf(c) /\ c.got \subseteq a .. e - 1
    BY <2>2, Places DEF ChunkOK
  <2>4. c.got \subseteq Nat
    BY DEF ChunkRec
  <2>5. Chain(inflight, chunkStart)
    BY <1>2, <1>6 DEF Inv, GridInv
  <2>6. First(inflight, chunkStart) = a /\ First(inflight', chunkStart) = e
    BY <1>7, <1>9, <2>2, <2>3, <2>5, ChainTail
  <2>7. a = Due
    BY <1>4, <2>1, <2>6, NoChunkIs DEF Due
  <2>8. CASE c.interrupted
    <3>1. hand'.got = Contiguous(c) /\ hand'.start = a /\ hand'.interrupted
      BY <1>6, <1>9, <2>2, <2>3, <2>8 DEF Same
    <3>2. a = Due'
      BY <1>9, <2>1, <3>1 DEF Due
    <3>3. \A g \in hand'.got : \A h \in a .. g : h \in hand'.got
      <4> SUFFICES ASSUME NEW g \in Contiguous(c), NEW h \in a .. g PROVE h \in Contiguous(c)
        BY <3>1
      <4>1. g \in c.got /\ g \in Nat /\ \A k \in a .. g : k \in c.got
        BY <2>3, <2>4 DEF Contiguous
      <4>2. \A k \in a .. h : k \in a .. g
        BY <4>1
      <4> QED  BY <2>3, <4>1, <4>2 DEF Contiguous
    <3>4. hand'.got \subseteq Nat
      BY <2>4, <3>1 DEF Contiguous
    <3>5. \A h \in a .. a - 1 : h \in hand'.got
      OBVIOUS
    <3> QED  BY <1>1, <1>2, <1>4, <2>1, <2>7, <3>2, <3>3, <3>4, <3>5, HandTakes
  <2>9. CASE ~c.interrupted
    <3>1. hand'.got = c.got /\ ~hand'.interrupted
      BY <1>9, <2>2, <2>9
    <3>2. e = Due'
      BY <1>2, <1>9, <2>1, <2>6, <3>1 DEF Due
    <3>3. \A g \in a .. e - 1 : g \in c.got
      BY <1>4, <1>6, <1>7, <2>2, <2>3, <2>9, DoneComplete
    <3>4. \A g \in hand'.got : \A h \in a .. g : h \in hand'.got
      <4> SUFFICES ASSUME NEW g \in c.got, NEW h \in a .. g PROVE h \in c.got
        BY <3>1
      <4>1. g \in a .. e - 1
        BY <2>3
      <4>2. h \in a .. e - 1
        BY <4>1
      <4> QED  BY <3>3, <4>2
    <3>5. hand'.got \subseteq Nat /\ \A h \in a .. e - 1 : h \in hand'.got
      BY <2>4, <3>1, <3>3
    <3> QED  BY <1>1, <1>2, <1>4, <2>1, <2>7, <3>2, <3>4, <3>5, HandTakes
  <2> QED  BY <2>8, <2>9
<1>10. CASE workerError
  BY <1>6, <1>10
<1> QED  BY <1>8, <1>9, <1>10, RetireIs

LEMMA HandRest ==
    ASSUME Inv, AllRetired \/ Boundary \/ Requeue \/ Leave \/ JoinPool \/ StopWriter \/ JoinWriter \/ JoinReader
    PROVE  HandInv'
<1>1. Going' => Going
  BY GoingBack DEF Next, Coordinator
<1>2. UNCHANGED <<written, load, hand, writerError>>
  BY DEF AllRetired, Boundary, Requeue, Leave, JoinPool, StopWriter, JoinWriter, JoinReader,
         outsideVars, writerVars, settleVars
<1>3. HandInv /\ LoopInv
  BY DEF Inv, Phased
<1>4. SUFFICES ASSUME Going' PROVE HandInv'
  BY DEF HandInv
<1>5. Going /\ processing /\ processing' /\ ~writerError
  BY <1>1, <1>4 DEF Going
<1>6. ASSUME UNCHANGED writeQ PROVE UNCHANGED Handed /\ \A i : Put(i)' = Put(i)
  BY <1>2, <1>6 DEF Handed, Put
<1>7. CASE AllRetired \/ Boundary
  <2>1. UNCHANGED <<writeQ, inflight, retry, chunkStart>> /\ phase \notin Leaving /\ phase' \notin Leaving
    BY <1>5, <1>7 DEF AllRetired, Boundary, queueVars, settleVars, gridVars, Leaving, Torn
  <2>2. UNCHANGED Due
    BY <1>2, <2>1 DEF Due
  <2> QED  BY <1>3, <1>5, <1>6, <2>1, <2>2, HandMoves
<1>8. CASE Requeue
  <2>1. /\ phase = "look" /\ phase' = back /\ retry' = <<>> /\ inflight = <<>> /\ ~Handing /\ UNCHANGED <<writeQ, inflight>>
        /\ \/ UNCHANGED chunkStart /\ retry = <<>>
           \/ retry # <<>> /\ chunkStart' = retry[1].start
    BY <1>5, <1>8, RequeueIs
  <2>2. hand = NoChunk /\ back \in {"top", "drain"}
    BY <2>1, CoordIs
  <2>3. phase \notin Leaving /\ phase' \notin Leaving
    BY <2>1, <2>2 DEF Leaving, Torn
  <2>4. Due' = Due
    BY <1>2, <2>1, <2>2, NoChunkIs DEF Due, First
  <2> QED  BY <1>3, <1>5, <1>6, <2>1, <2>3, <2>4, HandMoves
<1>9. CASE Leave \/ JoinPool \/ JoinWriter \/ JoinReader
  <2>1. /\ phase \in Leaving /\ phase' \in Leaving /\ UNCHANGED <<writeQ, retry>> /\ inflight' \in {inflight, <<>>}
    BY <1>5, <1>9 DEF Leave, JoinPool, JoinWriter, JoinReader, queueVars, settleVars, Leaving, Torn
  <2> QED  BY <1>3, <1>5, <1>6, <2>1, HandMoves
<1>10. CASE StopWriter
  <2>1. /\ phase \in Leaving /\ phase' \in Leaving /\ UNCHANGED <<inflight, retry>>
        /\ writeQ' \in {writeQ, Append(writeQ, EndOfWrites)}
    BY <1>10 DEF StopWriter, settleVars, Leaving, Torn
  <2>2. CASE writeQ' = Append(writeQ, EndOfWrites)
    <3>1. \A g : ~(g \in Frames /\ g \in DOMAIN EndOfWrites)
      BY ItemsAre, Sizes
    <3> DEFINE y == EndOfWrites
    <3>0. writeQ' = Append(writeQ, y) /\ \A g : g \in {} <=> g \in Frames /\ g \in DOMAIN y
      BY <2>2, <3>1
    <3> HIDE DEF y
    <3>01. PICK x : x = y
      OBVIOUS
    <3>02. PICK G : G = {}
      OBVIOUS
    <3>2. writeQ' = Append(writeQ, x) /\ \A g : g \in G <=> g \in Frames /\ g \in DOMAIN x
      BY <3>0, <3>01, <3>02
    <3>3. /\ Len(writeQ) \in Nat
          /\ \A i \in 0 .. Len(writeQ) : Put(i)' = Put(i)
          /\ Put(Len(writeQ))' = Put(Len(writeQ)) \cup G
          /\ \A i \in 0 .. Len(writeQ') : i \in 0 .. Len(writeQ) \/ Put(i)' = Put(Len(writeQ)) \cup G
      BY <1>2, <3>2, PutAppend
    <3>4. Handed' = Handed
      BY <1>2, <3>02, <3>3 DEF Handed
    <3>5. \A i \in 0 .. Len(writeQ') : \E k \in 0 .. Len(writeQ) : Put(i)' = Put(k)
      <4>1. Len(writeQ) \in 0 .. Len(writeQ)
        BY <3>3
      <4> QED  BY <3>02, <3>3, <4>1
    <3> QED  BY <1>3, <1>5, <2>1, <3>4, <3>5, HandMoves
  <2> QED  BY <1>3, <1>5, <1>6, <2>1, <2>2, HandMoves
<1> QED  BY <1>7, <1>8, <1>9, <1>10

LEMMA HandStep == Inv /\ [Next]_vars => HandInv'
BY HandElse, HandWriter, HandLaid, HandSettle, HandEnqueue, HandRetire, HandRest DEF Next, Coordinator

-----------------------------------------------------------------------------
(* Reservations at the pause controller.                                    *)

Total == GotIn(inflight) + Cardinality(hand.got) + Count(writeQ) + Cardinality(DOMAIN load)
         + (IF xpc \in {"safe", "parked"} THEN 1 ELSE 0)

\* What an acknowledged pause leaves between a worker and the encoder.
Faults == /\ \A i \in 1 .. Len(inflight) : inflight[i].got \subseteq Faulty
          /\ hand.got \subseteq Faulty
          /\ \A i \in 1 .. Len(writeQ) : \A g \in DOMAIN writeQ[i] : g \in Frames => g \in Faulty
          /\ DOMAIN load \subseteq Faulty

GotSet  == UNION {DOMAIN Results(inflight[i]) : i \in DOMAIN inflight}
ItemSet == UNION {DOMAIN writeQ[i] \ {-1} : i \in DOMAIN writeQ}

LEMMA UndeliveredIs == Undelivered = GotSet \cup hand.got \cup ItemSet \cup DOMAIN load
BY Zenon DEF Undelivered, GotSet, ItemSet

LEMMA SetsAre ==
    ASSUME Types
    PROVE  /\ \A g : g \in GotSet <=> \E i \in 1 .. Len(inflight) : g \in inflight[i].got
           /\ \A g : g \in ItemSet <=> \E i \in 1 .. Len(writeQ) : g \in DOMAIN writeQ[i] /\ g \in Frames
<1>1. inflight \in Seq(ChunkRec) /\ writeQ \in Seq(Items \cup {EndOfWrites})
  BY DEF Types, CoordTypes, WriterTypes
<1>2. DOMAIN inflight = 1 .. Len(inflight) /\ DOMAIN writeQ = 1 .. Len(writeQ)
  BY <1>1
<1>3. \A c : DOMAIN Results(c) = c.got
  BY DEF Results
<1>4. ASSUME NEW g PROVE g \in GotSet <=> \E i \in 1 .. Len(inflight) : g \in inflight[i].got
  BY <1>2, <1>3 DEF GotSet
<1>5. ASSUME NEW i \in 1 .. Len(writeQ), NEW g PROVE g \in DOMAIN writeQ[i] \ {-1} <=> g \in DOMAIN writeQ[i] /\ g \in Frames
  <2>1. writeQ[i] \in Items \/ writeQ[i] = EndOfWrites
    BY <1>1
  <2>2. CASE writeQ[i] \in Items
    <3>1. DOMAIN writeQ[i] \subseteq Frames /\ -1 \notin DOMAIN writeQ[i]
      BY <2>2, ItemSizes
    <3> QED  BY <3>1
  <2>3. CASE writeQ[i] = EndOfWrites
    <3>1. DOMAIN writeQ[i] = {-1} /\ -1 \notin Frames
      BY <2>3, ItemsAre, Sizes
    <3> QED  BY <3>1
  <2> QED  BY <2>1, <2>2, <2>3
<1>6. ASSUME NEW g PROVE g \in ItemSet <=> \E i \in 1 .. Len(writeQ) : g \in DOMAIN writeQ[i] \ {-1}
  BY <1>2 DEF ItemSet
<1>7. ASSUME NEW g PROVE g \in ItemSet <=> \E i \in 1 .. Len(writeQ) : g \in DOMAIN writeQ[i] /\ g \in Frames
  BY <1>5, <1>6
<1> QED  BY <1>4, <1>7

LEMMA FaultsAre ==
    ASSUME Types
    PROVE  Undelivered \subseteq Faulty <=> Faults
<1>1. (\A g \in GotSet : g \in Faulty) <=> \A i \in 1 .. Len(inflight) : \A g \in inflight[i].got : g \in Faulty
  BY SetsAre
<1>2. (\A g \in ItemSet : g \in Faulty) <=>
          \A i \in 1 .. Len(writeQ) : \A g \in DOMAIN writeQ[i] : g \in Frames => g \in Faulty
  BY SetsAre
<1> QED  BY <1>1, <1>2, UndeliveredIs DEF Faults

\* Nothing is reserved: nothing is on its way.
LEMMA NoTotal ==
    ASSUME Types, ShapeInv, Total = 0
    PROVE  Faults
<1>1. /\ inflight \in Seq(ChunkRec) /\ writeQ \in Seq(Items \cup {EndOfWrites}) /\ load \in Items
      /\ \A i \in 1 .. Len(inflight) : ChunkOK(inflight[i])
  BY DEF Types, CoordTypes, WriterTypes, ShapeInv
<1>2. hand = NoChunk \/ (hand \in ChunkRec /\ ChunkOK(hand))
  BY DEF Types, CoordTypes, ShapeInv
<1>3. IsFiniteSet(hand.got) /\ Cardinality(hand.got) \in Nat
  <2>1. CASE hand = NoChunk
    BY <2>1, NoChunkIs, FS_EmptySet
  <2> QED  BY <1>2, <2>1, Places
<1>4. IsFiniteSet(DOMAIN load) /\ Cardinality(DOMAIN load) \in Nat
  BY <1>1, ItemSizes
<1>5. /\ Gots(inflight) \in Seq(Nat) /\ Len(Gots(inflight)) = Len(inflight)
      /\ GotIn(inflight) = SumOf(Gots(inflight)) /\ GotIn(inflight) \in Nat
      /\ \A i \in 1 .. Len(inflight) : Gots(inflight)[i] = Cardinality(inflight[i].got)
  BY <1>1, GotsAre
<1>6. /\ Counts(writeQ) \in Seq(Nat) /\ Len(Counts(writeQ)) = Len(writeQ)
      /\ Count(writeQ) = SumOf(Counts(writeQ)) /\ Count(writeQ) \in Nat
      /\ \A i \in 1 .. Len(writeQ) : writeQ[i] \in Items => Counts(writeQ)[i] = Cardinality(DOMAIN writeQ[i])
  BY <1>1, CountsAre
<1>7. GotIn(inflight) = 0 /\ Cardinality(hand.got) = 0 /\ Count(writeQ) = 0 /\ Cardinality(DOMAIN load) = 0
  <2>1. \A a, b, c, d \in Nat : a + b + c + d + 0 = 0 \/ a + b + c + d + 1 = 0 => a = 0 /\ b = 0 /\ c = 0 /\ d = 0
    OBVIOUS
  <2> QED  BY <1>3, <1>4, <1>5, <1>6, <2>1 DEF Total
<1>8. hand.got = {} /\ DOMAIN load = {}
  BY <1>3, <1>4, <1>7, FS_EmptySet
<1>9. \A i \in 1 .. Len(inflight) : inflight[i].got = {}
  <2> SUFFICES ASSUME NEW i \in 1 .. Len(inflight) PROVE inflight[i].got = {}
    OBVIOUS
  <2>1. inflight[i] \in ChunkRec /\ ChunkOK(inflight[i])
    BY <1>1
  <2>2. IsFiniteSet(inflight[i].got) /\ Cardinality(inflight[i].got) \in Nat
    BY <2>1, Places
  <2>3. Gots(inflight)[i] <= 0
    BY <1>5, <1>7, SumAbove
  <2>4. Cardinality(inflight[i].got) = 0
    BY <1>5, <2>2, <2>3
  <2> QED  BY <2>2, <2>4, FS_EmptySet
<1>10. \A i \in 1 .. Len(writeQ) : \A g \in DOMAIN writeQ[i] : g \notin Frames
  <2> SUFFICES ASSUME NEW i \in 1 .. Len(writeQ) PROVE \A g \in DOMAIN writeQ[i] : g \notin Frames
    OBVIOUS
  <2>1. writeQ[i] \in Items \/ writeQ[i] = EndOfWrites
    BY <1>1
  <2>2. CASE writeQ[i] \in Items
    <3>1. IsFiniteSet(DOMAIN writeQ[i]) /\ Cardinality(DOMAIN writeQ[i]) \in Nat
      BY <2>2, ItemSizes
    <3>2. Counts(writeQ)[i] <= 0
      BY <1>6, <1>7, SumAbove
    <3>3. Cardinality(DOMAIN writeQ[i]) = 0
      BY <1>6, <2>2, <3>1, <3>2
    <3>4. DOMAIN writeQ[i] = {}
      BY <3>1, <3>3, FS_EmptySet
    <3> QED  BY <3>4
  <2>3. CASE writeQ[i] = EndOfWrites
    <3>1. DOMAIN writeQ[i] = {-1} /\ -1 \notin Frames
      BY <2>3, ItemsAre, Sizes
    <3> QED  BY <3>1
  <2> QED  BY <2>1, <2>2, <2>3
<1> QED  BY <1>8, <1>9, <1>10 DEF Faults

\* A step that acknowledges a pause finds nothing running and nothing reserved.
Moves(p, q, a, n) ==
    /\ q.active = a /\ q.pending = n /\ (q.acked => q.requested)
    /\ q.acked => p.acked \/ (a = 0 /\ n = 0)

LEMMA PauseMoves ==
    ASSUME NEW p \in PauseRec, p.acked => p.requested
    PROVE  /\ Moves(p, p, p.active, p.pending)
           /\ Moves(p, Asked(p), p.active, p.pending)
           /\ Moves(p, Resumed(p), p.active, p.pending)
           /\ ~p.requested => Moves(p, Entered(p), p.active + 1, p.pending) /\ ~Entered(p).acked
           /\ p.active # 0 => Moves(p, Left(p), p.active - 1, p.pending)
           /\ p.active # 0 => Moves(p, Left(Reserved(p)), p.active - 1, p.pending + 1)
           /\ Moves(p, Reserved(p), p.active, p.pending + 1)
           /\ p.pending # 0 => Moves(p, Released(p), p.active, p.pending - 1)
           /\ \A n \in Nat : n <= p.pending => Moves(p, ReleasedMany(p, n), p.active, p.pending - n)
<1> USE DEF Moves
<1>0. p.requested \in BOOLEAN /\ p.acked \in BOOLEAN /\ p.active \in Nat /\ p.pending \in Nat
  BY DEF PauseRec
<1>1. ASSUME NEW q \in PauseRec
      PROVE  /\ Ack(q).requested = q.requested /\ Ack(q).active = q.active /\ Ack(q).pending = q.pending
             /\ Ack(q).acked <=> q.acked \/ (q.requested /\ q.active = 0 /\ q.pending = 0)
             /\ Ack(q) \in PauseRec
  BY DEF Ack, PauseRec
<1>2. ASSUME NEW q \in PauseRec, q.active = p.active \/ q.active = p.active - 1, q.acked <=> p.acked,
             p.requested => q.requested
      PROVE  Moves(p, Ack(q), q.active, q.pending)
  BY <1>1, <1>2 DEF PauseRec
<1> HIDE DEF Moves
<1>3. Moves(p, p, p.active, p.pending)
  BY DEF Moves
<1>4. Moves(p, Asked(p), p.active, p.pending)
  <2>1. PICK q : q = [p EXCEPT !.requested = TRUE]
    OBVIOUS
  <2>2. q \in PauseRec /\ q.active = p.active /\ q.pending = p.pending /\ (q.acked <=> p.acked) /\ q.requested
    BY <2>1 DEF PauseRec
  <2>3. Moves(p, Ack(q), q.active, q.pending)
    BY <1>2, <2>2
  <2> QED  BY <2>1, <2>2, <2>3 DEF Asked
<1>5. Moves(p, Resumed(p), p.active, p.pending)
  BY DEF Resumed, Moves, PauseRec
<1>6. ~p.requested => Moves(p, Entered(p), p.active + 1, p.pending) /\ ~Entered(p).acked
  BY DEF Entered, Moves, PauseRec
<1>7. ASSUME NEW r \in PauseRec, r.active = p.active, r.acked <=> p.acked, r.requested <=> p.requested, p.active # 0
      PROVE  Moves(p, Left(r), p.active - 1, r.pending)
  <2>1. PICK q : q = [r EXCEPT !.active = IF r.active = 0 THEN 0 ELSE r.active - 1]
    OBVIOUS
  <2>2. /\ q \in PauseRec /\ q.active = p.active - 1 /\ q.pending = r.pending /\ (q.acked <=> p.acked)
        /\ (p.requested => q.requested)
    BY <1>0, <1>7, <2>1 DEF PauseRec
  <2>3. Moves(p, Ack(q), q.active, q.pending)
    BY <1>2, <2>2
  <2> QED  BY <2>1, <2>2, <2>3 DEF Left
<1>8. p.active # 0 => Moves(p, Left(p), p.active - 1, p.pending)
  BY <1>7
<1>9. PICK q : q = [p EXCEPT !.pending = p.pending + 1]
  OBVIOUS
<1>10. /\ q \in PauseRec /\ q.active = p.active /\ q.pending = p.pending + 1 /\ (q.acked <=> p.acked)
       /\ (q.requested <=> p.requested) /\ Reserved(p) = Ack(q)
  BY <1>0, <1>9 DEF PauseRec, Reserved
<1>11. Moves(p, Reserved(p), p.active, p.pending + 1)
  BY <1>2, <1>10
<1>12. p.active # 0 => Moves(p, Left(Reserved(p)), p.active - 1, p.pending + 1)
  <2>1. PICK r : r = Reserved(p)
    OBVIOUS
  <2>2. r \in PauseRec /\ r.active = p.active /\ r.pending = p.pending + 1 /\ (r.acked <=> p.acked) /\ (r.requested <=> p.requested)
    <3>1. q.pending # 0
      BY <1>0, <1>10
    <3> QED  BY <1>1, <1>10, <2>1, <3>1
  <2> QED  BY <1>7, <2>1, <2>2
<1>13. p.pending # 0 => Moves(p, Released(p), p.active, p.pending - 1)
  <2> SUFFICES ASSUME p.pending # 0 PROVE Moves(p, Released(p), p.active, p.pending - 1)
    OBVIOUS
  <2>1. PICK r : r = [p EXCEPT !.pending = IF p.pending = 0 THEN 0 ELSE p.pending - 1]
    OBVIOUS
  <2>2. /\ r \in PauseRec /\ r.active = p.active /\ r.pending = p.pending - 1 /\ (r.acked <=> p.acked)
        /\ (r.requested <=> p.requested) /\ Released(p) = Ack(r)
    BY <1>0, <2>1 DEF PauseRec, Released
  <2> QED  BY <1>2, <2>2
<1>14. ASSUME NEW n \in Nat, n <= p.pending PROVE Moves(p, ReleasedMany(p, n), p.active, p.pending - n)
  <2>1. CASE n = 0
    BY <1>0, <1>3, <2>1 DEF ReleasedMany
  <2>2. CASE n # 0
    <3>1. PICK r : r = [p EXCEPT !.pending = IF p.pending < n THEN 0 ELSE p.pending - n]
      OBVIOUS
    <3>2. /\ r \in PauseRec /\ r.active = p.active /\ r.pending = p.pending - n /\ (r.acked <=> p.acked)
          /\ (r.requested <=> p.requested) /\ ReleasedMany(p, n) = Ack(r)
      BY <1>0, <1>14, <2>2, <3>1 DEF PauseRec, ReleasedMany
    <3> QED  BY <1>2, <3>2
  <2> QED  BY <2>1, <2>2
<1> QED  BY <1>3, <1>4, <1>5, <1>6, <1>8, <1>11, <1>12, <1>13, <1>14

\* How a step keeps the pause's part of the invariant.
LEMMA PauseFrom ==
    ASSUME Types', ShapeInv', NEW a, a = Cardinality(Running)', NEW n, n = Total', Moves(pause, pause', a, n),
           pause'.acked => (a = 0 /\ n = 0) \/ (pause.acked /\ Running' = {} /\ Faults')
    PROVE  PauseInv'
<1>1. pause'.active = Cardinality(Running)' /\ pause'.pending = Total' /\ (pause'.acked => pause'.requested)
  BY DEF Moves
<1>2. ReservationsExact'
  BY <1>1 DEF ReservationsExact, Total
<1>3. IsFiniteSet(Running)'
  <2>1. IsFiniteSet(Workers)
    BY Sizes, FS_Interval
  <2>2. PICK R : R = Running'
    OBVIOUS
  <2>3. R \subseteq Workers
    BY <2>2 DEF Running
  <2> QED  BY <2>1, <2>2, <2>3, FS_Subset
<1>4. ASSUME pause'.acked PROVE Running' = {} /\ Faults'
  <2>1. CASE a = 0 /\ n = 0
    <3>1. PICK R : R = Running'
      OBVIOUS
    <3>2. R = {}
      BY <1>3, <2>1, <3>1, FS_EmptySet
    <3>3. (Total = 0)'
      BY <2>1
    <3>4. Types' /\ ShapeInv' /\ (Total = 0)' => Faults'
      BY NoTotal, PTL
    <3> QED  BY <3>1, <3>2, <3>3, <3>4
  <2>2. CASE pause.acked /\ Running' = {} /\ Faults'
    BY <2>2
  <2> QED  BY <1>4, <2>1, <2>2
<1>5. PausedIsDrained'
  <2>1. Types' => (Undelivered \subseteq Faulty <=> Faults)'
    BY FaultsAre, PTL
  <2> QED  BY <1>4, <2>1 DEF PausedIsDrained, Running
<1> QED  BY <1>1, <1>2, <1>5 DEF PauseInv

\* The results in a list of chunks, and the frames in a queue of items, one piece at a time.
LEMMA GotFirst ==
    ASSUME NEW s \in Seq(ChunkRec), s # <<>>, \A i \in 1 .. Len(s) : ChunkOK(s[i])
    PROVE  GotIn(s) = Cardinality(s[1].got) + GotIn(Tail(s)) /\ GotIn(Tail(s)) \in Nat
<1>1. /\ Tail(s) \in Seq(ChunkRec) /\ Len(s) \in Nat \ {0} /\ Len(Tail(s)) = Len(s) - 1
      /\ \A i \in 1 .. Len(Tail(s)) : Tail(s)[i] = s[i + 1]
  BY Tails
<1>2. PICK t \in Seq(ChunkRec) : t = Tail(s)
  BY <1>1
<1>3. 1 \in 1 .. Len(s) /\ Len(s) = Len(t) + 1 /\ \A i \in 1 .. Len(t) : i + 1 \in 1 .. Len(s) /\ t[i] = s[i + 1]
  BY <1>1, <1>2
<1>4. \A i \in 1 .. Len(t) : ChunkOK(t[i])
  BY <1>3
<1>5. /\ Gots(s) \in Seq(Nat) /\ Len(Gots(s)) = Len(s) /\ GotIn(s) = SumOf(Gots(s))
      /\ \A i \in 1 .. Len(s) : Gots(s)[i] = Cardinality(s[i].got)
  BY GotsAre
<1>6. /\ Gots(t) \in Seq(Nat) /\ Len(Gots(t)) = Len(t) /\ GotIn(t) = SumOf(Gots(t)) /\ GotIn(t) \in Nat
      /\ \A i \in 1 .. Len(t) : Gots(t)[i] = Cardinality(t[i].got)
  BY <1>4, GotsAre
<1>7. Len(Gots(s)) = Len(Gots(t)) + 1 /\ \A i \in 1 .. Len(Gots(t)) : Gots(s)[i + 1] = Gots(t)[i]
  BY <1>3, <1>5, <1>6
<1>8. SumOf(Gots(s)) = Gots(s)[1] + SumOf(Gots(t))
  BY <1>5, <1>6, <1>7, SumFirst
<1> QED  BY <1>2, <1>3, <1>5, <1>6, <1>8

LEMMA GotLast ==
    ASSUME NEW s \in Seq(ChunkRec), \A i \in 1 .. Len(s) : ChunkOK(s[i]), NEW c \in ChunkRec, ChunkOK(c)
    PROVE  GotIn(Append(s, c)) = GotIn(s) + Cardinality(c.got)
<1>1. PICK t \in Seq(ChunkRec) : t = Append(s, c)
  BY Appends
<1>2. Len(s) \in Nat /\ Len(t) = Len(s) + 1 /\ t[Len(t)] = c /\ \A i \in 1 .. Len(s) : t[i] = s[i]
  BY <1>1, Appends
<1>3. \A i \in 1 .. Len(t) : ChunkOK(t[i])
  <2>1. \A i \in 1 .. Len(t) : i = Len(t) \/ i \in 1 .. Len(s)
    BY <1>2
  <2> QED  BY <1>2, <2>1
<1>4. /\ Gots(s) \in Seq(Nat) /\ Len(Gots(s)) = Len(s) /\ GotIn(s) = SumOf(Gots(s))
      /\ \A i \in 1 .. Len(s) : Gots(s)[i] = Cardinality(s[i].got)
  BY GotsAre
<1>5. /\ Gots(t) \in Seq(Nat) /\ Len(Gots(t)) = Len(t) /\ GotIn(t) = SumOf(Gots(t))
      /\ \A i \in 1 .. Len(t) : Gots(t)[i] = Cardinality(t[i].got)
  BY <1>3, GotsAre
<1>6. Len(Gots(t)) = Len(Gots(s)) + 1 /\ \A i \in 1 .. Len(Gots(s)) : Gots(t)[i] = Gots(s)[i]
  <2>1. \A i \in 1 .. Len(s) : i \in 1 .. Len(t)
    BY <1>2
  <2> QED  BY <1>2, <1>4, <1>5, <2>1
<1>7. SumOf(Gots(t)) = SumOf(Gots(s)) + Gots(t)[Len(Gots(t))]
  BY <1>4, <1>5, <1>6, SumLast
<1>8. Gots(t)[Len(Gots(t))] = Cardinality(c.got)
  BY <1>2, <1>5
<1> QED  BY <1>1, <1>4, <1>5, <1>7, <1>8

LEMMA CountFirst ==
    ASSUME NEW q \in Seq(Items \cup {EndOfWrites}), q # <<>>
    PROVE  /\ Count(Tail(q)) \in Nat
           /\ q[1] \in Items => Count(q) = Cardinality(DOMAIN q[1]) + Count(Tail(q))
           /\ q[1] = EndOfWrites => Count(q) = Count(Tail(q))
<1> DEFINE S == Items \cup {EndOfWrites}
<1>1. /\ Tail(q) \in Seq(S) /\ Len(q) \in Nat \ {0} /\ Len(Tail(q)) = Len(q) - 1
      /\ \A i \in 1 .. Len(Tail(q)) : Tail(q)[i] = q[i + 1]
  BY Tails
<1>2. PICK t \in Seq(S) : t = Tail(q)
  BY <1>1
<1>3. 1 \in 1 .. Len(q) /\ Len(q) = Len(t) + 1 /\ \A i \in 1 .. Len(t) : i + 1 \in 1 .. Len(q) /\ t[i] = q[i + 1]
  BY <1>1, <1>2
<1>4. /\ Counts(q) \in Seq(Nat) /\ Len(Counts(q)) = Len(q) /\ Count(q) = SumOf(Counts(q))
      /\ \A i \in 1 .. Len(q) : /\ q[i] \in Items => Counts(q)[i] = Cardinality(DOMAIN q[i])
                                /\ q[i] = EndOfWrites => Counts(q)[i] = 0
  BY CountsAre
<1>5. /\ Counts(t) \in Seq(Nat) /\ Len(Counts(t)) = Len(t) /\ Count(t) = SumOf(Counts(t)) /\ Count(t) \in Nat
      /\ \A i \in 1 .. Len(t) : /\ t[i] \in Items => Counts(t)[i] = Cardinality(DOMAIN t[i])
                                /\ t[i] = EndOfWrites => Counts(t)[i] = 0
  BY CountsAre
<1>6. \A i \in 1 .. Len(t) : t[i] \in Items \/ t[i] = EndOfWrites
  BY DEF S
<1>7. \A i \in 1 .. Len(Counts(t)) : Counts(q)[i + 1] = Counts(t)[i]
  BY <1>3, <1>4, <1>5, <1>6
<1>8. SumOf(Counts(q)) = Counts(q)[1] + SumOf(Counts(t))
  BY <1>3, <1>4, <1>5, <1>7, SumFirst
<1> QED  BY <1>2, <1>3, <1>4, <1>5, <1>8

LEMMA CountLast ==
    ASSUME NEW q \in Seq(Items \cup {EndOfWrites}), NEW x \in Items \cup {EndOfWrites}
    PROVE  /\ x \in Items => Count(Append(q, x)) = Count(q) + Cardinality(DOMAIN x)
           /\ x = EndOfWrites => Count(Append(q, x)) = Count(q)
<1> DEFINE S == Items \cup {EndOfWrites}
<1>1. PICK t \in Seq(S) : t = Append(q, x)
  BY Appends
<1>2. Len(q) \in Nat /\ Len(t) = Len(q) + 1 /\ t[Len(t)] = x /\ \A i \in 1 .. Len(q) : t[i] = q[i]
  BY <1>1, Appends
<1>3. Len(t) \in 1 .. Len(t) /\ \A i \in 1 .. Len(q) : i \in 1 .. Len(t) /\ (q[i] \in Items \/ q[i] = EndOfWrites)
  BY <1>2
<1>4. /\ Counts(q) \in Seq(Nat) /\ Len(Counts(q)) = Len(q) /\ Count(q) = SumOf(Counts(q)) /\ Count(q) \in Nat
      /\ \A i \in 1 .. Len(q) : /\ q[i] \in Items => Counts(q)[i] = Cardinality(DOMAIN q[i])
                                /\ q[i] = EndOfWrites => Counts(q)[i] = 0
  BY CountsAre
<1>5. /\ Counts(t) \in Seq(Nat) /\ Len(Counts(t)) = Len(t) /\ Count(t) = SumOf(Counts(t))
      /\ \A i \in 1 .. Len(t) : /\ t[i] \in Items => Counts(t)[i] = Cardinality(DOMAIN t[i])
                                /\ t[i] = EndOfWrites => Counts(t)[i] = 0
  BY CountsAre
<1>6. Len(Counts(t)) = Len(Counts(q)) + 1 /\ \A i \in 1 .. Len(Counts(q)) : Counts(t)[i] = Counts(q)[i]
  BY <1>2, <1>3, <1>4, <1>5
<1>7. SumOf(Counts(t)) = SumOf(Counts(q)) + Counts(t)[Len(Counts(t))]
  BY <1>4, <1>5, <1>6, SumLast
<1>8. /\ x \in Items => Counts(t)[Len(t)] = Cardinality(DOMAIN x)
      /\ x = EndOfWrites => Counts(t)[Len(t)] = 0
  BY <1>2, <1>3, <1>5
<1> QED  BY <1>1, <1>4, <1>5, <1>7, <1>8

LEMMA NothingIn == GotIn(<<>>) = 0 /\ Count(<<>>) = 0
<1>1. [i \in DOMAIN <<>> |-> Cardinality(<<>>[i].got)] = <<>>
  OBVIOUS
<1>2. [i \in DOMAIN <<>> |-> Cardinality(DOMAIN <<>>[i] \ {-1})] = <<>>
  OBVIOUS
<1> QED  BY <1>1, <1>2, SumEmpty DEF GotIn, Count

LEMMA GotTouched ==
    ASSUME Inv, NEW i \in 1 .. Len(inflight), NEW d \in ChunkRec, Touched(i, d), ChunkOK(d)
    PROVE  /\ \A n \in Nat : Cardinality(d.got) = Cardinality(inflight[i].got) + n => GotIn(inflight') = GotIn(inflight) + n
           /\ d.got \subseteq Faulty /\ (\A j \in 1 .. Len(inflight) : inflight[j].got \subseteq Faulty)
                 => \A j \in 1 .. Len(inflight') : inflight'[j].got \subseteq Faulty
<1>1. PICK t \in Seq(ChunkRec) : t = inflight'
  BY DEF Touched
<1>2. /\ Len(t) = Len(inflight) /\ t[i] = d /\ \A j \in 1 .. Len(inflight) : j # i => t[j] = inflight[j]
      /\ Len(inflight) \in Nat
  BY <1>1, InflightTypes DEF Touched
<1>3. \A j \in 1 .. Len(t) : ChunkOK(t[j])
  BY <1>2, InflightTypes
<1>4. /\ Gots(inflight) \in Seq(Nat) /\ Len(Gots(inflight)) = Len(inflight) /\ GotIn(inflight) = SumOf(Gots(inflight))
      /\ \A j \in 1 .. Len(inflight) : Gots(inflight)[j] = Cardinality(inflight[j].got)
  BY InflightTypes, GotsAre
<1>5. /\ Gots(t) \in Seq(Nat) /\ Len(Gots(t)) = Len(t) /\ GotIn(t) = SumOf(Gots(t))
      /\ \A j \in 1 .. Len(t) : Gots(t)[j] = Cardinality(t[j].got)
  BY <1>3, GotsAre
<1>6. ASSUME NEW n \in Nat, Cardinality(d.got) = Cardinality(inflight[i].got) + n PROVE GotIn(t) = GotIn(inflight) + n
  <2>1. i \in 1 .. Len(Gots(inflight)) /\ Gots(t)[i] = Gots(inflight)[i] + n /\ Gots(inflight)[i] \in Nat
    BY <1>2, <1>4, <1>5, <1>6
  <2>2. \A j \in 1 .. Len(Gots(inflight)) : j # i => Gots(inflight)[j] = Gots(t)[j]
    BY <1>2, <1>4, <1>5
  <2>3. Gots(inflight)[i] <= Gots(t)[i] /\ Gots(t)[i] - Gots(inflight)[i] = n
    BY <2>1
  <2>4. SumOf(Gots(t)) = SumOf(Gots(inflight)) + (Gots(t)[i] - Gots(inflight)[i])
    BY <1>2, <1>4, <1>5, <2>1, <2>2, <2>3, SumChange
  <2> QED  BY <1>4, <1>5, <2>3, <2>4
<1>7. d.got \subseteq Faulty /\ (\A j \in 1 .. Len(inflight) : inflight[j].got \subseteq Faulty)
         => \A j \in 1 .. Len(t) : t[j].got \subseteq Faulty
  BY <1>2
<1> QED  BY <1>1, <1>6, <1>7

\* What the invariant says of the controller before the step, and what a step has to keep.
LEMMA PauseNow ==
    ASSUME Inv
    PROVE  /\ pause \in PauseRec /\ (pause.acked => pause.requested)
           /\ pause.active = Cardinality(Running) /\ pause.pending = Total
           /\ pause.acked => Running = {} /\ Faults
           /\ pause.active \in Nat /\ pause.pending \in Nat /\ IsFiniteSet(Running)
<1>1. pause \in PauseRec /\ Types /\ PauseInv
  BY DEF Inv, Types, FlagTypes
<1>2. pause.active \in Nat /\ pause.pending \in Nat
  BY <1>1 DEF PauseRec
<1>3. IsFiniteSet(Running)
  <2>1. IsFiniteSet(Workers) /\ Running \subseteq Workers
    BY Sizes, FS_Interval DEF Running
  <2> QED  BY <2>1, FS_Subset
<1>4. pause.pending = Total
  BY <1>1 DEF PauseInv, ReservationsExact, Total
<1>5. pause.acked => Running = {} /\ Faults
  BY <1>1, FaultsAre DEF PauseInv, PausedIsDrained, Running
<1> QED  BY <1>1, <1>2, <1>3, <1>4, <1>5 DEF PauseInv

LEMMA PauseKept ==
    ASSUME Inv, [Next]_vars, NEW a, a = Cardinality(Running)', NEW n, n = Total', Moves(pause, pause', a, n),
           pause.acked /\ pause'.acked /\ Running = {} /\ Faults => Running' = {} /\ Faults'
    PROVE  PauseInv'
<1>1. Types' /\ ShapeInv'
  BY TypesStep, GridStep
<1>2. pause'.acked => (a = 0 /\ n = 0) \/ pause.acked
  BY DEF Moves
<1> QED  BY <1>1, <1>2, PauseNow, PauseFrom

\* The workers in the pause scope, when one of them moves.
LEMMA RunningIs ==
    ASSUME Inv, NEW w \in Workers, NEW x, wpc' = [wpc EXCEPT ![w] = x]
    PROVE  /\ (wpc[w] = "run") = (x = "run") => Running' = Running /\ Cardinality(Running)' = Cardinality(Running)
           /\ wpc[w] = "run" /\ x # "run" => /\ Cardinality(Running)' = Cardinality(Running) - 1
                                             /\ Cardinality(Running) # 0 /\ Running # {}
           /\ wpc[w] # "run" /\ x = "run" => Cardinality(Running)' = Cardinality(Running) + 1
<1>1. \A v \in Workers : wpc'[v] = IF v = w THEN x ELSE wpc[v]
  BY DEF Inv, Types, WorkerTypes
<1>2. PICK R, Q : R = Running /\ Q = Running'
  OBVIOUS
<1>3. /\ \A v : v \in R <=> v \in Workers /\ wpc[v] = "run"
      /\ \A v : v \in Q <=> v \in Workers /\ wpc'[v] = "run"
  BY <1>2 DEF Running
<1>4. Cardinality(Running)' = Cardinality(Q)
  BY <1>2
<1>5. IsFiniteSet(R) /\ Cardinality(R) \in Nat
  BY <1>2, PauseNow, FS_CardinalityType
<1>6. (wpc[w] = "run") = (x = "run") => Q = R
  BY <1>1, <1>3
<1>7. wpc[w] = "run" /\ x # "run" => Q = R \ {w} /\ w \in R
  BY <1>1, <1>3
<1>8. wpc[w] # "run" /\ x = "run" => Q = R \cup {w} /\ w \notin R
  BY <1>1, <1>3
<1>9. w \in R => Cardinality(R \ {w}) = Cardinality(R) - 1
  BY <1>5, FS_RemoveElement
<1>10. w \notin R => Cardinality(R \cup {w}) = Cardinality(R) + 1
  BY <1>5, FS_AddElement
<1>11. w \in R => Cardinality(R) # 0
  BY <1>5, FS_EmptySet
<1> QED  BY <1>2, <1>4, <1>6, <1>7, <1>8, <1>9, <1>10, <1>11

LEMMA PauseElse ==
    ASSUME Inv, [Next]_vars, Reader \/ CallBegins \/ CallEnds \/ UNCHANGED vars
    PROVE  PauseInv'
<1>1. UNCHANGED <<wpc, inflight, hand, writeQ, load, xpc>> /\ pause' \in {pause, Asked(pause), Resumed(pause)}
  BY ReaderFrame, CallFrame, Stutter
<1>2. Running' = Running /\ Cardinality(Running)' = pause.active
  BY <1>1, PauseNow DEF Running
<1>3. Total' = pause.pending
  BY <1>1, PauseNow DEF Total
<1>4. Faults' = Faults
  BY <1>1 DEF Faults
<1>5. Moves(pause, pause', pause.active, pause.pending)
  BY <1>1, PauseNow, PauseMoves
<1> QED  BY <1>2, <1>3, <1>4, <1>5, PauseKept

\* A worker's result is reserved where it is stored.
LEMMA PauseWorker ==
    ASSUME Inv, [Next]_vars, NEW w \in Workers, Worker(w)
    PROVE  PauseInv'
<1>1. UNCHANGED <<hand, writeQ, load, xpc>>
  BY WorkerFrame
<1>2. WorkerStep(w)
  BY WorkerSteps
<1>3. pause \in PauseRec /\ (pause.acked => pause.requested) /\ pause.active = Cardinality(Running) /\ pause.pending = Total
      /\ pause.active \in Nat /\ pause.pending \in Nat
  BY PauseNow
<1>4. ASSUME NEW n \in Nat, GotIn(inflight') = GotIn(inflight) + n PROVE Total' = Total + n
  <2>1. /\ GotIn(inflight) \in Nat /\ Count(writeQ) \in Nat /\ Cardinality(hand.got) \in Nat /\ Cardinality(DOMAIN load) \in Nat
    BY Numbers
  <2> QED  BY <1>1, <1>4, <2>1 DEF Total
<1>5. ASSUME \A j \in 1 .. Len(inflight') : inflight'[j].got \subseteq Faulty, Faults PROVE Faults'
  BY <1>1, <1>5 DEF Faults
<1>6. ASSUME UNCHANGED inflight PROVE Total' = pause.pending /\ (Faults => Faults')
  BY <1>1, <1>3, <1>6 DEF Total, Faults
<1>7. ASSUME NEW i \in 1 .. Len(inflight), NEW d \in ChunkRec, Touched(i, d), d.got = inflight[i].got, ChunkOK(d)
      PROVE  Total' = pause.pending /\ (Faults => Faults')
  <2>1. Cardinality(d.got) = Cardinality(inflight[i].got) + 0
    BY <1>7, Numbers
  <2>2. GotIn(inflight') = GotIn(inflight) + 0
    BY <1>7, <2>1, GotTouched
  <2>3. Total' = Total + 0
    BY <1>4, <2>2
  <2>4. Faults => inflight[i].got \subseteq Faulty
    BY DEF Faults
  <2>5. Faults => \A j \in 1 .. Len(inflight') : inflight'[j].got \subseteq Faulty
    BY <1>7, <2>4, GotTouched DEF Faults
  <2> QED  BY <1>3, <1>5, <2>3, <2>5
<1>8. ASSUME NEW i \in 1 .. Len(inflight), NEW d \in ChunkRec, Touched(i, d), Lighter(inflight[i], d)
      PROVE  Total' = pause.pending /\ (Faults => Faults')
  <2>1. ChunkOK(d)
    BY <1>8, GridStep DEF ShapeInv, Touched
  <2> QED  BY <1>7, <1>8, <2>1 DEF Lighter
<1>9. CASE Quits(w) \/ (\E i \in 1 .. Len(inflight), a \in AtRec : Starts(w, i, a))
  <2>1. UNCHANGED <<inflight, pause>> /\ wpc[w] = "idle" /\ \E x \in {"done", "frame"} : wpc' = [wpc EXCEPT ![w] = x]
    BY <1>9 DEF Quits, Starts, Takes
  <2>2. Running' = Running /\ Cardinality(Running)' = pause.active
    BY <1>3, <2>1, RunningIs
  <2>3. Moves(pause, pause', pause.active, pause.pending)
    BY <1>3, <2>1, PauseMoves
  <2> QED  BY <1>6, <2>1, <2>2, <2>3, PauseKept
<1>10. CASE \E i \in 1 .. Len(inflight), d \in ChunkRec : Drops(w, i, d)
  <2>1. PICK i \in 1 .. Len(inflight), d \in ChunkRec : Drops(w, i, d)
    BY <1>10
  <2>2. UNCHANGED <<wpc, pause>> /\ Touched(i, d) /\ Lighter(inflight[i], d)
    BY <2>1 DEF Drops, Takes
  <2>3. Running' = Running /\ Cardinality(Running)' = pause.active
    BY <1>3, <2>2 DEF Running
  <2>4. Moves(pause, pause', pause.active, pause.pending)
    BY <1>3, <2>2, PauseMoves
  <2> QED  BY <1>8, <2>2, <2>3, <2>4, PauseKept
<1>11. CASE \E i \in 1 .. Len(inflight), d \in ChunkRec : Returns(w, i, d)
  <2>1. PICK i \in 1 .. Len(inflight), d \in ChunkRec : Returns(w, i, d)
    BY <1>11
  <2>2. UNCHANGED pause /\ Touched(i, d) /\ Lighter(inflight[i], d) /\ wpc[w] = "frame" /\ wpc' = [wpc EXCEPT ![w] = "idle"]
    BY <2>1 DEF Returns
  <2>3. Running' = Running /\ Cardinality(Running)' = pause.active
    <3>1. PICK x : x = "idle" /\ wpc' = [wpc EXCEPT ![w] = x]
      BY <2>2
    <3>2. (wpc[w] = "run") = (x = "run")
      BY <2>2, <3>1
    <3> QED  BY <1>3, <3>1, <3>2, RunningIs
  <2>4. Moves(pause, pause', pause.active, pause.pending)
    BY <1>3, <2>2, PauseMoves
  <2> QED  BY <1>8, <2>2, <2>3, <2>4, PauseKept
<1>12. CASE Enters(w)
  <2>1. UNCHANGED inflight /\ pause' = Entered(pause) /\ ~pause.requested /\ wpc[w] = "frame" /\ wpc' = [wpc EXCEPT ![w] = "run"]
    BY <1>12 DEF Enters
  <2>2. Cardinality(Running)' = pause.active + 1
    <3>1. PICK x : x = "run" /\ wpc' = [wpc EXCEPT ![w] = x] /\ wpc[w] # "run"
      BY <2>1
    <3> QED  BY <1>3, <3>1, RunningIs
  <2>3. Moves(pause, pause', pause.active + 1, pause.pending) /\ ~pause'.acked
    BY <1>3, <2>1, PauseMoves
  <2> QED  BY <1>6, <2>1, <2>2, <2>3, PauseKept
<1>13. CASE \E i \in 1 .. Len(inflight) : Fails(w, i)
  <2>1. UNCHANGED inflight /\ pause' = Left(pause) /\ wpc[w] = "run" /\ wpc' = [wpc EXCEPT ![w] = "fallback"]
    BY <1>13 DEF Fails
  <2>2. Cardinality(Running)' = pause.active - 1 /\ pause.active # 0 /\ Running # {}
    <3>1. PICK x : x = "fallback" /\ wpc' = [wpc EXCEPT ![w] = x] /\ x # "run"
      BY <2>1
    <3> QED  BY <1>3, <2>1, <3>1, RunningIs
  <2>3. Moves(pause, pause', pause.active - 1, pause.pending)
    BY <1>3, <2>1, <2>2, PauseMoves
  <2> QED  BY <1>6, <2>1, <2>2, <2>3, PauseKept
<1>14. CASE \E i \in 1 .. Len(inflight), d \in ChunkRec : Keeps(w, i, d)
  <2>1. PICK i \in 1 .. Len(inflight), d \in ChunkRec : Keeps(w, i, d)
    BY <1>14
  <2>2. /\ wpc[w] \in {"run", "fallback"} /\ inflight[i].no = at[w].no /\ Touched(i, d)
        /\ \/ at[w].ci < at[w].main /\ d.got = inflight[i].got /\ wpc[w] = "run" /\ pause' = Left(pause)
           \/ /\ at[w].main <= at[w].ci /\ d.got = inflight[i].got \cup {IndexAt(inflight[i], at[w].ci)}
              /\ pause' = IF wpc[w] = "run" THEN Left(Reserved(pause)) ELSE Reserved(pause)
        /\ \E x \in {"idle", "frame"} : wpc' = [wpc EXCEPT ![w] = x]
    BY <2>1 DEF Keeps
  <2>3. ChunkOK(d) /\ w \in Busy
    BY <2>2, GridStep DEF ShapeInv, Touched, Busy
  <2>4. wpc[w] = "run" => Cardinality(Running)' = pause.active - 1 /\ pause.active # 0 /\ Running # {}
    BY <1>3, <2>2, RunningIs
  <2>5. wpc[w] = "fallback" => Running' = Running /\ Cardinality(Running)' = pause.active
    BY <1>3, <2>2, RunningIs
  <2>6. CASE d.got = inflight[i].got /\ wpc[w] = "run" /\ pause' = Left(pause)
    <3>1. Moves(pause, pause', pause.active - 1, pause.pending)
      BY <1>3, <2>4, <2>6, PauseMoves
    <3> QED  BY <1>7, <2>2, <2>3, <2>4, <2>6, <3>1, PauseKept
  <2>7. CASE /\ at[w].main <= at[w].ci /\ d.got = inflight[i].got \cup {IndexAt(inflight[i], at[w].ci)}
             /\ pause' = IF wpc[w] = "run" THEN Left(Reserved(pause)) ELSE Reserved(pause)
    <3>1. PICK g : g = IndexAt(inflight[i], at[w].ci)
      OBVIOUS
    <3>2. g \notin inflight[i].got
      BY <2>2, <2>3, <2>7, <3>1, FrameAtWork
    <3>3. Cardinality(d.got) = Cardinality(inflight[i].got) + 1
      BY <2>7, <3>1, <3>2, Numbers, FS_AddElement
    <3>4. Total' = pause.pending + 1
      BY <1>3, <1>4, <2>2, <2>3, <3>3, GotTouched
    <3>5. CASE wpc[w] = "run"
      <4>1. Moves(pause, pause', pause.active - 1, pause.pending + 1)
        BY <1>3, <2>4, <2>7, <3>5, PauseMoves
      <4> QED  BY <2>4, <3>4, <3>5, <4>1, PauseKept
    <3>6. CASE wpc[w] = "fallback"
      <4>1. Moves(pause, pause', pause.active, pause.pending + 1)
        <5>1. pause' = Reserved(pause)
          BY <2>7, <3>6
        <5> QED  BY <1>3, <5>1, PauseMoves
      <4>2. g \in Faulty
        BY <2>2, <2>3, <3>1, <3>6, InflightTypes DEF BlocksOf, FailOK
      <4>3. Faults => d.got \subseteq Faulty /\ \A j \in 1 .. Len(inflight) : inflight[j].got \subseteq Faulty
        BY <2>7, <3>1, <4>2 DEF Faults
      <4>4. Faults => Faults'
        BY <1>5, <2>2, <2>3, <4>3, GotTouched
      <4> QED  BY <2>5, <3>4, <3>6, <4>1, <4>4, PauseKept
    <3> QED  BY <2>2, <3>5, <3>6
  <2> QED  BY <2>2, <2>6, <2>7
<1> QED  BY <1>2, <1>9, <1>10, <1>11, <1>12, <1>13, <1>14 DEF WorkerStep

\* The writer gives a reservation back when it is done with the frame, whatever became of it.
LEMMA PauseWriter ==
    ASSUME Inv, [Next]_vars, Writer
    PROVE  PauseInv'
<1>1. UNCHANGED <<wpc, inflight, hand>>
  BY WriterFrame
<1>2. pause \in PauseRec /\ (pause.acked => pause.requested) /\ pause.active = Cardinality(Running) /\ pause.pending = Total
      /\ pause.active \in Nat /\ pause.pending \in Nat
  BY PauseNow
<1>3. PICK A, B, C, D, E \in Nat :
          /\ A = GotIn(inflight) /\ B = Cardinality(hand.got) /\ C = Count(writeQ) /\ D = Cardinality(DOMAIN load)
          /\ E = (IF xpc \in {"safe", "parked"} THEN 1 ELSE 0) /\ pause.pending = A + B + C + D + E
  <2>1. GotIn(inflight) \in Nat /\ Cardinality(hand.got) \in Nat /\ Count(writeQ) \in Nat /\ Cardinality(DOMAIN load) \in Nat
    BY Numbers
  <2>2. (IF xpc \in {"safe", "parked"} THEN 1 ELSE 0) \in Nat
    OBVIOUS
  <2> QED  BY <1>2, <2>1, <2>2 DEF Total
<1>4. Running' = Running /\ Cardinality(Running)' = pause.active
  BY <1>1, <1>2 DEF Running
<1>5. Total' = A + B + Count(writeQ') + Cardinality(DOMAIN load') + (IF xpc' \in {"safe", "parked"} THEN 1 ELSE 0)
  BY <1>1, <1>3 DEF Total
<1>6. ASSUME NEW n, n = Total', Moves(pause, pause', pause.active, n), Faults => Faults'
      PROVE  PauseInv'
  BY <1>4, <1>6, PauseKept
<1>7. writeQ \in Seq(Items \cup {EndOfWrites}) /\ load \in Items /\ IsFiniteSet(DOMAIN load)
  BY Numbers DEF Inv, Types, WriterTypes
<1>8. CASE TakeItem
  <2>1. UNCHANGED pause /\ xpc = "write" /\ load = NoFrames /\ xpc' \in {"write", "done"}
    BY <1>8 DEF TakeItem
  <2>2. D = 0 /\ E = 0
    BY <1>3, <2>1, ItemsAre, FS_EmptySet
  <2>3. Moves(pause, pause', pause.active, pause.pending)
    BY <1>2, <2>1, PauseMoves
  <2>4. CASE UNCHANGED <<writeQ, load>>
    <3>1. Total' = pause.pending
      BY <1>3, <1>5, <2>1, <2>2, <2>4
    <3>2. Faults => Faults'
      BY <1>1, <2>4 DEF Faults
    <3> QED  BY <1>6, <2>3, <3>1, <3>2
  <2>5. CASE writeQ # <<>> /\ writeQ' = Tail(writeQ)
    <3>1. PICK h : h = writeQ[1]
      OBVIOUS
    <3>2. /\ h = Head(writeQ) /\ 1 \in 1 .. Len(writeQ) /\ h \in Items \cup {EndOfWrites} /\ Len(writeQ) \in Nat
          /\ \A i \in 1 .. Len(writeQ') : writeQ'[i] = writeQ[i + 1] /\ i + 1 \in 1 .. Len(writeQ)
      BY <1>7, <2>5, <3>1, Tails
    <3>3. /\ Count(writeQ') \in Nat
          /\ h \in Items => C = Cardinality(DOMAIN h) + Count(writeQ')
          /\ h = EndOfWrites => C = Count(writeQ')
      BY <1>3, <1>7, <2>5, <3>1, CountFirst
    <3>4. Faults => \A i \in 1 .. Len(writeQ') : \A g \in DOMAIN writeQ'[i] : g \in Frames => g \in Faulty
      BY <3>2 DEF Faults
    <3>5. CASE h = EndOfWrites
      <4>1. UNCHANGED load
        BY <1>8, <2>5, <3>2, <3>5 DEF TakeItem
      <4>2. Total' = pause.pending
        BY <1>3, <1>5, <2>1, <2>2, <3>3, <3>5, <4>1
      <4>3. Faults => Faults'
        BY <1>1, <3>4, <4>1 DEF Faults
      <4> QED  BY <1>6, <2>3, <4>2, <4>3
    <3>6. CASE h \in Items
      <4>1. h # EndOfWrites /\ load' = h
        BY <1>8, <2>5, <3>2, <3>6, ItemsAre DEF TakeItem
      <4>2. Cardinality(DOMAIN load') = Cardinality(DOMAIN h) /\ Cardinality(DOMAIN h) \in Nat /\ DOMAIN h \subseteq Frames
        BY <3>6, <4>1, ItemSizes
      <4>3. Total' = pause.pending
        <5>1. PICK x, y \in Nat : x = Cardinality(DOMAIN h) /\ y = Count(writeQ')
          BY <3>3, <4>2
        <5>2. C = x + y /\ Total' = A + B + y + x + 0
          BY <1>5, <2>1, <3>3, <3>6, <4>2, <5>1
        <5> QED  BY <1>3, <2>2, <5>2
      <4>4. Faults => DOMAIN h \subseteq Faulty
        BY <3>1, <3>2, <4>2 DEF Faults
      <4>5. Faults => Faults'
        BY <1>1, <3>4, <4>1, <4>4 DEF Faults
      <4> QED  BY <1>6, <2>3, <4>3, <4>5
    <3> QED  BY <3>2, <3>5, <3>6
  <2> QED  BY <1>8, <2>4, <2>5 DEF TakeItem
<1>9. CASE WriteFrame
  <2>1. PICK gi : gi = Least(DOMAIN load) /\ gi \in DOMAIN load /\ DOMAIN Without(load, gi) = DOMAIN load \ {gi}
    BY <1>9, LoadIs DEF WriteFrame
  <2>2. UNCHANGED writeQ /\ xpc = "write" /\ E = 0 /\ Count(writeQ') = C
    BY <1>3, <1>9 DEF WriteFrame, queueVars
  <2>3. D # 0 /\ Cardinality(DOMAIN load \ {gi}) = D - 1
    BY <1>3, <1>7, <2>1, FS_RemoveElement, FS_EmptySet
  <2>4. D <= pause.pending /\ pause.pending # 0
    BY <1>3, <2>3
  <2>5. CASE pause' = Released(pause) /\ load' = Without(load, gi) /\ UNCHANGED xpc
    <3>1. Total' = pause.pending - 1
      <4>1. Total' = A + B + C + (D - 1) + 0
        BY <1>5, <2>1, <2>2, <2>3, <2>5
      <4> QED  BY <1>3, <2>2, <2>3, <4>1
    <3>2. Moves(pause, pause', pause.active, pause.pending - 1)
      BY <1>2, <2>4, <2>5, PauseMoves
    <3>3. Faults => Faults'
      BY <1>1, <2>1, <2>2, <2>5 DEF Faults
    <3> QED  BY <1>6, <3>1, <3>2, <3>3
  <2>6. CASE UNCHANGED pause /\ load' = Without(load, gi) /\ xpc' = "safe"
    <3>1. Total' = pause.pending
      <4>1. Total' = A + B + C + (D - 1) + 1
        BY <1>5, <2>1, <2>2, <2>3, <2>6
      <4> QED  BY <1>3, <2>2, <2>3, <4>1
    <3>2. Moves(pause, pause', pause.active, pause.pending)
      BY <1>2, <2>6, PauseMoves
    <3>3. Faults => Faults'
      BY <1>1, <2>1, <2>2, <2>6 DEF Faults
    <3> QED  BY <1>6, <3>1, <3>2, <3>3
  <2>7. CASE pause' = ReleasedMany(pause, D) /\ load' = NoFrames /\ xpc' = "dead"
    <3>1. Cardinality(DOMAIN load') = 0 /\ DOMAIN load' = {}
      BY <2>7, ItemsAre, FS_EmptySet
    <3>2. Total' = pause.pending - D
      <4>1. Total' = A + B + C + 0 + 0
        BY <1>5, <2>2, <2>7, <3>1
      <4> QED  BY <1>3, <2>2, <4>1
    <3>3. Moves(pause, pause', pause.active, pause.pending - D)
      BY <1>2, <2>4, <2>7, PauseMoves
    <3>4. Faults => Faults'
      BY <1>1, <2>2, <3>1 DEF Faults
    <3> QED  BY <1>6, <3>2, <3>3, <3>4
  <2> QED  BY <1>3, <1>9, <2>1, <2>5, <2>6, <2>7 DEF WriteFrame
<1>10. CASE AtSafePoint \/ Unpark
  <2>1. UNCHANGED <<writeQ, load>> /\ xpc \in {"safe", "parked"}
    BY <1>10 DEF AtSafePoint, Unpark, queueVars
  <2>2. Count(writeQ') = C /\ Cardinality(DOMAIN load') = D /\ E = 1
    BY <1>3, <2>1
  <2>3. Faults => Faults'
    BY <1>1, <2>1 DEF Faults
  <2>4. CASE UNCHANGED pause /\ xpc' = "parked"
    <3>1. Total' = pause.pending
      BY <1>3, <1>5, <2>2, <2>4
    <3>2. Moves(pause, pause', pause.active, pause.pending)
      BY <1>2, <2>4, PauseMoves
    <3> QED  BY <1>6, <2>3, <3>1, <3>2
  <2>5. CASE pause' = Released(pause) /\ xpc' = "write"
    <3>1. Total' = pause.pending - 1 /\ pause.pending # 0
      BY <1>3, <1>5, <2>2, <2>5
    <3>2. Moves(pause, pause', pause.active, pause.pending - 1)
      BY <1>2, <2>5, <3>1, PauseMoves
    <3> QED  BY <1>6, <2>3, <3>1, <3>2
  <2> QED  BY <1>10, <2>4, <2>5 DEF AtSafePoint, Unpark
<1> QED  BY <1>8, <1>9, <1>10 DEF Writer

\* The coordinator moves results on, or releases the ones nobody will write.
LEMMA PauseCoord ==
    ASSUME Inv, [Next]_vars, Coordinator
    PROVE  PauseInv'
<1>1. UNCHANGED <<wpc, load, xpc>>
  BY CoordFrame
<1>2. pause \in PauseRec /\ (pause.acked => pause.requested) /\ pause.active = Cardinality(Running) /\ pause.pending = Total
      /\ pause.active \in Nat /\ pause.pending \in Nat
  BY PauseNow
<1>3. PICK A, B, C, D \in Nat :
          /\ A = GotIn(inflight) /\ B = Cardinality(hand.got) /\ C = Count(writeQ)
          /\ D = Cardinality(DOMAIN load) + (IF xpc \in {"safe", "parked"} THEN 1 ELSE 0) /\ pause.pending = A + B + C + D
  <2>1. PICK a, b, c, d, e \in Nat :
            /\ a = GotIn(inflight) /\ b = Cardinality(hand.got) /\ c = Count(writeQ) /\ d = Cardinality(DOMAIN load)
            /\ e = (IF xpc \in {"safe", "parked"} THEN 1 ELSE 0)
    <3>1. GotIn(inflight) \in Nat /\ Cardinality(hand.got) \in Nat /\ Count(writeQ) \in Nat /\ Cardinality(DOMAIN load) \in Nat
      BY Numbers
    <3>2. (IF xpc \in {"safe", "parked"} THEN 1 ELSE 0) \in Nat
      OBVIOUS
    <3> QED  BY <3>1, <3>2
  <2>2. pause.pending = a + b + c + d + e
    BY <1>2, <2>1 DEF Total
  <2>3. PICK x \in Nat : x = d + e
    OBVIOUS
  <2>4. pause.pending = a + b + c + x
    BY <2>2, <2>3
  <2> QED  BY <2>1, <2>3, <2>4
<1>4. Running' = Running /\ Cardinality(Running)' = pause.active
  BY <1>1, <1>2 DEF Running
<1>5. ASSUME NEW x \in Nat, NEW y \in Nat, NEW z \in Nat,
             GotIn(inflight') = x, Cardinality(hand'.got) = y, Count(writeQ') = z
      PROVE  Total' = x + y + z + D
  <2>1. PICK d, e \in Nat : d = Cardinality(DOMAIN load) /\ e = (IF xpc \in {"safe", "parked"} THEN 1 ELSE 0)
    <3>1. Cardinality(DOMAIN load) \in Nat
      BY Numbers
    <3> QED  BY <3>1
  <2>2. Total' = x + y + z + d + e
    BY <1>1, <1>5, <2>1 DEF Total
  <2>3. D = d + e
    BY <1>3, <2>1
  <2> QED  BY <2>2, <2>3
<1>6. ASSUME NEW n, n = Total', Moves(pause, pause', pause.active, n), Faults => Faults'
      PROVE  PauseInv'
  BY <1>4, <1>6, PauseKept
<1>7. /\ writeQ \in Seq(Items \cup {EndOfWrites}) /\ inflight \in Seq(ChunkRec)
      /\ \A i \in 1 .. Len(inflight) : inflight[i] \in ChunkRec /\ ChunkOK(inflight[i])
  BY InflightTypes DEF Inv, Types, WriterTypes
<1>8. Cardinality({}) = 0 /\ NoChunk.got = {}
  BY NoChunkIs, FS_EmptySet
<1>9. ASSUME UNCHANGED <<pause, inflight, hand, writeQ>> PROVE PauseInv'
  <2>1. Total' = pause.pending /\ (Faults => Faults')
    BY <1>1, <1>2, <1>9 DEF Total, Faults
  <2>2. Moves(pause, pause', pause.active, pause.pending)
    BY <1>2, <1>9, PauseMoves
  <2> QED  BY <1>6, <2>1, <2>2
<1>10. CASE TakeEnd \/ NothingLeft \/ Drained \/ AllRetired \/ Boundary \/ Requeue \/ Leave \/ JoinWriter \/ JoinReader
  <2>1. UNCHANGED <<pause, inflight, hand, writeQ>>
    BY <1>10 DEF TakeEnd, NothingLeft, Drained, AllRetired, Boundary, Requeue, Leave, JoinWriter, JoinReader, queueVars, settleVars
  <2> QED  BY <1>9, <2>1
<1>11. CASE Dispatch
  <2>1. PICK c \in ChunkRec : ChunkOK(c) /\ c.got = {} /\ inflight' = Append(inflight, c)
    BY <1>11, DispatchIs
  <2>2. UNCHANGED <<pause, hand, writeQ>>
    BY <1>11 DEF Dispatch, settleVars
  <2>3. GotIn(inflight') = A
    <3>1. GotIn(Append(inflight, c)) = GotIn(inflight) + Cardinality(c.got)
      BY <1>7, <2>1, GotLast
    <3>2. Cardinality(c.got) = 0
      BY <1>8, <2>1
    <3>3. GotIn(inflight') = A + 0
      BY <1>3, <2>1, <3>1, <3>2
    <3> QED  BY <1>3, <3>3
  <2>4. Total' = pause.pending
    BY <1>3, <1>5, <2>2, <2>3
  <2>5. \A i \in 1 .. Len(inflight') : inflight'[i] = c \/ (i \in 1 .. Len(inflight) /\ inflight'[i] = inflight[i])
    <3>1. /\ Len(inflight) \in Nat /\ Len(inflight') = Len(inflight) + 1 /\ inflight'[Len(inflight) + 1] = c
          /\ \A i \in 1 .. Len(inflight) : inflight'[i] = inflight[i]
      BY <1>7, <2>1, Appends, Empty
    <3> QED  BY <3>1
  <2>6. Faults => Faults'
    BY <1>1, <2>1, <2>2, <2>5 DEF Faults
  <2>7. Moves(pause, pause', pause.active, pause.pending)
    BY <1>2, <2>2, PauseMoves
  <2> QED  BY <1>6, <2>4, <2>6, <2>7
<1>12. ASSUME inflight # <<>>, inflight' = Tail(inflight)
       PROVE  /\ GotIn(inflight') \in Nat /\ A = Cardinality(inflight[1].got) + GotIn(inflight') /\ 1 \in 1 .. Len(inflight)
              /\ Faults => inflight[1].got \subseteq Faulty /\ \A i \in 1 .. Len(inflight') : inflight'[i].got \subseteq Faulty
              /\ IsFiniteSet(inflight[1].got) /\ Cardinality(inflight[1].got) \in Nat
  <2>1. GotIn(inflight') \in Nat /\ A = Cardinality(inflight[1].got) + GotIn(inflight')
    BY <1>3, <1>7, <1>12, GotFirst
  <2>2. 1 \in 1 .. Len(inflight) /\ \A i \in 1 .. Len(inflight') : inflight'[i] = inflight[i + 1] /\ i + 1 \in 1 .. Len(inflight)
    BY <1>12, Oldest
  <2>3. Faults => inflight[1].got \subseteq Faulty /\ \A i \in 1 .. Len(inflight') : inflight'[i].got \subseteq Faulty
    BY <2>2 DEF Faults
  <2>4. IsFiniteSet(inflight[1].got) /\ Cardinality(inflight[1].got) \in Nat
    BY <2>2, Numbers
  <2> QED  BY <2>1, <2>2, <2>3, <2>4
<1>13. CASE Settle
  <2>1. UNCHANGED <<pause, writeQ>> /\ inflight # <<>> /\ phase \in {"top", "drain"}
    BY <1>13 DEF Settle
  <2>2. CASE UNCHANGED <<hand, inflight>>
    BY <1>9, <2>1, <2>2
  <2>3. CASE hand' = Head(inflight) /\ inflight' = Tail(inflight)
    <3>1. hand = NoChunk /\ hand' = inflight[1]
      BY <2>1, <2>3, CoordIs, Oldest DEF Handing
    <3>2. B = 0
      BY <1>3, <1>8, <3>1
    <3>3. PICK x, y \in Nat : x = GotIn(inflight') /\ y = Cardinality(hand'.got) /\ A = y + x
      BY <1>12, <2>1, <2>3, <3>1
    <3>4. Total' = x + y + C + D
      BY <1>3, <1>5, <2>1, <3>3
    <3>5. Total' = pause.pending
      BY <1>3, <3>2, <3>3, <3>4
    <3>6. Faults => Faults'
      BY <1>1, <1>12, <2>1, <2>3, <3>1 DEF Faults
    <3>7. Moves(pause, pause', pause.active, pause.pending)
      BY <1>2, <2>1, PauseMoves
    <3> QED  BY <1>6, <3>5, <3>6, <3>7
  <2> QED  BY <1>13, <2>2, <2>3 DEF Settle, settleVars
<1>14. CASE Enqueue \/ EnqueuePart
  <2>1. Handing /\ UNCHANGED inflight /\ hand' = NoChunk /\ (Enqueued \/ NotEnqueued)
    BY <1>14 DEF Enqueue, EnqueuePart, Handing
  <2>2. Cardinality(hand'.got) = 0 /\ hand'.got = {}
    BY <1>8, <2>1
  <2>3. CASE Enqueued
    <3>1. PICK x \in Items : x = Results(hand) /\ DOMAIN x = hand.got /\ writeQ' = Append(writeQ, x)
      BY <2>1, <2>3, HandOver
    <3>2. UNCHANGED pause
      BY <2>3 DEF Enqueued
    <3>3. Count(writeQ') = C + B
      <4>1. Count(Append(writeQ, x)) = Count(writeQ) + Cardinality(DOMAIN x)
        BY <1>7, CountLast
      <4> QED  BY <1>3, <3>1, <4>1
    <3>4. Total' = A + 0 + (C + B) + D
      BY <1>3, <1>5, <2>1, <2>2, <3>3
    <3>5. Total' = pause.pending
      BY <1>3, <3>4
    <3>6. \A i \in 1 .. Len(writeQ') : writeQ'[i] = x \/ (i \in 1 .. Len(writeQ) /\ writeQ'[i] = writeQ[i])
      <4>1. /\ Len(writeQ) \in Nat /\ Len(writeQ') = Len(writeQ) + 1 /\ writeQ'[Len(writeQ) + 1] = x
            /\ \A i \in 1 .. Len(writeQ) : writeQ'[i] = writeQ[i]
        BY <1>7, <3>1, Appends, Empty
      <4> QED  BY <4>1
    <3>7. Faults => Faults'
      BY <1>1, <2>1, <2>2, <3>1, <3>6 DEF Faults
    <3>8. Moves(pause, pause', pause.active, pause.pending)
      BY <1>2, <3>2, PauseMoves
    <3> QED  BY <1>6, <3>5, <3>7, <3>8
  <2>4. CASE NotEnqueued
    <3>1. UNCHANGED writeQ /\ pause' = ReleasedMany(pause, B)
      BY <1>3, <2>1, <2>4, HandOver
    <3>2. Total' = A + 0 + C + D
      BY <1>3, <1>5, <2>1, <2>2, <3>1
    <3>3. Total' = pause.pending - B /\ B <= pause.pending
      BY <1>3, <3>2
    <3>4. Moves(pause, pause', pause.active, pause.pending - B)
      BY <1>2, <3>1, <3>3, PauseMoves
    <3>5. Faults => Faults'
      BY <1>1, <2>1, <2>2, <3>1 DEF Faults
    <3> QED  BY <1>6, <3>3, <3>4, <3>5
  <2> QED  BY <2>1, <2>3, <2>4
<1>15. CASE Retire
  <2>1. inflight # <<>> /\ UNCHANGED writeQ /\ phase = "retire" /\ hand = NoChunk
    BY <1>15, CoordIs DEF Retire, Handing
  <2>2. B = 0
    BY <1>3, <1>8, <2>1
  <2>3. CASE UNCHANGED <<hand, inflight, pause>>
    BY <1>9, <2>1, <2>3
  <2>4. CASE UNCHANGED hand /\ inflight' = Tail(inflight) /\ pause' = ReleasedMany(pause, Cardinality(inflight[1].got))
    <3>1. PICK x, y \in Nat : x = GotIn(inflight') /\ y = Cardinality(inflight[1].got) /\ A = y + x
      BY <1>12, <2>1, <2>4
    <3>2. Total' = x + B + C + D
      BY <1>3, <1>5, <2>1, <2>4, <3>1
    <3>3. Total' = pause.pending - y /\ y <= pause.pending
      BY <1>3, <3>1, <3>2
    <3>4. Moves(pause, pause', pause.active, pause.pending - y)
      BY <1>2, <2>4, <3>1, <3>3, PauseMoves
    <3>5. Faults => Faults'
      BY <1>1, <1>12, <2>1, <2>4 DEF Faults
    <3> QED  BY <1>6, <3>3, <3>4, <3>5
  <2>5. CASE /\ inflight' = Tail(inflight)
             /\ \E g \in SUBSET inflight[1].got :
                   pause' = ReleasedMany(pause, Cardinality(inflight[1].got \ g)) /\ hand'.got = g
    <3>1. PICK g \in SUBSET inflight[1].got :
              pause' = ReleasedMany(pause, Cardinality(inflight[1].got \ g)) /\ hand'.got = g
      BY <2>5
    <3>2. PICK S : S = inflight[1].got /\ IsFiniteSet(S)
      BY <1>12, <2>1, <2>5
    <3>3. /\ Cardinality(S \ g) \in Nat /\ Cardinality(g) \in Nat /\ Cardinality(S) \in Nat
          /\ Cardinality(S) = Cardinality(S \ g) + Cardinality(g)
      <4>1. IsFiniteSet(g) /\ IsFiniteSet(S \ g)
        BY <3>1, <3>2, FS_Subset
      <4>2. Cardinality(S \ g) \in Nat /\ Cardinality(g) \in Nat /\ Cardinality(S) \in Nat
        BY <3>2, <4>1, FS_CardinalityType
      <4>3. Cardinality(S \ g) = Cardinality(S) - Cardinality(S \cap g) /\ S \cap g = g
        BY <3>1, <3>2, FS_Difference
      <4>4. Cardinality(S \ g) = Cardinality(S) - Cardinality(g)
        BY <4>3
      <4>5. PICK k, l, m \in Nat : k = Cardinality(S \ g) /\ l = Cardinality(g) /\ m = Cardinality(S)
        BY <4>2
      <4>6. k = m - l
        BY <4>4, <4>5
      <4>7. m = k + l
        BY <4>5, <4>6
      <4> QED  BY <4>5, <4>7
    <3>4. PICK x, y, z \in Nat : /\ x = GotIn(inflight') /\ y = Cardinality(S \ g) /\ z = Cardinality(g)
                                 /\ A = y + z + x
      <4>1. PICK x \in Nat : x = GotIn(inflight') /\ A = Cardinality(S) + x
        BY <1>12, <2>1, <2>5, <3>2
      <4> QED  BY <3>3, <4>1
    <3>5. Total' = x + z + C + D
      BY <1>3, <1>5, <2>1, <3>1, <3>4
    <3>6. Total' = pause.pending - y /\ y <= pause.pending
      BY <1>3, <2>2, <3>4, <3>5
    <3>7. Moves(pause, pause', pause.active, pause.pending - y)
      BY <1>2, <3>1, <3>2, <3>4, <3>6, PauseMoves
    <3>8. Faults => hand'.got \subseteq Faulty
      BY <1>12, <2>1, <2>5, <3>1
    <3>9. Faults => Faults'
      BY <1>1, <1>12, <2>1, <2>5, <3>8 DEF Faults
    <3> QED  BY <1>6, <3>6, <3>7, <3>9
  <2> QED  BY <1>15, <2>3, <2>4, <2>5, RetireIs
<1>16. CASE JoinPool
  <2>1. /\ inflight' = <<>> /\ UNCHANGED hand
        /\ \/ ~processing' /\ writeQ' = <<>> /\ pause' = ReleasedMany(pause, A + C)
           \/ processing' /\ UNCHANGED writeQ /\ pause' = ReleasedMany(pause, A + 0)
    BY <1>3, <1>16 DEF JoinPool, settleVars
  <2>2. GotIn(inflight') = 0 /\ Count(<<>>) = 0
    BY <2>1, NothingIn
  <2>3. CASE writeQ' = <<>> /\ pause' = ReleasedMany(pause, A + C)
    <3>1. Total' = 0 + B + 0 + D
      BY <1>3, <1>5, <2>1, <2>2, <2>3
    <3>2. Total' = pause.pending - (A + C) /\ A + C <= pause.pending /\ A + C \in Nat
      BY <1>3, <3>1
    <3>3. Moves(pause, pause', pause.active, pause.pending - (A + C))
      BY <1>2, <2>3, <3>2, PauseMoves
    <3>4. Faults => Faults'
      BY <1>1, <2>1, <2>3 DEF Faults
    <3> QED  BY <1>6, <3>2, <3>3, <3>4
  <2>4. CASE UNCHANGED writeQ /\ pause' = ReleasedMany(pause, A + 0)
    <3>1. Total' = 0 + B + C + D
      BY <1>3, <1>5, <2>1, <2>2, <2>4
    <3>2. Total' = pause.pending - A /\ A <= pause.pending /\ A + 0 = A
      BY <1>3, <3>1
    <3>3. Moves(pause, pause', pause.active, pause.pending - A)
      BY <1>2, <2>4, <3>2, PauseMoves
    <3>4. Faults => Faults'
      BY <1>1, <2>1, <2>4 DEF Faults
    <3> QED  BY <1>6, <3>2, <3>3, <3>4
  <2> QED  BY <2>1, <2>3, <2>4
<1>17. CASE StopWriter
  <2>1. UNCHANGED <<pause, inflight, hand>> /\ writeQ' \in {writeQ, Append(writeQ, EndOfWrites)}
    BY <1>17 DEF StopWriter, settleVars
  <2>2. CASE UNCHANGED writeQ
    BY <1>9, <2>1, <2>2
  <2>3. CASE writeQ' = Append(writeQ, EndOfWrites)
    <3>1. PICK x : x = EndOfWrites /\ writeQ' = Append(writeQ, x) /\ x \in Items \cup {EndOfWrites}
      BY <2>3
    <3>2. Count(writeQ') = C
      BY <1>3, <1>7, <3>1, CountLast
    <3>3. Total' = pause.pending
      BY <1>3, <1>5, <2>1, <3>2
    <3>4. \A i \in 1 .. Len(writeQ') : writeQ'[i] = x \/ (i \in 1 .. Len(writeQ) /\ writeQ'[i] = writeQ[i])
      <4>1. /\ Len(writeQ) \in Nat /\ Len(writeQ') = Len(writeQ) + 1 /\ writeQ'[Len(writeQ) + 1] = x
            /\ \A i \in 1 .. Len(writeQ) : writeQ'[i] = writeQ[i]
        BY <1>7, <3>1, Appends, Empty
      <4> QED  BY <4>1
    <3>5. \A g \in DOMAIN x : g \notin Frames
      BY <3>1, ItemsAre, Sizes
    <3>6. Faults => Faults'
      BY <1>1, <2>1, <3>4, <3>5 DEF Faults
    <3>7. Moves(pause, pause', pause.active, pause.pending)
      BY <1>2, <2>1, PauseMoves
    <3> QED  BY <1>6, <3>3, <3>6, <3>7
  <2> QED  BY <2>1, <2>2, <2>3
<1> QED  BY <1>10, <1>11, <1>13, <1>14, <1>15, <1>16, <1>17 DEF Coordinator

LEMMA PauseStep == Inv /\ [Next]_vars => PauseInv'
<1> SUFFICES ASSUME Inv, [Next]_vars PROVE PauseInv'
  OBVIOUS
<1> QED  BY PauseElse, PauseWorker, PauseWriter, PauseCoord DEF Next

-----------------------------------------------------------------------------
(* The theorems.                                                            *)

LEMMA NextKeeps == Inv /\ [Next]_vars => Inv'
BY TypesStep, PhasedStep, GridStep, BlockStep, EncodedStep, HandStep, PauseStep DEF Inv

LEMMA InitHolds == Init => Inv
<1> SUFFICES ASSUME Init PROVE Inv
  OBVIOUS
<1>1. /\ processing = TRUE /\ rpc = "read" /\ held = <<>> /\ decoded = 0 /\ prefetch = <<>> /\ workQ = <<>>
      /\ phase = "top" /\ back = "top" /\ inflight = <<>> /\ hand = NoChunk /\ retry = <<>> /\ bad = FALSE
      /\ carry = <<>> /\ chunkStart = 0 /\ chunkNo = 0 /\ writeQ = <<>> /\ xpc = "write" /\ load = NoFrames
      /\ written = {} /\ writerError = FALSE /\ encoded = <<>> /\ raised = FALSE /\ writerStop = FALSE
      /\ workerError = FALSE /\ readerError = FALSE
  BY DEF Init
<1>2. Len(<<>>) = 0 /\ \A S : <<>> \in Seq(S)
  OBVIOUS
<1>3. ~Handing /\ Busy = {} /\ Running = {} /\ ~Marked(prefetch) /\ Waiting(prefetch) = <<>>
  BY <1>1 DEF Init, Handing, Busy, Running, Marked, Waiting
<1>4. Types
  <2>1. FlagTypes
    <3>1. PICK asked \in BOOLEAN :
              pause = [requested |-> asked, acked |-> asked, active |-> 0, pending |-> 0] /\ pauseFlag = asked
      BY Zenon DEF Init
    <3>2. pause \in PauseRec
      BY <3>1 DEF PauseRec
    <3>3. /\ processing = TRUE /\ stopped = FALSE /\ call = "none" /\ workerError = FALSE
          /\ writerError = FALSE /\ readerError = FALSE /\ raised = FALSE
      BY Zenon DEF Init
    <3>4. /\ processing \in BOOLEAN /\ stopped \in BOOLEAN /\ workerError \in BOOLEAN /\ writerError \in BOOLEAN
          /\ readerError \in BOOLEAN /\ raised \in BOOLEAN
      BY <3>3, Zenon
    <3> QED  BY <3>1, <3>2, <3>3, <3>4, Zenon DEF FlagTypes
  <2>2. ReaderTypes
    BY <1>1, <1>2, Sizes DEF ReaderTypes
  <2>3. WorkerTypes
    <3>1. Nowhere \in AtRec
      BY DEF Nowhere, AtRec
    <3> QED  BY <1>1, <1>2, <3>1 DEF Init, WorkerTypes
  <2>4. CoordTypes
    <3>1. bad = FALSE /\ requeued = FALSE /\ writerStop = FALSE /\ consumerDone = FALSE
      BY Zenon DEF Init
    <3>2. bad \in BOOLEAN /\ requeued \in BOOLEAN /\ writerStop \in BOOLEAN /\ consumerDone \in BOOLEAN
      BY <3>1, Zenon
    <3>3. /\ inflight \in Seq(ChunkRec) /\ retry \in Seq(ChunkRec) /\ carry \in Seq(Nat) /\ chunkStart \in Nat
          /\ chunkNo \in Nat
      BY <1>1, <1>2
    <3>4. phase \in Phases /\ back \in {"top", "drain"} /\ hand = NoChunk
      BY <1>1 DEF Phases
    <3> QED  BY <1>3, <3>2, <3>3, <3>4, Zenon DEF CoordTypes
  <2>5. WriterTypes
    BY <1>1, <1>2, ItemsAre, Sizes DEF WriterTypes
  <2> QED  BY <2>1, <2>2, <2>3, <2>4, <2>5 DEF Types
<1>5. Phased
  <2>1. MarkInv
    BY <1>1, <1>2, <1>3 DEF MarkInv
  <2>2. LoopInv
    <3>1. Len(inflight) = 0 /\ Len(retry) = 0 /\ Len(Waiting(prefetch)) = 0
      BY <1>1, <1>2, <1>3
    <3> QED  BY <1>1, <1>3, <3>1, Sizes DEF LoopInv
  <2>3. ErrorInv
    BY <1>1 DEF ErrorInv
  <2>4. WriterInv
    BY <1>1, <1>2 DEF WriterInv
  <2> QED  BY <2>1, <2>2, <2>3, <2>4 DEF Phased
<1>6. ShapeInv
  BY <1>1, <1>2, <1>3 DEF ShapeInv
<1>7. GridInv
  <2>1. Smaller(WarmUp, 0) = 0
    BY Sizes DEF Smaller
  <2>2. <<>> = Span(0, 0)
    BY DEF Span
  <2>3. Len(carry) = 0 /\ chunkStart - Len(carry) = 0 /\ decoded - Len(held) = 0
    <3>1. Len(carry) = 0 /\ Len(held) = 0 /\ chunkStart = 0 /\ decoded = 0
      BY <1>1, <1>2
    <3> QED  BY <3>1
  <2>4. Chain(inflight, chunkStart)
    BY <1>1, ChainEmpty
  <2>5. Pieces(Waiting(prefetch), chunkStart, decoded - Len(held))
    BY <1>1, <1>3, <2>3, PiecesEmpty, Sizes
  <2> QED  BY <1>1, <1>3, <2>1, <2>2, <2>3, <2>4, <2>5, Sizes DEF GridInv, Handing
<1>8. BlockInv
  <2>1. QuitInv
    BY <1>1, <1>2 DEF Init, QuitInv, Torn
  <2>2. KnownInv /\ ApartInv
    BY <1>1, <1>2, <1>3 DEF KnownInv, ApartInv
  <2>3. WorkInv /\ CoverInv
    BY <1>1, <1>2 DEF WorkInv, CoverInv
  <2> QED  BY <2>1, <2>2, <2>3 DEF BlockInv
<1>9. EncodedInv
  <2>1. {} = 0 .. 0 - 1
    OBVIOUS
  <2> QED  BY <1>1, <1>2, <2>1 DEF EncodedInv
<1>10. HandInv
  <2>1. Len(writeQ) = 0
    BY <1>1, <1>2
  <2>2. \A i \in 0 .. 0 : \A g : g \notin Put(i)
    BY <1>1, ItemsAre DEF Put
  <2>3. Handed = {}
    BY <1>1, <2>1, <2>2, NoChunkIs DEF Handed
  <2>4. Due = 0
    BY <1>1, NoChunkIs DEF Due, First
  <2>5. 0 .. Due - 1 \subseteq Handed
    BY <2>4
  <2>6. phase \notin Torn \cup {"leave"}
    BY <1>1 DEF Torn
  <2> QED  BY <2>1, <2>2, <2>3, <2>5, <2>6 DEF HandInv, Downward
<1>11. PauseInv
  <2>1. pause.active = 0 /\ pause.pending = 0 /\ (pause.acked => pause.requested)
    BY DEF Init
  <2>2. Cardinality(hand.got) = 0 /\ Cardinality(DOMAIN load) = 0 /\ Cardinality(Running) = 0
    BY <1>1, <1>3, NoChunkIs, ItemsAre, FS_EmptySet
  <2>3. GotIn(inflight) = 0 /\ Count(writeQ) = 0
    BY <1>1, NothingIn
  <2>4. Total = 0
    BY <1>1, <2>2, <2>3 DEF Total
  <2>5. ReservationsExact
    BY <2>1, <2>4 DEF ReservationsExact, Total
  <2>6. Undelivered \subseteq Faulty
    BY <1>4, <1>6, <2>4, NoTotal, FaultsAre
  <2>7. \A w \in Workers : wpc[w] # "run"
    BY DEF Init
  <2>8. PausedIsDrained
    BY <2>6, <2>7 DEF PausedIsDrained
  <2> QED  BY <2>1, <2>2, <2>5, <2>8 DEF PauseInv
<1> QED  BY <1>4, <1>5, <1>6, <1>7, <1>8, <1>9, <1>10, <1>11 DEF Inv

LEMMA Invariant == Spec => []Inv
BY InitHolds, NextKeeps, PTL DEF Spec

\* A block is primed with exactly the raw frames before it, and a result is stored under the index
\* of the frame it was computed from, for any sizes of clip, chunk, block and warm-up, and also in
\* a chunk that _pause_boundary sent back.
THEOREM GridAligned == Spec => []Aligned
<1>1. Inv => Aligned
  <2> SUFFICES ASSUME Inv, NEW i \in DOMAIN inflight
               PROVE  /\ \A ci \in 0 .. Len(Combined(inflight[i])) - 1 : FrameAt(inflight[i], ci) = IndexAt(inflight[i], ci)
                      /\ Len(inflight[i].carry) = Smaller(WarmUp, inflight[i].start)
    BY DEF Aligned
  <2>1. inflight[i] \in ChunkRec /\ ChunkOK(inflight[i])
    BY InflightTypes
  <2> QED  BY <2>1, Places DEF ChunkOK
<1> QED  BY <1>1, Invariant, PTL

LEMMA ClipEncoded == ASSUME Inv PROVE EncodesClip
<1>1. encoded \in Seq(Nat) /\ written \subseteq Frames /\ \A i \in 1 .. Len(encoded) : encoded[i] = i - 1
  BY DEF Inv, Types, WriterTypes, EncodedInv
<1>2. DOMAIN encoded = 1 .. Len(encoded) /\ Len(encoded) \in Nat /\ written = 0 .. Len(encoded) - 1
  BY <1>1 DEF Inv, EncodedInv
<1>3. ASSUME phase = "closed", ~Failed, processing PROVE Len(encoded) = TotalFrames
  <2>1. Going
    BY <1>3 DEF Failed, Going
  <2>2. xpc = "done" /\ load = NoFrames /\ writeQ = <<>>
    BY <1>3, <2>1 DEF Inv, Phased, WriterInv, ErrorInv, WriterGone, Going
  <2>3. hand.got = {}
    BY <1>3, CoordIs, NoChunkIs DEF Handing
  <2>4. Handed = written
    <3>1. Len(writeQ) = 0
      BY <2>2
    <3>2. \A g : g \in Put(0) <=> g \in written
      BY <2>2, ItemsAre DEF Put
    <3> QED  BY <2>3, <3>1, <3>2 DEF Handed
  <2>5. 0 .. TotalFrames - 1 \subseteq Handed
    BY <1>3, <2>1 DEF Inv, HandInv, Torn
  <2>6. 0 .. TotalFrames - 1 = 0 .. Len(encoded) - 1
    BY <1>1, <1>2, <2>4, <2>5, Sizes
  <2>7. \A m, n \in Nat : 0 .. m - 1 = 0 .. n - 1 => m = n
    <3> SUFFICES ASSUME NEW m \in Nat, NEW n \in Nat, 0 .. m - 1 = 0 .. n - 1 PROVE m = n
      OBVIOUS
    <3>1. m # 0 => m - 1 \in 0 .. m - 1 /\ m - 1 \in 0 .. n - 1
      OBVIOUS
    <3>2. n # 0 => n - 1 \in 0 .. n - 1 /\ n - 1 \in 0 .. m - 1
      OBVIOUS
    <3> QED  BY <3>1, <3>2
  <2> QED  BY <1>2, <2>6, <2>7, Sizes
<1> QED  BY <1>1, <1>2, <1>3 DEF EncodesClip

\* The encoder gets the frames in the clip's order, each once, however pauses cut the chunks, and a
\* render that ends without a stop and without an error has given it the whole clip.
THEOREM VideoIsTheClip == Spec => []EncodesClip
<1>1. Inv => EncodesClip
  BY ClipEncoded
<1> QED  BY <1>1, Invariant, PTL

\* The queues of the render keep their capacities and its threads their types; the pause controller
\* counts one reservation for every result that is not with the encoder yet, also in a render that
\* is stopped or has lost its writer; and an acknowledged pause means that no model runs and nothing
\* but originals of failed frames is on its way.
THEOREM ReservationsHold == Spec => []OutputsAccounted
<1>1. Inv => OutputsAccounted
  <2> SUFFICES ASSUME Inv PROVE OutputsAccounted
    OBVIOUS
  <2>1. ReservationsExact /\ PausedIsDrained
    BY DEF Inv, PauseInv
  <2>2. pause \in [requested : BOOLEAN, acked : BOOLEAN, active : 0 .. Width, pending : Nat]
    <3>1. pause \in PauseRec /\ pause.active = Cardinality(Running)
      BY PauseNow
    <3>2. Cardinality(Running) <= Cardinality(Workers) /\ IsFiniteSet(Workers)
      <4>1. IsFiniteSet(Workers) /\ Running \in SUBSET Workers
        BY Sizes, FS_Interval DEF Running
      <4> QED  BY <4>1, FS_Subset
    <3>3. Cardinality(Workers) = Width
      <4>1. Width - 1 \in Int /\ 0 \in Int /\ Workers = 0 .. Width - 1
        BY Sizes
      <4>2. Cardinality(0 .. Width - 1) = IF 0 > Width - 1 THEN 0 ELSE (Width - 1) - 0 + 1
        BY <4>1, FS_Interval
      <4> QED  BY <4>1, <4>2, Sizes
    <3>4. pause.active \in 0 .. Width
      BY <3>1, <3>2, <3>3, Sizes, PauseNow
    <3> QED  BY <3>1, <3>4 DEF PauseRec
  <2>3. /\ rpc \in {"read", "put", "sentinel", "done"} /\ decoded \in 0 .. TotalFrames
        /\ phase \in Phases /\ xpc \in {"write", "safe", "parked", "done", "dead"}
        /\ call \in {"none", "pausing", "resuming", "stopping"}
    BY DEF Inv, Types, FlagTypes, ReaderTypes, CoordTypes, WriterTypes
  <2>4. WorkerType
    <3>1. wpc \in [Workers -> {"idle", "frame", "run", "fallback", "done"}] /\ at \in [Workers -> AtRec]
      BY DEF Inv, Types, WorkerTypes
    <3>2. ASSUME NEW w \in Workers, wpc[w] \in {"frame", "run", "fallback"}
          PROVE  \E i \in DOMAIN inflight : inflight[i].no = at[w].no
      <4>1. w \in Busy
        BY <3>2 DEF Busy
      <4>2. PICK i \in 1 .. Len(inflight) : inflight[i].no = at[w].no
        BY <4>1 DEF Inv, BlockInv, KnownInv
      <4>3. i \in DOMAIN inflight
        BY InflightTypes
      <4> QED  BY <4>2, <4>3
    <3> QED  BY <3>1, <3>2 DEF WorkerType, AtRec
  <2>5. QueueType
    <3>1. prefetch \in Seq(Seq(Int)) /\ Len(prefetch) \in Nat /\ Len(Waiting(prefetch)) \in Nat /\ Len(inflight) \in Nat /\ Len(retry) \in Nat
      BY CoordIs
    <3>2. /\ \A i \in 1 .. Len(Waiting(prefetch)) : Len(Waiting(prefetch)[i]) \in 1 .. Chunk
          /\ Len(inflight) + Len(retry) + (IF Handing THEN 1 ELSE 0) <= Depth
          /\ Len(Waiting(prefetch)) + Len(inflight) + Len(retry) + (IF Handing THEN 1 ELSE 0) <= QueueCap + Depth
          /\ Len(writeQ) <= QueueCap
      BY DEF Inv, Phased, MarkInv, LoopInv, Types, WriterTypes
    <3>3. Len(inflight) <= Depth /\ Len(Waiting(prefetch)) <= QueueCap + Depth
      BY <3>1, <3>2, Sizes
    <3>4. /\ Len(prefetch) <= Len(Waiting(prefetch)) + 1
          /\ \A i \in 1 .. Len(prefetch) : prefetch[i] = EndOfStream \/ (i \in 1 .. Len(Waiting(prefetch)) /\ prefetch[i] = Waiting(prefetch)[i])
      <4>1. CASE Marked(prefetch)
        <5>1. Len(prefetch) \in Nat \ {0} /\ Len(Waiting(prefetch)) = Len(prefetch) - 1 /\ prefetch[Len(prefetch)] = EndOfStream
          BY <3>1, <4>1, WaitingIs DEF Marked
        <5>2. \A i \in 1 .. Len(prefetch) : i = Len(prefetch) \/ i \in 1 .. Len(Waiting(prefetch))
          BY <5>1
        <5>3. \A i \in 1 .. Len(Waiting(prefetch)) : prefetch[i] = Waiting(prefetch)[i]
          BY <3>1, WaitingIs
        <5>4. Len(prefetch) <= Len(Waiting(prefetch)) + 1
          BY <5>1
        <5>5. \A i \in 1 .. Len(prefetch) : prefetch[i] = EndOfStream \/ (i \in 1 .. Len(Waiting(prefetch)) /\ prefetch[i] = Waiting(prefetch)[i])
          <6> SUFFICES ASSUME NEW i \in 1 .. Len(prefetch), i # Len(prefetch)
                       PROVE  i \in 1 .. Len(Waiting(prefetch)) /\ prefetch[i] = Waiting(prefetch)[i]
            BY <5>1
          <6>1. i \in 1 .. Len(Waiting(prefetch))
            BY <5>2
          <6> QED  BY <5>3, <6>1
        <5> QED  BY <5>4, <5>5
      <4>2. CASE ~Marked(prefetch)
        <5>1. Waiting(prefetch) = prefetch
          BY <3>1, <4>2, WaitingIs
        <5> QED  BY <3>1, <5>1
      <4> QED  BY <4>1, <4>2
    <3>5. \A i \in 1 .. Len(prefetch) : Len(prefetch[i]) \in 1 .. Chunk
      <4> SUFFICES ASSUME NEW i \in 1 .. Len(prefetch) PROVE Len(prefetch[i]) \in 1 .. Chunk
        OBVIOUS
      <4>1. CASE prefetch[i] = EndOfStream
        <5>1. Len(prefetch[i]) = 1
          BY <4>1, EndMark
        <5> QED  BY <5>1, Sizes
      <4> QED  BY <3>2, <3>4, <4>1
    <3>6. Len(prefetch) <= QueueCap + Depth + 1
      BY <3>1, <3>3, <3>4, Sizes
    <3>7. \A i \in DOMAIN inflight : inflight[i].left \in 0 .. Len(inflight[i].chunk)
      <4> SUFFICES ASSUME NEW i \in DOMAIN inflight PROVE inflight[i].left \in 0 .. Len(inflight[i].chunk)
        OBVIOUS
      <4>1. inflight[i] \in ChunkRec /\ ChunkOK(inflight[i])
        BY InflightTypes
      <4> QED  BY <4>1, Places DEF ChunkOK, ChunkRec
    <3> QED  BY <3>1, <3>2, <3>3, <3>5, <3>6, <3>7 DEF QueueType
  <2>6. TypeOK
    BY <2>2, <2>3, <2>4, <2>5 DEF TypeOK, Phases, Torn
  <2> QED  BY <2>1, <2>6 DEF OutputsAccounted
<1> QED  BY <1>1, Invariant, PTL

-----------------------------------------------------------------------------
(* The refinement of RenderedClip.                                          *)

\* An ended render is complete as long as nobody stops it: a failure stops it by itself.
LEMMA OutcomeIs ==
    ASSUME Inv
    PROVE  Outcome = IF phase # "closed" THEN "running" ELSE IF Going THEN "complete" ELSE "partial"
<1>1. raised \/ readerError => ~processing
  BY DEF Inv, Phased, ErrorInv
<1> QED  BY <1>1 DEF Outcome, Failed, Going

\* After the last join the coordinator has no step left, and the writer is gone.
LEMMA ClosedStays ==
    ASSUME Inv, [Next]_vars, phase = "closed"
    PROVE  phase' = "closed" /\ encoded' = encoded
<1>1. ~Coordinator
  BY DEF Coordinator, Dispatch, TakeEnd, NothingLeft, Drained, Settle, Enqueue, Retire, EnqueuePart,
         AllRetired, Boundary, Requeue, Leave, JoinPool, StopWriter, JoinWriter, JoinReader
<1>2. phase' = phase
  BY <1>1, ReaderFrame, WorkerFrame, WriterFrame, CallFrame, Stutter DEF Next
<1>3. xpc \in {"done", "dead"}
  BY DEF Inv, Phased, WriterInv, WriterGone
<1>4. CASE Writer
  BY <1>3, <1>4 DEF Writer, TakeItem, WriteFrame, AtSafePoint, Unpark
<1>5. encoded' = encoded
  BY <1>1, <1>4, ReaderFrame, WorkerFrame, CallFrame, Stutter DEF Next
<1> QED  BY <1>2, <1>5

\* What the encoder gets is the frame after the last one.
LEMMA NewFrame ==
    ASSUME Inv, [Next]_vars, encoded' # encoded
    PROVE  /\ Len(encoded) \in Frames /\ encoded' = Append(encoded, Len(encoded))
           /\ \A i \in 1 .. Len(encoded) : encoded[i] = i - 1
           /\ phase' = phase
<1>1. encoded \in Seq(Nat) /\ Len(encoded) \in Nat /\ \A i \in 1 .. Len(encoded) : encoded[i] = i - 1
  BY DEF Inv, Types, WriterTypes, EncodedInv
<1>2. WriteFrame
  <2>1. Writer
    BY ReaderFrame, WorkerFrame, CoordFrame, CallFrame, Stutter DEF Next
  <2> QED  BY <2>1 DEF Writer, TakeItem, AtSafePoint, Unpark
<1>3. PICK n : encoded' = Append(encoded, n) /\ load # NoFrames /\ n = load[Least(DOMAIN load)]
  BY <1>2 DEF WriteFrame
<1>4. n \in Nat
  BY <1>3, LoadIs, Sizes
<1>5. Inv'
  BY NextKeeps
<1>6. n = Len(encoded)
  <2>1. \A i \in 1 .. Len(encoded') : encoded'[i] = i - 1
    BY <1>5 DEF Inv, EncodedInv
  <2>2. Len(Append(encoded, n)) = Len(encoded) + 1 /\ Append(encoded, n)[Len(encoded) + 1] = n
    BY <1>1, <1>4
  <2>3. \A i \in 1 .. Len(Append(encoded, n)) : Append(encoded, n)[i] = i - 1
    BY <1>3, <2>1
  <2> QED  BY <1>1, <1>4, <2>2, <2>3
<1>7. n \in Frames
  BY <1>3, LoadIs
<1>8. phase' = phase
  BY <1>2, WriterFrame DEF Writer
<1> QED  BY <1>1, <1>3, <1>6, <1>7, <1>8

LEMMA ClipStep == ASSUME Inv, [Next]_vars PROVE Clip!Next \/ UNCHANGED Clip!clipVars
<1>i. Inv'
  BY NextKeeps
<1>o. /\ Outcome = IF phase # "closed" THEN "running" ELSE IF Going THEN "complete" ELSE "partial"
      /\ Outcome' = IF phase' # "closed" THEN "running" ELSE IF Going' THEN "complete" ELSE "partial"
  <2>1. (Inv => Outcome = IF phase # "closed" THEN "running" ELSE IF Going THEN "complete" ELSE "partial")'
    BY OutcomeIs, PTL
  <2> QED  BY <1>i, <2>1, OutcomeIs
<1>1. CASE encoded' # encoded
  <2>1. phase # "closed"
    BY <1>1, ClosedStays
  <2>2. /\ Len(encoded) \in Frames /\ encoded' = Append(encoded, Len(encoded))
        /\ \A i \in 1 .. Len(encoded) : encoded[i] = i - 1
        /\ phase' = phase
    BY <1>1, NewFrame
  <2>3. encoded \in Seq(Nat) /\ Len(encoded) \in Nat /\ (encoded = <<>> <=> Len(encoded) = 0)
    BY Empty DEF Inv, Types, WriterTypes
  <2>4. Clip!Newest = Len(encoded) - 1
    BY <2>2, <2>3 DEF Clip!Newest
  <2>5. Frames = Clip!Frames
    BY DEF Frames, Clip!Frames
  <2>6. \A g \in Clip!Frames : Clip!Newest < g /\ g < Len(encoded) => g \in {}
    <3>1. \A g \in Clip!Frames : g \in Int
      BY Sizes DEF Clip!Frames
    <3> QED  BY <2>3, <2>4, <3>1
  <2>7. Clip!Newest < Len(encoded)
    BY <2>3, <2>4
  <2>8. Outcome = "running" /\ Outcome' = Outcome
    BY <1>o, <2>1, <2>2
  <2>9. Clip!Show(Len(encoded))
    BY <2>2, <2>6, <2>7, <2>8 DEF Clip!Show
  <2> QED  BY <2>2, <2>5, <2>9 DEF Clip!Next
<1>2. CASE encoded' = encoded /\ Outcome' = Outcome
  BY <1>2 DEF Clip!clipVars
<1>3. CASE encoded' = encoded /\ Outcome' # Outcome /\ phase # "closed"
  <2>1. Outcome = "running" /\ phase' = "closed"
    BY <1>3, <1>o
  <2>2. CASE Going'
    <3>1. Outcome' = "complete"
      BY <1>o, <2>1, <2>2
    <3>2. (Inv => EncodesClip)'
      BY ClipEncoded, PTL
    <3>3. Len(encoded') = TotalFrames /\ \A i \in DOMAIN encoded' : encoded'[i] = i - 1
      <4>1. ~Failed' /\ processing'
        <5>1. phase' = "closed" /\ Outcome' = "complete"
          BY <2>1, <3>1
        <5>2. Outcome' = IF phase' # "closed" THEN "running" ELSE IF ~Failed' /\ processing' THEN "complete" ELSE "partial"
          BY DEF Outcome
        <5> QED  BY <5>1, <5>2
      <4> QED  BY <1>i, <2>1, <3>2, <4>1 DEF EncodesClip
    <3>4. Len(encoded) = TotalFrames /\ DOMAIN encoded = 1 .. TotalFrames /\ \A i \in DOMAIN encoded : encoded[i] = i - 1
      <4>1. encoded \in Seq(Nat)
        BY DEF Inv, Types, WriterTypes
      <4> QED  BY <1>3, <3>3, <4>1
    <3>5. \A f \in Clip!Frames \ {} : \E i \in DOMAIN encoded : encoded[i] = f
      <4> SUFFICES ASSUME NEW f \in Clip!Frames PROVE \E i \in DOMAIN encoded : encoded[i] = f
        OBVIOUS
      <4>1. f \in Nat /\ f + 1 \in 1 .. TotalFrames
        BY Sizes DEF Clip!Frames
      <4>2. f + 1 \in DOMAIN encoded /\ encoded[f + 1] = f
        BY <3>4, <4>1
      <4> QED  BY <4>2
    <3>6. Clip!Complete
      BY <1>3, <2>1, <3>1, <3>5 DEF Clip!Complete
    <3> QED  BY <3>6 DEF Clip!Next
  <2>3. CASE ~Going'
    <3>1. Outcome' = "partial"
      BY <1>o, <2>1, <2>3
    <3>2. Clip!Abandon
      BY <1>3, <2>1, <3>1 DEF Clip!Abandon
    <3> QED  BY <3>2 DEF Clip!Next
  <2> QED  BY <2>2, <2>3
<1>4. CASE encoded' = encoded /\ Outcome' # Outcome /\ phase = "closed"
  <2>1. phase' = "closed" /\ (Going' => Going)
    BY <1>4, ClosedStays, GoingBack
  <2>2. Outcome = "complete" /\ Outcome' = "partial"
    BY <1>4, <1>o, <2>1
  <2>3. Clip!Abandon
    BY <1>4, <2>2 DEF Clip!Abandon
  <2> QED  BY <2>3 DEF Clip!Next
<1> QED  BY <1>1, <1>2, <1>3, <1>4

\* The stabilised path implements RenderedClip: for any sizes, workers, queues, failures and calls,
\* a step of it hands the encoder the next frame of the clip, ends the render with the whole clip,
\* gives it up, or changes nothing that the owner of the video sees.
THEOREM StabImplementsClip == Spec => ImplementsClip
<1>1. Init => Clip!Init
  BY DEF Init, Clip!Init, Outcome
<1>2. Inv /\ [Next]_vars => [Clip!Next]_(Clip!clipVars)
  BY ClipStep
<1> QED  BY <1>1, <1>2, Invariant, PTL DEF Spec, ImplementsClip, Clip!Spec

=============================================================================
