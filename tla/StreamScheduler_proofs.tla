----------------------- MODULE StreamScheduler_proofs -----------------------
(***************************************************************************)
(* Theorems about StreamScheduler for any clip, any number of leases, any  *)
(* queue capacity, any failures and any number of user calls.              *)
(***************************************************************************)
EXTENDS StreamScheduler, FiniteSetTheorems, SequenceTheorems, FunctionTheorems,
        WellFoundedInduction, NaturalsInduction, TLAPS

-----------------------------------------------------------------------------
(* The inductive invariant.                                                 *)

PauseRec == [requested : BOOLEAN, acked : BOOLEAN, active : Nat, pending : Nat]

\* The types that do not depend on the leases.
Types ==
    /\ pause \in PauseRec
    /\ processing \in BOOLEAN /\ stop \in BOOLEAN /\ errors \in BOOLEAN
    /\ leases \in 0 .. Leases
    /\ decodeQ \in Seq(Packet \cup {Mark}) /\ encodeQ \in Seq(Packet \cup {Mark})
    /\ Len(decodeQ) <= QueueCap /\ Len(encodeQ) <= QueueCap
    /\ dpc \in {"poll", "lease", "decode", "put", "mark", "done"} /\ index \in 0 .. TotalFrames
    /\ ppc \in {"get", "begin", "work", "leave", "failed", "lost", "fallback", "drop", "put",
                "mark", "done"}
    /\ job \in Packet /\ attempt \in {1, 2}
    /\ epc \in {"get", "order", "flush", "leave", "done"} \cup EncoderSteps /\ flushing \in BOOLEAN
    /\ hand \in Packet /\ pending \subseteq Packet /\ expected \in 0 .. TotalFrames
    /\ encoded \in Seq(Packet)
    /\ main \in {"running", "returned", "raised"}
    /\ stopping \in BOOLEAN /\ calls \in 0 .. MaxCalls

\* Where the threads can be, and where an end mark can stand.
Phases ==
    /\ dpc = "put" => index < TotalFrames
    /\ \A i \in 1 .. Len(decodeQ) : decodeQ[i] = Mark => i = Len(decodeQ) /\ dpc = "done"
    /\ \A i \in 1 .. Len(encodeQ) : encodeQ[i] = Mark => i = Len(encodeQ) /\ ppc = "done"
    /\ epc = "flush" => flushing
    /\ flushing => epc \notin {"get", "order"} /\ ppc = "done" /\ encodeQ = <<>>
    /\ epc = "leave" /\ ~stop => pending = {}
    /\ epc = "done" => pending = {}
    /\ main # "running" => /\ dpc = "done" /\ ppc = "done" /\ epc = "done"
                           /\ decodeQ = <<>> /\ encodeQ = <<>>

\* The frame the owner takes next, and the first one it has not handed on.
NextIn  == index - PacketsIn(decodeQ)
FrontIn == NextIn - InOwner

\* The frames before the owner are the next ones of the clip.
InLine(q, n) ==
    \A i \in 1 .. Len(q) : q[i] # Mark => q[i] = [frame |-> n + i - 1, kind |-> "decoded"]
JobLine ==
    /\ InOwner = 1 => job.frame = FrontIn
    /\ ppc \in {"begin", "work", "failed", "lost", "fallback", "drop"} => job.kind = "decoded"
    /\ ppc \in {"lost", "drop"} => job.frame \in Unproduced
    /\ ppc = "leave" => job.kind = "swapped"
    /\ ppc = "put" => job.kind # "decoded"
DecodeLine == InLine(decodeQ, NextIn) /\ JobLine

\* The frames behind the owner rise from the encoded ones over the one in hand and the buffered
\* ones to the queued ones.
Handled(p) == p.kind # "decoded" /\ p.frame < FrontIn
QueuedLine ==
    /\ \A i \in 1 .. Len(encodeQ) : encodeQ[i] # Mark => Handled(encodeQ[i])
    /\ \A i, j \in 1 .. Len(encodeQ) : i < j /\ encodeQ[j] # Mark => encodeQ[i].frame < encodeQ[j].frame
BufferLine ==
    /\ \A p \in pending : Handled(p)
    /\ \A p, q \in pending : p.frame = q.frame => p = q
    /\ \A p \in pending, i \in 1 .. Len(encodeQ) : encodeQ[i] # Mark => p.frame < encodeQ[i].frame
HandLine ==
    epc \in EncoderSteps =>
          /\ Handled(hand)
          /\ \A p \in pending : hand.frame < p.frame
          /\ \A i \in 1 .. Len(encodeQ) : encodeQ[i] # Mark => hand.frame < encodeQ[i].frame
          /\ epc = "encode" => \A i \in 1 .. Len(encoded) : encoded[i].frame < hand.frame
          /\ epc # "encode" => encoded # <<>> /\ encoded[Len(encoded)] = hand
WrittenLine ==
    /\ \A i \in 1 .. Len(encoded) : encoded[i].frame < FrontIn
    /\ \A i \in 1 .. Len(encoded), p \in pending : encoded[i].frame < p.frame
    /\ \A i \in 1 .. Len(encoded), j \in 1 .. Len(encodeQ) :
          encodeQ[j] # Mark => encoded[i].frame < encodeQ[j].frame
    /\ \A i, j \in 1 .. Len(encoded) : i < j => encoded[i].frame < encoded[j].frame
EncodeLine == QueuedLine /\ BufferLine /\ HandLine /\ WrittenLine

\* Where the frame that is due stands in this.
DueInv ==
    /\ expected <= FrontIn
    /\ ~flushing =>
          /\ \A p \in pending : expected <= p.frame
          /\ \A i \in 1 .. Len(encodeQ) : encodeQ[i] # Mark => expected <= encodeQ[i].frame
          /\ epc \in EncoderSteps => hand.frame = expected
          /\ epc \notin EncoderSteps => \A i \in 1 .. Len(encoded) : encoded[i].frame < expected

\* A frame that yields nothing, or that the encoder has.
Known(f) == \/ f \in Unproduced
            \/ \E i \in 1 .. Len(encoded) : encoded[i].frame = f
            \/ \E p \in pending : p.frame = f
            \/ epc \in EncoderSteps /\ hand.frame = f
Sent(f)  == Known(f) \/ \E i \in 1 .. Len(encodeQ) : encodeQ[i].frame = f

\* Nobody has stopped the run and nothing has failed.
Clean == processing /\ ~errors /\ main = "running"

\* Nothing is missing before a frame that the encoder has or will get, nor, unless the owner or
\* the encoder has given up, before the frame the owner is at.
CompleteHeld ==
    epc \notin {"leave", "done"} =>
          /\ \A i \in 1 .. Len(encodeQ) : \A f \in Frames : f < encodeQ[i].frame => Sent(f)
          /\ \A p \in pending : \A f \in Frames : f < p.frame => Known(f)
          /\ epc \in EncoderSteps => \A f \in Frames : f < hand.frame => Known(f)
CompleteAhead ==
    Clean \/ (ppc \notin {"mark", "done"} /\ epc \notin {"leave", "done"}) =>
          \A f \in Frames : f < FrontIn => Sent(f)
Complete == CompleteHeld /\ CompleteAhead

\* What was encoded has gaps only where nothing was produced.
Gapless ==
    \A i \in 1 .. Len(encoded), f \in Frames :
        /\ f < encoded[i].frame
        /\ i > 1 => encoded[i - 1].frame < f
        => f \in Unproduced

\* An undisturbed run ends stage by stage.
CleanInv ==
    Clean => /\ ~stop
             /\ dpc \in {"mark", "done"} => index = TotalFrames
             /\ ppc \in {"mark", "done"} => dpc = "done" /\ decodeQ = <<>>
             /\ epc \in {"leave", "done"} => flushing /\ pending = {}
Unrefused ==
    processing =>
        /\ InOwner = 1 => job.kind # "refused"
        /\ \A i \in 1 .. Len(encodeQ) : encodeQ[i].kind # "refused"
        /\ \A p \in pending : p.kind # "refused"
        /\ epc \in EncoderSteps => hand.kind # "refused"
        /\ \A i \in 1 .. Len(encoded) : encoded[i].kind # "refused"
WholeInv ==
    main = "returned" /\ processing =>
        \A f \in Frames : f \in Unproduced \/ \E i \in 1 .. Len(encoded) : encoded[i].frame = f

\* The outputs on their way to the encoder's release, and the frames that may still need a
\* reservation.
Holds(b) == IF b THEN 1 ELSE 0
OutsIn(A) == Cardinality({p \in A : Output(p)})
OwnerHas   == Holds(ppc \in {"leave", "put"} /\ Output(job))
EncoderHas == Holds(epc \in {"encode", "clear"} /\ Output(hand))
Living  == OwnerHas + Outputs(encodeQ) + OutsIn(pending) + EncoderHas
Waiting == Holds(ppc \in {"begin", "work", "failed", "fallback"})
Ahead   == Waiting + PacketsIn(decodeQ) + InDecoder

\* Until a stop or a failure the controller counts the outputs.
Matched ==
    /\ processing => Living <= pause.pending
    /\ ~stop => pause.pending <= Living
ReserveInv ==
    /\ Matched
    /\ pause.pending + Ahead <= Leases
    /\ processing /\ ~errors /\ main # "running" => pause.pending = 0

ActiveInv == pause.active = Holds(ppc \in {"work", "leave", "failed", "lost"})
PauseInv  == ActiveInv /\ (pause.acked => pause.requested) /\ PausedIsDrained

Inv == /\ Types /\ Phases /\ DecodeLine /\ EncodeLine /\ DueInv /\ Complete /\ Gapless
       /\ CleanInv /\ Unrefused /\ WholeInv /\ LeasesExact /\ ReserveInv /\ PauseInv

-----------------------------------------------------------------------------
(* Counting.                                                                *)

\* The places of a queue that hold a member of A.
Where(q, A) == Cardinality({i \in DOMAIN q : q[i] \in A})

LEMMA SetNat ==
    ASSUME NEW n \in Nat, NEW A, A \subseteq 1 .. n
    PROVE  IsFiniteSet(A) /\ Cardinality(A) \in Nat
<1>1. IsFiniteSet(1 .. n)
  BY FS_Interval
<1>2. IsFiniteSet(A)
  BY <1>1, FS_Subset
<1> QED  BY <1>2, FS_CardinalityType

LEMMA WhereNat ==
    ASSUME NEW T, NEW q \in Seq(T), NEW A
    PROVE  Where(q, A) \in Nat
<1> DEFINE B == {i \in 1 .. Len(q) : q[i] \in A}
<1>1. Len(q) \in Nat /\ DOMAIN q = 1 .. Len(q)
  OBVIOUS
<1>2. Where(q, A) = Cardinality(B) /\ B \subseteq 1 .. Len(q)
  BY <1>1 DEF Where
<1> QED  BY <1>1, <1>2, SetNat

LEMMA WhereEmpty == \A A : Where(<<>>, A) = 0
<1>1. \A A : {i \in DOMAIN <<>> : <<>>[i] \in A} = {}
  OBVIOUS
<1> QED  BY <1>1, FS_EmptySet DEF Where

LEMMA WhereAppend ==
    ASSUME NEW T, NEW q \in Seq(T), NEW x \in T, NEW A
    PROVE  Where(Append(q, x), A) = Where(q, A) + Holds(x \in A)
<1> DEFINE n == Len(q)
           r == Append(q, x)
           B == {i \in 1 .. n : q[i] \in A}
           C == {i \in 1 .. n + 1 : r[i] \in A}
<1>1. /\ n \in Nat /\ Len(r) = n + 1 /\ DOMAIN q = 1 .. n /\ DOMAIN r = 1 .. n + 1
      /\ r[n + 1] = x /\ \A i \in 1 .. n : r[i] = q[i]
  OBVIOUS
<1>2. Where(q, A) = Cardinality(B) /\ Where(r, A) = Cardinality(C) /\ B \subseteq 1 .. n
  BY <1>1 DEF Where
<1> HIDE DEF n, r
<1>3. ASSUME x \in A PROVE Cardinality(C) = Cardinality(B) + Holds(x \in A)
  <2>1. C = B \cup {n + 1} /\ n + 1 \notin B
    BY <1>1, <1>3
  <2>2. Cardinality(B \cup {n + 1}) = Cardinality(B) + 1
    BY <1>1, <1>2, <2>1, SetNat, FS_AddElement
  <2>3. Holds(x \in A) = 1
    BY <1>3 DEF Holds
  <2> HIDE DEF B, C
  <2> QED  BY <2>1, <2>2, <2>3
<1>4. ASSUME x \notin A PROVE Cardinality(C) = Cardinality(B) + Holds(x \in A)
  <2>1. C = B
    BY <1>1, <1>4
  <2>2. Cardinality(B) \in Nat
    BY <1>1, <1>2, SetNat
  <2>3. Holds(x \in A) = 0
    BY <1>4 DEF Holds
  <2> HIDE DEF B, C
  <2> QED  BY <2>1, <2>2, <2>3
<1>5. Cardinality(C) = Cardinality(B) + Holds(x \in A)
  BY <1>3, <1>4
<1> HIDE DEF B, C
<1> QED  BY <1>2, <1>5 DEF r

LEMMA WhereTail ==
    ASSUME NEW T, NEW q \in Seq(T), q # <<>>, NEW A
    PROVE  Where(q, A) = Holds(Head(q) \in A) + Where(Tail(q), A)
<1> DEFINE n == Len(q)
           t == Tail(q)
           B == {i \in 2 .. n : q[i] \in A}
           C == {i \in 1 .. n - 1 : t[i] \in A}
           f == [i \in C |-> i + 1]
<1>1. /\ n \in Nat \ {0} /\ DOMAIN q = 1 .. n /\ t \in Seq(T) /\ Len(t) = n - 1 /\ DOMAIN t = 1 .. n - 1
      /\ Head(q) = q[1] /\ \A i \in 1 .. n - 1 : t[i] = q[i + 1]
  BY HeadTailProperties, LenProperties
<1>2. Where(t, A) = Cardinality(C) /\ C \subseteq 1 .. n - 1
  BY <1>1 DEF Where
<1>3. Where(q, A) = Cardinality({i \in 1 .. n : q[i] \in A})
  BY <1>1 DEF Where
<1> HIDE DEF n, t
<1>4. IsFiniteSet(C) /\ Cardinality(C) \in Nat
  BY <1>1, <1>2, SetNat
<1>5. f \in [C -> B] /\ \A i \in C : f[i] = i + 1
  BY <1>1
<1>6. \A b \in B : b - 1 \in C /\ f[b - 1] = b
  BY <1>1
<1>7. \A i, j \in C : f[i] = f[j] => i = j
  BY <1>1
<1>8. f \in Bijection(C, B)
  BY <1>5, <1>6, <1>7, Fun_IsBij
<1> HIDE DEF f
<1>9. IsFiniteSet(B) /\ Cardinality(B) = Cardinality(C)
  BY <1>4, <1>8, FS_Bijection DEF ExistsBijection
<1> DEFINE D == {i \in 1 .. n : q[i] \in A}
<1>10. ASSUME Head(q) \in A PROVE Cardinality(D) = Holds(Head(q) \in A) + Cardinality(C)
  <2>1. D = B \cup {1} /\ 1 \notin B
    BY <1>1, <1>10
  <2>2. Cardinality(B \cup {1}) = Cardinality(B) + 1
    BY <1>9, <2>1, FS_AddElement
  <2>3. Holds(Head(q) \in A) = 1
    BY <1>10 DEF Holds
  <2> HIDE DEF B, C, D
  <2> QED  BY <1>4, <1>9, <2>1, <2>2, <2>3
<1>11. ASSUME Head(q) \notin A PROVE Cardinality(D) = Holds(Head(q) \in A) + Cardinality(C)
  <2>1. D = B
    BY <1>1, <1>11
  <2>2. Holds(Head(q) \in A) = 0
    BY <1>11 DEF Holds
  <2> HIDE DEF B, C, D
  <2> QED  BY <1>4, <1>9, <2>1, <2>2
<1>12. Where(q, A) = Cardinality(D)
  BY <1>3
<1> HIDE DEF C, D
<1> QED  BY <1>2, <1>10, <1>11, <1>12 DEF t

LEMMA WhereSome ==
    ASSUME NEW T, NEW q \in Seq(T), NEW A
    PROVE  /\ (\A i \in 1 .. Len(q) : q[i] \in A) => Where(q, A) = Len(q)
           /\ \A i \in 1 .. Len(q) : q[i] \in A => Where(q, A) # 0
<1> DEFINE B == {i \in 1 .. Len(q) : q[i] \in A}
<1>1. Len(q) \in Nat /\ DOMAIN q = 1 .. Len(q)
  OBVIOUS
<1>2. Where(q, A) = Cardinality(B) /\ B \subseteq 1 .. Len(q)
  BY <1>1 DEF Where
<1>3. ASSUME \A i \in 1 .. Len(q) : q[i] \in A PROVE Where(q, A) = Len(q)
  <2>1. B = 1 .. Len(q)
    BY <1>3
  <2>2. Cardinality(1 .. Len(q)) = Len(q)
    BY <1>1, FS_Interval
  <2> QED  BY <1>2, <2>1, <2>2
<1>4. ASSUME NEW i \in 1 .. Len(q), q[i] \in A PROVE Where(q, A) # 0
  <2>1. B # {} /\ IsFiniteSet(B)
    BY <1>1, <1>2, <1>4, SetNat
  <2> QED  BY <1>2, <2>1, FS_EmptySet
<1> QED  BY <1>3, <1>4

LEMMA WhereFewer ==
    ASSUME NEW T, NEW q \in Seq(T), NEW A, NEW B, A \subseteq B
    PROVE  Where(q, A) <= Where(q, B)
<1> DEFINE C == {i \in 1 .. Len(q) : q[i] \in A}
           D == {i \in 1 .. Len(q) : q[i] \in B}
<1>1. Len(q) \in Nat /\ DOMAIN q = 1 .. Len(q)
  OBVIOUS
<1>2. Where(q, A) = Cardinality(C) /\ Where(q, B) = Cardinality(D) /\ C \subseteq D /\ D \subseteq 1 .. Len(q)
  BY <1>1 DEF Where
<1>3. IsFiniteSet(D)
  BY <1>1, <1>2, SetNat
<1> QED  BY <1>2, <1>3, FS_Subset

-----------------------------------------------------------------------------
(* Packets, marks and leases.                                               *)

Outs == {p \in Packet : Output(p)}
Line == Packet \cup {Mark}

LEMMA Sizes ==
    /\ TotalFrames \in Nat \ {0} /\ Leases \in Nat \ {0} /\ QueueCap \in Nat \ {0}
    /\ Faulty \subseteq Frames /\ Unproduced \subseteq Frames
    /\ SourceFails \in BOOLEAN /\ EncoderFails \in BOOLEAN /\ MaxCalls \in Nat
BY SchedulerAssumption DEF SchedulerAssumption

LEMMA Marks ==
    /\ Mark \notin Packet /\ ~Output(Mark) /\ Mark.frame = -1 /\ Mark.kind = "end"
    /\ Outs \subseteq Packet /\ \A x \in Line : x # Mark => x \in Packet
    /\ \A p \in Packet : p # Mark /\ p.frame \in Frames /\ p.frame \in Nat /\ p.kind \in Kinds
BY Sizes DEF Mark, Packet, Frames, Output, Outs, Line, Kinds

LEMMA Counts ==
    ASSUME NEW q \in Seq(Line)
    PROVE  PacketsIn(q) = Where(q, Packet) /\ Outputs(q) = Where(q, Outs)
<1>1. DOMAIN q = 1 .. Len(q) /\ \A i \in 1 .. Len(q) : q[i] \in Line
  OBVIOUS
<1>2. \A i \in DOMAIN q : /\ q[i] # Mark <=> q[i] \in Packet
                          /\ Output(q[i]) <=> q[i] \in Outs
  BY <1>1, Marks DEF Outs, Line
<1>3. /\ {i \in DOMAIN q : q[i] # Mark} = {i \in DOMAIN q : q[i] \in Packet}
      /\ {i \in DOMAIN q : Output(q[i])} = {i \in DOMAIN q : q[i] \in Outs}
  BY <1>2
<1> QED  BY <1>3 DEF PacketsIn, Outputs, Where

LEMMA CountRules ==
    ASSUME NEW q \in Seq(Line)
    PROVE  /\ PacketsIn(q) \in Nat /\ Outputs(q) \in Nat /\ Outputs(q) <= PacketsIn(q)
           /\ \A x \in Line : /\ PacketsIn(Append(q, x)) = PacketsIn(q) + Holds(x # Mark)
                              /\ Outputs(Append(q, x)) = Outputs(q) + Holds(Output(x))
           /\ q # <<>> => /\ PacketsIn(q) = Holds(Head(q) # Mark) + PacketsIn(Tail(q))
                          /\ Outputs(q) = Holds(Output(Head(q))) + Outputs(Tail(q))
           /\ (\A i \in 1 .. Len(q) : q[i] # Mark) => PacketsIn(q) = Len(q)
           /\ \A i \in 1 .. Len(q) : Output(q[i]) => Outputs(q) # 0
<1>1. PacketsIn(q) = Where(q, Packet) /\ Outputs(q) = Where(q, Outs)
  BY Counts
<1>2. PacketsIn(q) \in Nat /\ Outputs(q) \in Nat /\ Outputs(q) <= PacketsIn(q)
  BY <1>1, WhereNat, WhereFewer, Marks
<1>3. ASSUME NEW x \in Line
      PROVE  /\ PacketsIn(Append(q, x)) = PacketsIn(q) + Holds(x # Mark)
             /\ Outputs(Append(q, x)) = Outputs(q) + Holds(Output(x))
  <2>1. Append(q, x) \in Seq(Line)
    OBVIOUS
  <2>2. PacketsIn(Append(q, x)) = Where(Append(q, x), Packet) /\ Outputs(Append(q, x)) = Where(Append(q, x), Outs)
    BY <2>1, Counts
  <2>3. Where(Append(q, x), Packet) = Where(q, Packet) + Holds(x \in Packet)
    BY WhereAppend
  <2>4. Where(Append(q, x), Outs) = Where(q, Outs) + Holds(x \in Outs)
    BY WhereAppend
  <2>5. Holds(x \in Packet) = Holds(x # Mark) /\ Holds(x \in Outs) = Holds(Output(x))
    BY Marks DEF Holds, Line, Outs
  <2> QED  BY <1>1, <2>2, <2>3, <2>4, <2>5
<1>4. ASSUME q # <<>>
      PROVE  /\ PacketsIn(q) = Holds(Head(q) # Mark) + PacketsIn(Tail(q))
             /\ Outputs(q) = Holds(Output(Head(q))) + Outputs(Tail(q))
  <2>1. Tail(q) \in Seq(Line) /\ Head(q) \in Line
    BY <1>4, HeadTailProperties
  <2>2. PacketsIn(Tail(q)) = Where(Tail(q), Packet) /\ Outputs(Tail(q)) = Where(Tail(q), Outs)
    BY <2>1, Counts
  <2>3. Where(q, Packet) = Holds(Head(q) \in Packet) + Where(Tail(q), Packet)
    BY <1>4, WhereTail
  <2>4. Where(q, Outs) = Holds(Head(q) \in Outs) + Where(Tail(q), Outs)
    BY <1>4, WhereTail
  <2>5. Holds(Head(q) \in Packet) = Holds(Head(q) # Mark) /\ Holds(Head(q) \in Outs) = Holds(Output(Head(q)))
    BY <2>1, Marks DEF Holds, Line, Outs
  <2> QED  BY <1>1, <2>2, <2>3, <2>4, <2>5
<1>5. \A i \in 1 .. Len(q) : q[i] \in Line
  OBVIOUS
<1>6. (\A i \in 1 .. Len(q) : q[i] # Mark) => PacketsIn(q) = Len(q)
  BY <1>1, <1>5, Marks, WhereSome
<1>7. \A i \in 1 .. Len(q) : Output(q[i]) => Outputs(q) # 0
  BY <1>1, <1>5, Marks, WhereSome DEF Outs
<1> QED  BY <1>2, <1>3, <1>4, <1>6, <1>7

LEMMA EmptyCounts == PacketsIn(<<>>) = 0 /\ Outputs(<<>>) = 0
<1>1. <<>> \in Seq(Line)
  OBVIOUS
<1> QED  BY <1>1, Counts, WhereEmpty

-----------------------------------------------------------------------------
(* What the controller's operations and the threads' steps come to.         *)

LEMMA PauseFields ==
    ASSUME NEW p \in PauseRec
    PROVE  /\ /\ Asked(p) \in PauseRec
              /\ Asked(p).active = p.active /\ Asked(p).pending = p.pending /\ Asked(p).requested
              /\ Asked(p).acked <=> p.acked \/ (p.active = 0 /\ p.pending = 0)
           /\ /\ Resumed(p) \in PauseRec
              /\ Resumed(p).active = p.active /\ Resumed(p).pending = p.pending
              /\ ~Resumed(p).requested /\ ~Resumed(p).acked
           /\ /\ Entered(p) \in PauseRec
              /\ Entered(p).active = p.active + 1 /\ Entered(p).pending = p.pending
              /\ Entered(p).requested = p.requested /\ Entered(p).acked = p.acked
           /\ /\ Left(p) \in PauseRec
              /\ p.active > 0 => Left(p).active = p.active - 1
              /\ Left(p).pending = p.pending /\ Left(p).requested = p.requested
              /\ Left(p).acked <=> p.acked \/ (p.requested /\ Left(p).active = 0 /\ p.pending = 0)
           /\ /\ Reserved(p) \in PauseRec
              /\ Reserved(p).active = p.active /\ Reserved(p).pending = p.pending + 1
              /\ Reserved(p).requested = p.requested /\ Reserved(p).acked = p.acked
           /\ /\ Released(p) \in PauseRec
              /\ Released(p).active = p.active /\ Released(p).requested = p.requested
              /\ Released(p).pending = IF p.pending = 0 THEN 0 ELSE p.pending - 1
              /\ Released(p).acked <=> p.acked \/ (p.requested /\ p.active = 0 /\ Released(p).pending = 0)
<1>0. ASSUME NEW q \in PauseRec
      PROVE  /\ Ack(q) \in PauseRec
             /\ Ack(q).active = q.active /\ Ack(q).pending = q.pending /\ Ack(q).requested = q.requested
             /\ Ack(q).acked <=> q.acked \/ (q.requested /\ q.active = 0 /\ q.pending = 0)
  BY DEF Ack, PauseRec
<1>1. PICK q \in PauseRec : q = [p EXCEPT !.requested = TRUE]
  <2>1. [p EXCEPT !.requested = TRUE] \in PauseRec
    BY DEF PauseRec
  <2> QED BY <2>1
<1>2. PICK r \in PauseRec : r = [p EXCEPT !.active = IF @ = 0 THEN 0 ELSE @ - 1]
  <2>1. [p EXCEPT !.active = IF @ = 0 THEN 0 ELSE @ - 1] \in PauseRec
    BY DEF PauseRec
  <2> QED BY <2>1
<1>3. PICK s \in PauseRec : s = [p EXCEPT !.pending = @ + 1]
  <2>1. [p EXCEPT !.pending = @ + 1] \in PauseRec
    BY DEF PauseRec
  <2> QED BY <2>1
<1>4. PICK t \in PauseRec : t = [p EXCEPT !.pending = IF @ = 0 THEN 0 ELSE @ - 1]
  <2>1. [p EXCEPT !.pending = IF @ = 0 THEN 0 ELSE @ - 1] \in PauseRec
    BY DEF PauseRec
  <2> QED BY <2>1
<1>5. /\ Asked(p) \in PauseRec
      /\ Asked(p).active = p.active /\ Asked(p).pending = p.pending /\ Asked(p).requested
      /\ Asked(p).acked <=> p.acked \/ (p.active = 0 /\ p.pending = 0)
  <2>1. Asked(p) = Ack(q) /\ q.requested /\ q.active = p.active /\ q.pending = p.pending /\ q.acked = p.acked
    BY <1>1 DEF Asked, PauseRec
  <2> QED BY <1>0, <2>1
<1>6. /\ Resumed(p) \in PauseRec
      /\ Resumed(p).active = p.active /\ Resumed(p).pending = p.pending
      /\ ~Resumed(p).requested /\ ~Resumed(p).acked
  BY DEF Resumed, PauseRec
<1>7. /\ Entered(p) \in PauseRec
      /\ Entered(p).active = p.active + 1 /\ Entered(p).pending = p.pending
      /\ Entered(p).requested = p.requested /\ Entered(p).acked = p.acked
  BY DEF Entered, PauseRec
<1>8. /\ Left(p) \in PauseRec
      /\ p.active > 0 => Left(p).active = p.active - 1
      /\ Left(p).pending = p.pending /\ Left(p).requested = p.requested
      /\ Left(p).acked <=> p.acked \/ (p.requested /\ Left(p).active = 0 /\ p.pending = 0)
  <2>1. /\ Left(p) = Ack(r) /\ r.requested = p.requested /\ r.pending = p.pending /\ r.acked = p.acked
        /\ p.active > 0 => r.active = p.active - 1
    BY <1>2 DEF Left, PauseRec
  <2> QED BY <1>0, <2>1
<1>9. /\ Reserved(p) \in PauseRec
      /\ Reserved(p).active = p.active /\ Reserved(p).pending = p.pending + 1
      /\ Reserved(p).requested = p.requested /\ Reserved(p).acked = p.acked
  <2>1. /\ Reserved(p) = Ack(s) /\ s.requested = p.requested /\ s.pending = p.pending + 1
        /\ s.acked = p.acked /\ s.active = p.active /\ s.pending # 0
    BY <1>3 DEF Reserved, PauseRec
  <2>2. p.acked \in BOOLEAN /\ Ack(s).acked \in BOOLEAN
    BY <1>0 DEF PauseRec
  <2> QED BY <1>0, <2>1, <2>2
<1>10. /\ Released(p) \in PauseRec
       /\ Released(p).active = p.active /\ Released(p).requested = p.requested
       /\ Released(p).pending = IF p.pending = 0 THEN 0 ELSE p.pending - 1
       /\ Released(p).acked <=> p.acked \/ (p.requested /\ p.active = 0 /\ Released(p).pending = 0)
  <2>1. /\ Released(p) = Ack(t) /\ t.requested = p.requested /\ t.active = p.active /\ t.acked = p.acked
        /\ t.pending = IF p.pending = 0 THEN 0 ELSE p.pending - 1
    BY <1>4 DEF Released, PauseRec
  <2> QED BY <1>0, <2>1
<1> QED BY <1>5, <1>6, <1>7, <1>8, <1>9, <1>10

\* There are finitely many packets, so the reorder buffer is finite.
LEMMA BufferFinite ==
    ASSUME NEW A, A \subseteq Packet
    PROVE  IsFiniteSet(A) /\ Cardinality(A) \in Nat
<1> DEFINE f == [x \in Frames \X Kinds |-> [frame |-> x[1], kind |-> x[2]]]
<1>1. IsFiniteSet(Frames)
  <2>1. 0 \in Int /\ TotalFrames - 1 \in Int
    BY Sizes
  <2> QED BY <2>1, FS_Interval DEF Frames
<1>2. IsFiniteSet(Kinds)
  <2>1. IsFiniteSet({})
    BY FS_EmptySet
  <2>2. IsFiniteSet({} \cup {"decoded"})
    BY <2>1, FS_AddElement
  <2>3. IsFiniteSet(({} \cup {"decoded"}) \cup {"swapped"})
    BY <2>2, FS_AddElement
  <2>4. IsFiniteSet((({} \cup {"decoded"}) \cup {"swapped"}) \cup {"original"})
    BY <2>3, FS_AddElement
  <2>5. IsFiniteSet(((({} \cup {"decoded"}) \cup {"swapped"}) \cup {"original"}) \cup {"refused"})
    BY <2>4, FS_AddElement
  <2>6. Kinds = ((({} \cup {"decoded"}) \cup {"swapped"}) \cup {"original"}) \cup {"refused"}
    BY DEF Kinds
  <2> QED BY <2>5, <2>6
<1>3. IsFiniteSet(Frames \X Kinds)
  BY <1>1, <1>2, FS_Product
<1>4. f \in [Frames \X Kinds -> Packet]
  BY DEF Packet
<1>5. \A p \in Packet : <<p.frame, p.kind>> \in Frames \X Kinds /\ f[<<p.frame, p.kind>>] = p
  BY DEF Packet
<1>6. f \in Surjection(Frames \X Kinds, Packet)
  <2>1. \A p \in Packet : \E x \in Frames \X Kinds : f[x] = p
    BY <1>5
  <2> HIDE DEF f
  <2> QED BY <1>4, <2>1 DEF Surjection
<1>7. IsFiniteSet(Packet)
  BY <1>3, <1>6, FS_Surjection
<1>8. IsFiniteSet(A)
  BY <1>7, FS_Subset
<1> QED BY <1>8, FS_CardinalityType

\* A buffer that is not empty has a frame that no other precedes.
LEMMA FirstBuffered ==
    ASSUME NEW A, A \subseteq Packet, A # {}
    PROVE  \E p \in A : \A q \in A : p.frame <= q.frame
<1> DEFINE N == {p.frame : p \in A}
           R == OpToRel(<, Nat)
<1>1. N \subseteq Nat /\ N # {}
  BY Marks
<1>2. IsWellFoundedOn(R, Nat)
  BY NatLessThanWellFounded
<1> HIDE DEF R, N
<1>3. PICK n \in N : \A m \in N : ~(<<m, n>> \in R)
  BY <1>1, <1>2, WFMin
<1>4. ASSUME NEW m \in N PROVE n <= m
  <2>1. m \in Nat /\ n \in Nat
    BY <1>1
  <2>2. m < n => <<m, n>> \in R
    BY <2>1 DEF R, OpToRel
  <2> QED BY <1>3, <2>1, <2>2
<1>5. PICK p \in A : n = p.frame
  BY <1>3 DEF N
<1>6. \A q \in A : q.frame \in N
  BY DEF N
<1> QED BY <1>4, <1>5, <1>6

\* The frame that is due, when the buffer has it, goes to the encoder and leaves the buffer.
LEMMA DueChosen ==
    ASSUME Types, EncodeLine, Order
    PROVE  \/ /\ \A p \in pending : p.frame # expected
              /\ epc' = "get" /\ hand' = hand /\ pending' = pending
           \/ /\ hand' \in pending /\ hand'.frame = expected
              /\ epc' = "encode" /\ pending' = pending \ {hand'}
<1> DEFINE due == {p \in pending : p.frame = expected}
<1>1. CASE due = {}
  BY <1>1 DEF Order
<1>2. CASE due # {}
  <2>1. hand' = CHOOSE p \in due : TRUE
    BY <1>2 DEF Order
  <2>2. hand' \in due
    <3> HIDE DEF due
    <3> QED BY <1>2, <2>1
  <2>3. pending' = pending \ due /\ epc' = "encode"
    BY <1>2 DEF Order
  <2>4. due = {hand'}
    BY <2>2 DEF EncodeLine, BufferLine
  <2> QED BY <2>2, <2>3, <2>4
<1> QED BY <1>1, <1>2

\* A flush takes the first frame of the buffer.
LEMMA FirstChosen ==
    ASSUME Types, Flush
    PROVE  \/ /\ pending = {}
              /\ epc' = "leave" /\ hand' = hand /\ pending' = pending
           \/ /\ hand' \in pending /\ \A q \in pending : hand'.frame <= q.frame
              /\ epc' = "encode" /\ pending' = pending \ {hand'}
<1>1. CASE pending = {}
  BY <1>1 DEF Flush
<1>2. CASE pending # {}
  <2>1. \E p \in pending : \A q \in pending : p.frame <= q.frame
    BY <1>2, FirstBuffered DEF Types
  <2>2. hand' = CHOOSE p \in pending : \A q \in pending : p.frame <= q.frame
    BY <1>2 DEF Flush
  <2>3. hand' \in pending /\ \A q \in pending : hand'.frame <= q.frame
    BY <2>1, <2>2
  <2> QED BY <1>2, <2>3 DEF Flush
<1> QED BY <1>1, <1>2

LEMMA ReturnedType ==
    ASSUME leases \in 0 .. Leases, NEW n \in Nat
    PROVE  /\ Returned(n) \in 0 .. Leases
           /\ leases + n <= Leases => Returned(n) = leases + n
BY Sizes DEF Returned

\* r is q with x put at its end; r is q without its first item.
Appended(q, x, r) ==
    /\ r \in Seq(Line) /\ Len(q) \in Nat /\ Len(r) = Len(q) + 1 /\ x \in Line /\ r[Len(q) + 1] = x
    /\ \A i \in 1 .. Len(q) : r[i] = q[i]
    /\ PacketsIn(r) = PacketsIn(q) + Holds(x # Mark) /\ Outputs(r) = Outputs(q) + Holds(Output(x))
Shifted(q, r) ==
    /\ r \in Seq(Line) /\ Len(q) \in Nat /\ Len(q) > 0 /\ Len(r) = Len(q) - 1 /\ q[1] \in Line
    /\ \A i \in 1 .. Len(r) : r[i] = q[i + 1]
    /\ PacketsIn(q) = Holds(q[1] # Mark) + PacketsIn(r) /\ Outputs(q) = Holds(Output(q[1])) + Outputs(r)
    /\ Len(q) = 1 => r = <<>>

LEMMA AppendRule == ASSUME NEW q \in Seq(Line), NEW x \in Line PROVE Appended(q, x, Append(q, x))
<1>1. /\ Append(q, x) \in Seq(Line) /\ Len(q) \in Nat /\ Len(Append(q, x)) = Len(q) + 1
      /\ Append(q, x)[Len(q) + 1] = x
      /\ \A i \in 1 .. Len(q) : Append(q, x)[i] = q[i]
  OBVIOUS
<1>2. /\ PacketsIn(Append(q, x)) = PacketsIn(q) + Holds(x # Mark)
      /\ Outputs(Append(q, x)) = Outputs(q) + Holds(Output(x))
  BY CountRules
<1> QED BY <1>1, <1>2 DEF Appended

LEMMA TailRule == ASSUME NEW q \in Seq(Line), q # <<>> PROVE Head(q) = q[1] /\ Shifted(q, Tail(q))
<1>1. /\ Len(q) \in Nat /\ Len(q) > 0 /\ Head(q) = q[1] /\ Head(q) \in Line
      /\ Tail(q) \in Seq(Line) /\ Len(Tail(q)) = Len(q) - 1
      /\ \A i \in 1 .. Len(q) - 1 : Tail(q)[i] = q[i + 1]
  BY HeadTailProperties, LenProperties
<1>2. ASSUME Len(q) = 1 PROVE Tail(q) = <<>>
  <2>1. Tail(q) \in Seq(Line) /\ Len(Tail(q)) = 0
    BY <1>1, <1>2
  <2> QED BY <2>1, EmptySeq
<1>3. /\ PacketsIn(q) = Holds(Head(q) # Mark) + PacketsIn(Tail(q))
      /\ Outputs(q) = Holds(Output(Head(q))) + Outputs(Tail(q))
  BY CountRules
<1>4. Head(q) = q[1]
  BY <1>1
<1>5. PacketsIn(q) = Holds(q[1] # Mark) + PacketsIn(Tail(q)) /\ Outputs(q) = Holds(Output(q[1])) + Outputs(Tail(q))
  BY <1>3, <1>4
<1> QED BY <1>1, <1>2, <1>4, <1>5 DEF Shifted

LEMMA QueueTypes ==
    ASSUME Types
    PROVE  /\ decodeQ \in Seq(Line) /\ encodeQ \in Seq(Line) /\ encoded \in Seq(Packet) /\ Mark \in Line
           /\ \A p \in Packet : p \in Line
           /\ Len(decodeQ) \in Nat /\ Len(encodeQ) \in Nat /\ Len(encoded) \in Nat
           /\ \A i \in 1 .. Len(decodeQ) : decodeQ[i] \in Line
           /\ \A i \in 1 .. Len(encodeQ) : encodeQ[i] \in Line
           /\ \A i \in 1 .. Len(encoded) : encoded[i] \in Packet
           /\ PacketsIn(decodeQ) \in Nat /\ PacketsIn(encodeQ) \in Nat /\ Outputs(encodeQ) \in Nat
<1>1. /\ decodeQ \in Seq(Line) /\ encodeQ \in Seq(Line) /\ encoded \in Seq(Packet)
  BY DEF Types, Line
<1>2. Mark \in Line /\ \A p \in Packet : p \in Line
  BY DEF Line
<1>3. /\ Len(decodeQ) \in Nat /\ Len(encodeQ) \in Nat /\ Len(encoded) \in Nat
      /\ \A i \in 1 .. Len(decodeQ) : decodeQ[i] \in Line
      /\ \A i \in 1 .. Len(encodeQ) : encodeQ[i] \in Line
      /\ \A i \in 1 .. Len(encoded) : encoded[i] \in Packet
  BY <1>1
<1>4. PacketsIn(decodeQ) \in Nat /\ PacketsIn(encodeQ) \in Nat /\ Outputs(encodeQ) \in Nat
  BY <1>1, CountRules
<1> QED BY <1>1, <1>2, <1>3, <1>4

\* The six steps that move an item through a queue.
LEMMA PutDecodedDoes ==
    ASSUME Types, Phases, PutDecoded
    PROVE  /\ dpc = "put" /\ index \in Frames /\ index + 1 \in 0 .. TotalFrames
           /\ [frame |-> index, kind |-> "decoded"] \in Packet
           /\ \/ /\ Appended(decodeQ, [frame |-> index, kind |-> "decoded"], decodeQ')
                 /\ Len(decodeQ) < QueueCap /\ ~stop /\ stop' = stop
                 /\ index' = index + 1 /\ dpc' = "poll" /\ leases' = leases
              \/ /\ stop \/ ~processing
                 /\ stop' = TRUE /\ leases' = Returned(1) /\ dpc' = "mark"
                 /\ decodeQ' = decodeQ /\ index' = index
           /\ UNCHANGED <<pause, processing, encodeQ, ownerVars, encoderVars, errors, main, callVars>>
<1>1. index \in Frames /\ index + 1 \in 0 .. TotalFrames
  BY Sizes DEF PutDecoded, Types, Phases, Frames
<1>2. [frame |-> index, kind |-> "decoded"] \in Packet
  BY <1>1 DEF Packet, Kinds
<1>3. Appended(decodeQ, [frame |-> index, kind |-> "decoded"], Append(decodeQ, [frame |-> index, kind |-> "decoded"]))
  BY <1>2, AppendRule, QueueTypes
<1> QED BY <1>1, <1>2, <1>3 DEF PutDecoded, Placed, Refused

LEMMA MarkDecodedDoes ==
    ASSUME Types, MarkDecoded
    PROVE  /\ dpc = "mark" /\ dpc' = "done"
           /\ \/ /\ Appended(decodeQ, Mark, decodeQ')
                 /\ Len(decodeQ) < QueueCap /\ ~stop /\ stop' = stop
              \/ /\ stop \/ ~processing
                 /\ stop' = TRUE /\ decodeQ' = decodeQ
           /\ UNCHANGED <<pause, processing, leases, encodeQ, index, ownerVars, encoderVars,
                          errors, main, callVars>>
<1>1. Appended(decodeQ, Mark, Append(decodeQ, Mark))
  BY AppendRule, QueueTypes
<1> QED BY <1>1 DEF MarkDecoded, Placed, Refused

LEMMA TakeDoes ==
    ASSUME Types, Take
    PROVE  /\ ppc = "get"
           /\ \/ /\ Shifted(decodeQ, decodeQ') /\ decodeQ[1] = Mark
                 /\ ppc' = "mark" /\ job' = job /\ attempt' = attempt /\ stop' = stop
              \/ /\ Shifted(decodeQ, decodeQ') /\ decodeQ[1] # Mark /\ decodeQ[1] \in Packet
                 /\ ppc' = "begin" /\ job' = decodeQ[1] /\ attempt' = 1 /\ stop' = stop
              \/ /\ stop \/ ~processing
                 /\ stop' = TRUE /\ ppc' = "mark"
                 /\ decodeQ' = decodeQ /\ job' = job /\ attempt' = attempt
           /\ UNCHANGED <<pause, processing, leases, encodeQ, decoderVars, encoderVars, errors,
                          main, callVars>>
<1>1. decodeQ # <<>> => Head(decodeQ) = decodeQ[1] /\ Shifted(decodeQ, Tail(decodeQ))
  BY TailRule, QueueTypes
<1>2. decodeQ # <<>> /\ Head(decodeQ) # Mark => Head(decodeQ) \in Packet
  BY <1>1, Marks DEF Shifted
<1> QED BY <1>1, <1>2 DEF Take

LEMMA PutProcessedDoes ==
    ASSUME Types, PutProcessed
    PROVE  /\ ppc = "put"
           /\ \/ /\ Appended(encodeQ, job, encodeQ')
                 /\ Len(encodeQ) < QueueCap /\ ~stop /\ stop' = stop
                 /\ ppc' = "get" /\ leases' = leases
              \/ /\ stop \/ ~processing
                 /\ stop' = TRUE /\ leases' = Returned(1) /\ ppc' = "mark" /\ encodeQ' = encodeQ
           /\ UNCHANGED <<pause, processing, decodeQ, decoderVars, job, attempt, encoderVars,
                          errors, main, callVars>>
<1>1. job \in Line
  BY QueueTypes DEF Types
<1>2. Appended(encodeQ, job, Append(encodeQ, job))
  BY <1>1, AppendRule, QueueTypes
<1> QED BY <1>2 DEF PutProcessed, Placed, Refused

LEMMA MarkProcessedDoes ==
    ASSUME Types, MarkProcessed
    PROVE  /\ ppc = "mark" /\ ppc' = "done"
           /\ \/ /\ Appended(encodeQ, Mark, encodeQ')
                 /\ Len(encodeQ) < QueueCap /\ ~stop /\ stop' = stop
              \/ /\ stop \/ ~processing
                 /\ stop' = TRUE /\ encodeQ' = encodeQ
           /\ UNCHANGED <<pause, processing, leases, decodeQ, decoderVars, job, attempt,
                          encoderVars, errors, main, callVars>>
<1>1. Appended(encodeQ, Mark, Append(encodeQ, Mark))
  BY AppendRule, QueueTypes
<1> QED BY <1>1 DEF MarkProcessed, Placed, Refused

LEMMA FetchDoes ==
    ASSUME Types, Fetch
    PROVE  /\ epc = "get"
           /\ \/ /\ Shifted(encodeQ, encodeQ') /\ encodeQ[1] = Mark
                 /\ epc' = "flush" /\ flushing' = TRUE /\ pending' = pending
              \/ /\ Shifted(encodeQ, encodeQ') /\ encodeQ[1] # Mark /\ encodeQ[1] \in Packet
                 /\ epc' = "order" /\ pending' = pending \cup {encodeQ[1]} /\ flushing' = flushing
              \/ /\ stop \/ (~processing /\ pending = {})
                 /\ epc' = "leave"
                 /\ encodeQ' = encodeQ /\ pending' = pending /\ flushing' = flushing
           /\ UNCHANGED <<pause, processing, stop, leases, decodeQ, decoderVars, ownerVars, hand,
                          expected, encoded, errors, main, callVars>>
<1>1. encodeQ # <<>> => Head(encodeQ) = encodeQ[1] /\ Shifted(encodeQ, Tail(encodeQ))
  BY TailRule, QueueTypes
<1>2. encodeQ # <<>> /\ Head(encodeQ) # Mark => Head(encodeQ) \in Packet
  BY <1>1, Marks DEF Shifted
<1> QED BY <1>1, <1>2 DEF Fetch

LEMMA EncodeDoes ==
    ASSUME Types, Encode
    PROVE  /\ epc = "encode" /\ hand \in Packet
           /\ \/ /\ encoded' \in Seq(Packet) /\ Len(encoded) \in Nat /\ Len(encoded') = Len(encoded) + 1
                 /\ encoded'[Len(encoded) + 1] = hand /\ encoded' # <<>>
                 /\ \A i \in 1 .. Len(encoded) : encoded'[i] = encoded[i]
                 /\ epc' = "clear" /\ stop' = stop /\ errors' = errors /\ leases' = leases
              \/ /\ leases' = Returned(1) /\ stop' = TRUE /\ errors' = TRUE /\ epc' = "leave"
                 /\ encoded' = encoded
           /\ UNCHANGED <<pause, processing, decodeQ, encodeQ, decoderVars, ownerVars, hand, pending,
                          expected, flushing, main, callVars>>
<1>1. hand \in Packet /\ encoded \in Seq(Packet)
  BY DEF Types
<1>2. /\ Append(encoded, hand) \in Seq(Packet) /\ Len(encoded) \in Nat
      /\ Len(Append(encoded, hand)) = Len(encoded) + 1 /\ Append(encoded, hand)[Len(encoded) + 1] = hand
      /\ \A i \in 1 .. Len(encoded) : Append(encoded, hand)[i] = encoded[i]
  BY <1>1
<1>3. Append(encoded, hand) # <<>>
  BY <1>2, EmptySeq
<1> QED BY <1>1, <1>2, <1>3 DEF Encode

LEMMA InitInv == Init => Inv
<1> SUFFICES ASSUME Init PROVE Inv
  OBVIOUS
<1> USE Sizes
<1>1. /\ Len(decodeQ) = 0 /\ Len(encodeQ) = 0 /\ Len(encoded) = 0 /\ pending = {}
      /\ PacketsIn(decodeQ) = 0 /\ PacketsIn(encodeQ) = 0 /\ Outputs(encodeQ) = 0
      /\ Cardinality(pending) = 0
  BY EmptyCounts, FS_EmptySet DEF Init
<1>2. pause \in PauseRec /\ pause.active = 0 /\ pause.pending = 0 /\ (pause.acked => pause.requested)
  BY DEF Init, PauseRec
<1>3. Blank \in Packet
  BY DEF Blank, Packet, Frames, Kinds
<1>4. InDecoder = 0 /\ InOwner = 0 /\ InEncoder = 0 /\ NextIn = 0 /\ FrontIn = 0
  BY <1>1 DEF Init, InDecoder, InOwner, InEncoder, EncoderSteps, NextIn, FrontIn
<1>5. Types
  <2>1. <<>> \in Seq(Packet \cup {Mark}) /\ <<>> \in Seq(Packet)
    OBVIOUS
  <2>2. decodeQ = <<>> /\ encodeQ = <<>> /\ encoded = <<>>
    BY DEF Init
  <2>3. leases \in 0 .. Leases /\ index \in 0 .. TotalFrames /\ expected \in 0 .. TotalFrames /\ calls \in 0 .. MaxCalls
    BY DEF Init
  <2>4. /\ processing \in BOOLEAN /\ stop \in BOOLEAN /\ errors \in BOOLEAN /\ flushing \in BOOLEAN
        /\ stopping \in BOOLEAN
        /\ dpc = "poll" /\ ppc = "get" /\ attempt = 1 /\ epc = "get" /\ main = "running"
        /\ job \in Packet /\ hand \in Packet
    BY <1>3 DEF Init
  <2> QED BY <1>1, <1>2, <2>1, <2>2, <2>3, <2>4 DEF Types
<1>6. Phases
  BY <1>1 DEF Init, Phases
<1>7. DecodeLine /\ EncodeLine /\ DueInv
  BY <1>1, <1>4 DEF Init, DecodeLine, JobLine, InLine, EncodeLine, QueuedLine, BufferLine, HandLine,
                           WrittenLine, DueInv, EncoderSteps
<1>8. Complete /\ Gapless
  BY <1>1, <1>4 DEF Init, Complete, CompleteHeld, CompleteAhead, Gapless, Frames, EncoderSteps
<1>9. CleanInv /\ Unrefused /\ WholeInv
  BY <1>1, <1>4 DEF Init, CleanInv, Clean, Unrefused, WholeInv, EncoderSteps
<1>10. LeasesExact
  BY <1>1, <1>4 DEF Init, LeasesExact
<1>11. ReserveInv
  <2>1. OutsIn(pending) = 0
    BY <1>1, FS_EmptySet DEF OutsIn
  <2>2. Living = 0 /\ Ahead = 0
    BY <1>1, <1>4, <2>1 DEF Init, Living, OwnerHas, EncoderHas, Ahead, Waiting, Holds
  <2> QED BY <1>2, <2>2 DEF Init, ReserveInv, Matched
<1>12. PauseInv
  BY <1>1, <1>2 DEF Init, PauseInv, ActiveInv, PausedIsDrained, Holds
<1> QED BY <1>5, <1>6, <1>7, <1>8, <1>9, <1>10, <1>11, <1>12 DEF Inv

-----------------------------------------------------------------------------
(* Every step preserves the types and the phases.                           *)

LEMMA TypesStep == ASSUME Inv, [Next]_vars PROVE Types'
<1> USE DEF decoderVars, ownerVars, encoderVars, callVars
<1>t. Types /\ Phases /\ EncodeLine /\ DueInv
  BY DEF Inv
<1>s. decodeQ \in Seq(Line) /\ encodeQ \in Seq(Line) /\ encoded \in Seq(Packet)
  BY <1>t, QueueTypes
<1>r. \A n \in Nat : Returned(n) \in 0 .. Leases
  BY <1>t, ReturnedType DEF Types
<1>k. /\ leases \in 0 .. Leases /\ index \in 0 .. TotalFrames /\ expected \in 0 .. TotalFrames
      /\ stop \in BOOLEAN /\ errors \in BOOLEAN /\ flushing \in BOOLEAN /\ job \in Packet
      /\ attempt \in {1, 2} /\ pending \subseteq Packet
      /\ Len(decodeQ) <= QueueCap /\ Len(encodeQ) <= QueueCap /\ QueueCap \in Nat
  BY <1>t, Sizes DEF Types
<1>1. CASE DecoderPoll
  BY <1>1, <1>t DEF Types, DecoderPoll
<1>2. CASE AcquireLease
  <2>1. leases' \in 0 .. Leases
    BY <1>2, <1>k, Sizes DEF AcquireLease
  <2>2. stop' \in BOOLEAN /\ dpc' \in {"decode", "mark"}
    BY <1>2, <1>k DEF AcquireLease
  <2> QED BY <1>2, <1>t, <2>1, <2>2 DEF Types, AcquireLease
<1>3. CASE Decode
  <2>1. leases' \in 0 .. Leases
    BY <1>3, <1>k, <1>r DEF Decode
  <2>2. stop' \in BOOLEAN /\ errors' \in BOOLEAN /\ dpc' \in {"put", "mark"}
    BY <1>3, <1>k DEF Decode
  <2> QED BY <1>3, <1>t, <2>1, <2>2 DEF Types, Decode
<1>4. CASE PutDecoded
  <2>1. decodeQ' \in Seq(Line) /\ Len(decodeQ') <= QueueCap
    <3>1. (Appended(decodeQ, [frame |-> index, kind |-> "decoded"], decodeQ') /\ Len(decodeQ) < QueueCap) \/ decodeQ' = decodeQ
      BY <1>4, <1>t, PutDecodedDoes
    <3>2. CASE Appended(decodeQ, [frame |-> index, kind |-> "decoded"], decodeQ') /\ Len(decodeQ) < QueueCap
      BY <1>k, <3>2 DEF Appended
    <3> QED BY <1>s, <1>k, <3>1, <3>2
  <2>2. index' \in 0 .. TotalFrames /\ dpc' \in {"poll", "mark"} /\ leases' \in 0 .. Leases /\ stop' \in BOOLEAN
    BY <1>4, <1>t, <1>k, <1>r, PutDecodedDoes
  <2> QED BY <1>4, <1>t, <2>1, <2>2 DEF Types, PutDecoded, Line
<1>5. CASE MarkDecoded
  <2>1. decodeQ' \in Seq(Line) /\ Len(decodeQ') <= QueueCap
    <3>1. (Appended(decodeQ, Mark, decodeQ') /\ Len(decodeQ) < QueueCap) \/ decodeQ' = decodeQ
      BY <1>5, <1>t, MarkDecodedDoes
    <3>2. CASE Appended(decodeQ, Mark, decodeQ') /\ Len(decodeQ) < QueueCap
      BY <1>k, <3>2 DEF Appended
    <3> QED BY <1>s, <1>k, <3>1, <3>2
  <2>2. stop' \in BOOLEAN
    BY <1>5, <1>t, <1>k, MarkDecodedDoes
  <2> QED BY <1>5, <1>t, <2>1, <2>2 DEF Types, MarkDecoded, Line
<1>6. CASE Take
  <2>1. decodeQ' \in Seq(Line) /\ Len(decodeQ') <= QueueCap
    <3>1. Shifted(decodeQ, decodeQ') \/ decodeQ' = decodeQ
      BY <1>6, <1>t, TakeDoes
    <3>2. CASE Shifted(decodeQ, decodeQ')
      BY <1>k, <3>2 DEF Shifted
    <3> QED BY <1>s, <1>k, <3>1, <3>2
  <2>2. stop' \in BOOLEAN /\ job' \in Packet /\ attempt' \in {1, 2} /\ ppc' \in {"mark", "begin"}
    BY <1>6, <1>t, <1>k, TakeDoes
  <2> QED BY <1>6, <1>t, <2>1, <2>2 DEF Types, Take, Line
<1>7. CASE Begin
  <2>1. job' \in Packet /\ pause' \in PauseRec
    BY <1>7, <1>t, PauseFields DEF Begin, Types, Packet, Kinds
  <2> QED BY <1>7, <1>t, <2>1 DEF Types, Begin
<1>8. CASE Work
  <2>1. job' \in Packet /\ pause' \in PauseRec
    BY <1>8, <1>t, PauseFields DEF Work, Types, Packet, Kinds
  <2> QED BY <1>8, <1>t, <2>1 DEF Types, Work
<1>9. CASE LeaveScope
  <2>1. pause' \in PauseRec
    BY <1>9, <1>t, PauseFields DEF LeaveScope, Types
  <2> QED BY <1>9, <1>t, <2>1 DEF Types, LeaveScope
<1>10. CASE Fallback
  <2>1. job' \in Packet /\ pause' \in PauseRec
    BY <1>10, <1>t, PauseFields DEF Fallback, Types, Packet, Kinds
  <2> QED BY <1>10, <1>t, <2>1 DEF Types, Fallback
<1>11. CASE Drop
  BY <1>11, <1>t, <1>r DEF Types, Drop
<1>12. CASE PutProcessed
  <2>1. encodeQ' \in Seq(Line) /\ Len(encodeQ') <= QueueCap
    <3>1. (Appended(encodeQ, job, encodeQ') /\ Len(encodeQ) < QueueCap) \/ encodeQ' = encodeQ
      BY <1>12, <1>t, PutProcessedDoes
    <3>2. CASE Appended(encodeQ, job, encodeQ') /\ Len(encodeQ) < QueueCap
      BY <1>k, <3>2 DEF Appended
    <3> QED BY <1>s, <1>k, <3>1, <3>2
  <2>2. stop' \in BOOLEAN /\ leases' \in 0 .. Leases /\ ppc' \in {"get", "mark"}
    BY <1>12, <1>t, <1>k, <1>r, PutProcessedDoes
  <2> QED BY <1>12, <1>t, <2>1, <2>2 DEF Types, PutProcessed, Line
<1>13. CASE MarkProcessed
  <2>1. encodeQ' \in Seq(Line) /\ Len(encodeQ') <= QueueCap
    <3>1. (Appended(encodeQ, Mark, encodeQ') /\ Len(encodeQ) < QueueCap) \/ encodeQ' = encodeQ
      BY <1>13, <1>t, MarkProcessedDoes
    <3>2. CASE Appended(encodeQ, Mark, encodeQ') /\ Len(encodeQ) < QueueCap
      BY <1>k, <3>2 DEF Appended
    <3> QED BY <1>s, <1>k, <3>1, <3>2
  <2>2. stop' \in BOOLEAN
    BY <1>13, <1>t, <1>k, MarkProcessedDoes
  <2> QED BY <1>13, <1>t, <2>1, <2>2 DEF Types, MarkProcessed, Line
<1>14. CASE Fetch
  <2>1. encodeQ' \in Seq(Line) /\ Len(encodeQ') <= QueueCap
    <3>1. Shifted(encodeQ, encodeQ') \/ encodeQ' = encodeQ
      BY <1>14, <1>t, FetchDoes
    <3>2. CASE Shifted(encodeQ, encodeQ')
      BY <1>k, <3>2 DEF Shifted
    <3> QED BY <1>s, <1>k, <3>1, <3>2
  <2>2. pending' \subseteq Packet /\ flushing' \in BOOLEAN /\ epc' \in {"flush", "order", "leave"}
    BY <1>14, <1>t, <1>k, FetchDoes
  <2> QED BY <1>14, <1>t, <2>1, <2>2 DEF Types, Fetch, Line
<1>15. CASE Order
  <2>1. hand' \in Packet /\ pending' \subseteq Packet /\ epc' \in {"get", "encode"}
    BY <1>15, <1>t, DueChosen DEF Types
  <2> QED BY <1>15, <1>t, <2>1 DEF Types, Order, EncoderSteps
<1>16. CASE Flush
  <2>1. hand' \in Packet /\ pending' \subseteq Packet /\ epc' \in {"leave", "encode"}
    BY <1>16, <1>t, FirstChosen DEF Types
  <2> QED BY <1>16, <1>t, <2>1 DEF Types, Flush, EncoderSteps
<1>17. CASE Encode
  <2>1. encoded' \in Seq(Packet) /\ leases' \in 0 .. Leases /\ stop' \in BOOLEAN /\ errors' \in BOOLEAN
        /\ epc' \in {"clear", "leave"}
    BY <1>17, <1>t, <1>k, <1>s, <1>r, EncodeDoes
  <2> QED BY <1>17, <1>t, <2>1 DEF Types, Encode, EncoderSteps
<1>18. CASE Clear
  <2>1. pause' \in PauseRec
    BY <1>18, <1>t, PauseFields DEF Clear, Types
  <2> QED BY <1>18, <1>t, <2>1 DEF Types, Clear, EncoderSteps
<1>19. CASE Check
  BY <1>19, <1>t DEF Types, Check, EncoderSteps
<1>20. CASE Unpark
  BY <1>20, <1>t DEF Types, Unpark, EncoderSteps
<1>21. CASE Retire
  <2>1. expected' \in 0 .. TotalFrames
    BY <1>21, <1>t, Sizes DEF Retire, Types, DueInv, EncoderSteps, Packet, Frames
  <2>2. leases' \in 0 .. Leases /\ epc' \in {"flush", "order"}
    BY <1>21, <1>r DEF Retire
  <2> QED BY <1>21, <1>t, <2>1, <2>2 DEF Types, Retire, EncoderSteps
<1>22. CASE LeaveEncoder
  <2>1. leases' \in 0 .. Leases
    BY <1>22, <1>t, <1>r, BufferFinite DEF LeaveEncoder, Types
  <2> QED BY <1>22, <1>t, <2>1 DEF Types, LeaveEncoder
<1>23. CASE Finish
  <2>1. leases' \in 0 .. Leases
    BY <1>23, <1>s, <1>r, CountRules DEF Finish
  <2>2. decodeQ' \in Seq(Line) /\ encodeQ' \in Seq(Line) /\ Len(decodeQ') = 0 /\ Len(encodeQ') = 0
    BY <1>23 DEF Finish
  <2> QED BY <1>23, <1>t, <2>1, <2>2, Sizes DEF Types, Finish, Line
<1>24. CASE Call
  <2>1. pause' \in PauseRec /\ stopping' \in BOOLEAN
    BY <1>24, <1>t, PauseFields DEF Call, Types
  <2> QED BY <1>24, <1>t, <2>1, Sizes DEF Types, Call
<1>25. CASE StopProcessing
  <2>1. processing' \in BOOLEAN
    BY <1>25 DEF StopProcessing
  <2> QED BY <1>25, <1>t, <2>1 DEF Types, StopProcessing
<1>26. CASE UNCHANGED vars
  BY <1>26, <1>t DEF Types, vars
<1> QED
  BY <1>1, <1>2, <1>3, <1>4, <1>5, <1>6, <1>7, <1>8, <1>9, <1>10, <1>11, <1>12, <1>13, <1>14, <1>15,
     <1>16, <1>17, <1>18, <1>19, <1>20, <1>21, <1>22, <1>23, <1>24, <1>25, <1>26
     DEF Next, Decoder, Owner, Encoder

\* Where the decoding, the swapping and the encoding of a run stand next to each other.
LEMMA PhasesStep == ASSUME Inv, [Next]_vars PROVE Phases'
<1> USE DEF decoderVars, ownerVars, encoderVars, callVars
<1>t. Types /\ Phases /\ CleanInv /\ Types'
  BY TypesStep DEF Inv
<1>1. CASE DecoderPoll
  BY <1>1, <1>t DEF Phases, DecoderPoll
<1>2. CASE AcquireLease
  BY <1>2, <1>t DEF Phases, AcquireLease
<1>3. CASE Decode
  BY <1>3, <1>t DEF Phases, Decode
<1>4. CASE PutDecoded
  <2>1. \A i \in 1 .. Len(decodeQ) : decodeQ[i] # Mark
    BY <1>4, <1>t DEF PutDecoded, Phases
  <2>2. \A i \in 1 .. Len(decodeQ') : decodeQ'[i] # Mark
    <3>1. [frame |-> index, kind |-> "decoded"] # Mark
      BY <1>4, <1>t, PutDecodedDoes, Marks
    <3>2. Appended(decodeQ, [frame |-> index, kind |-> "decoded"], decodeQ') \/ decodeQ' = decodeQ
      BY <1>4, <1>t, PutDecodedDoes
    <3>3. CASE Appended(decodeQ, [frame |-> index, kind |-> "decoded"], decodeQ')
      BY <2>1, <3>1, <3>3 DEF Appended
    <3> QED BY <2>1, <3>2, <3>3
  <2>3. dpc' # "put" /\ main' = main /\ (main = "running" \/ dpc = "done")
    BY <1>4, <1>t DEF Phases, PutDecoded
  <2> QED BY <1>4, <1>t, <2>2, <2>3 DEF Phases, PutDecoded, Refused, Placed
<1>5. CASE MarkDecoded
  <2>1. \A i \in 1 .. Len(decodeQ) : decodeQ[i] # Mark
    BY <1>5, <1>t DEF MarkDecoded, Phases
  <2>2. \A i \in 1 .. Len(decodeQ') : decodeQ'[i] = Mark => i = Len(decodeQ')
    <3>1. Appended(decodeQ, Mark, decodeQ') \/ decodeQ' = decodeQ
      BY <1>5, <1>t, MarkDecodedDoes
    <3>2. CASE Appended(decodeQ, Mark, decodeQ')
      BY <2>1, <3>2 DEF Appended
    <3> QED BY <2>1, <3>1, <3>2
  <2> QED BY <1>5, <1>t, <2>2 DEF Phases, MarkDecoded, Refused, Placed
<1>6. CASE Take
  <2>1. \A i \in 1 .. Len(decodeQ') : decodeQ'[i] = Mark => i = Len(decodeQ') /\ dpc = "done"
    <3>1. \A i \in 1 .. Len(decodeQ) : decodeQ[i] = Mark => i = Len(decodeQ) /\ dpc = "done"
      BY <1>t DEF Phases
    <3>2. Shifted(decodeQ, decodeQ') \/ decodeQ' = decodeQ
      BY <1>6, <1>t, TakeDoes
    <3>3. CASE Shifted(decodeQ, decodeQ')
      BY <3>1, <3>3 DEF Shifted
    <3> QED BY <3>1, <3>2, <3>3
  <2> QED BY <1>6, <1>t, <2>1 DEF Phases, Take
<1>7. CASE Begin
  BY <1>7, <1>t DEF Phases, Begin
<1>8. CASE Work
  BY <1>8, <1>t DEF Phases, Work
<1>9. CASE LeaveScope
  BY <1>9, <1>t DEF Phases, LeaveScope
<1>10. CASE Fallback
  BY <1>10, <1>t DEF Phases, Fallback
<1>11. CASE Drop
  BY <1>11, <1>t DEF Phases, Drop
<1>12. CASE PutProcessed
  <2>1. \A i \in 1 .. Len(encodeQ) : encodeQ[i] # Mark
    BY <1>12, <1>t DEF PutProcessed, Phases
  <2>2. job # Mark
    BY <1>t, Marks DEF Types
  <2>3. \A i \in 1 .. Len(encodeQ') : encodeQ'[i] # Mark
    <3>1. Appended(encodeQ, job, encodeQ') \/ encodeQ' = encodeQ
      BY <1>12, <1>t, PutProcessedDoes
    <3>2. CASE Appended(encodeQ, job, encodeQ')
      BY <2>1, <2>2, <3>2 DEF Appended
    <3> QED BY <2>1, <3>1, <3>2
  <2> QED BY <1>12, <1>t, <2>3 DEF Phases, PutProcessed, Placed, Refused
<1>13. CASE MarkProcessed
  <2>1. \A i \in 1 .. Len(encodeQ) : encodeQ[i] # Mark
    BY <1>13, <1>t DEF MarkProcessed, Phases
  <2>2. \A i \in 1 .. Len(encodeQ') : encodeQ'[i] = Mark => i = Len(encodeQ')
    <3>1. Appended(encodeQ, Mark, encodeQ') \/ encodeQ' = encodeQ
      BY <1>13, <1>t, MarkProcessedDoes
    <3>2. CASE Appended(encodeQ, Mark, encodeQ')
      BY <2>1, <3>2 DEF Appended
    <3> QED BY <2>1, <3>1, <3>2
  <2> QED BY <1>13, <1>t, <2>2 DEF Phases, MarkProcessed, Refused, Placed
<1>14. CASE Fetch
  <2>0. \A i \in 1 .. Len(encodeQ) : encodeQ[i] = Mark => i = Len(encodeQ) /\ ppc = "done"
    BY <1>t DEF Phases
  <2>1. \A i \in 1 .. Len(encodeQ') : encodeQ'[i] = Mark => i = Len(encodeQ') /\ ppc = "done"
    <3>1. Shifted(encodeQ, encodeQ') \/ encodeQ' = encodeQ
      BY <1>14, <1>t, FetchDoes
    <3>2. CASE Shifted(encodeQ, encodeQ')
      BY <2>0, <3>2 DEF Shifted
    <3> QED BY <2>0, <3>1, <3>2
  <2>2. flushing' => ppc = "done" /\ encodeQ' = <<>> /\ epc' = "flush"
    <3>1. ~flushing
      BY <1>14, <1>t DEF Fetch, Phases
    <3>2. ASSUME flushing' PROVE encodeQ[1] = Mark /\ Shifted(encodeQ, encodeQ') /\ epc' = "flush"
      BY <1>14, <1>t, <3>1, <3>2, FetchDoes
    <3> QED BY <2>0, <3>2 DEF Shifted
  <2>3. epc' = "leave" /\ ~stop' => pending' = {}
    BY <1>14, <1>t, FetchDoes
  <2> QED BY <1>14, <1>t, <2>1, <2>2, <2>3 DEF Phases, Fetch
<1>15. CASE Order
  <2>1. epc' \in {"get", "encode"}
    BY <1>15 DEF Order
  <2> QED BY <1>15, <1>t, <2>1 DEF Phases, Order
<1>16. CASE Flush
  <2>1. \/ epc' = "leave" /\ pending' = {}
        \/ epc' = "encode"
    BY <1>16, <1>t, FirstChosen DEF Flush
  <2> QED BY <1>16, <1>t, <2>1 DEF Phases, Flush
<1>17. CASE Encode
  BY <1>17, <1>t DEF Phases, Encode
<1>18. CASE Clear
  BY <1>18, <1>t DEF Phases, Clear
<1>19. CASE Check
  BY <1>19, <1>t DEF Phases, Check
<1>20. CASE Unpark
  BY <1>20, <1>t DEF Phases, Unpark
<1>21. CASE Retire
  BY <1>21, <1>t DEF Phases, Retire
<1>22. CASE LeaveEncoder
  BY <1>22, <1>t DEF Phases, LeaveEncoder
<1>23. CASE Finish
  <2>1. Len(decodeQ') = 0 /\ Len(encodeQ') = 0
    BY <1>23 DEF Finish
  <2> QED BY <1>23, <1>t, <2>1 DEF Phases, Finish
<1>24. CASE Call
  BY <1>24, <1>t DEF Phases, Call
<1>25. CASE StopProcessing
  BY <1>25, <1>t DEF Phases, StopProcessing
<1>26. CASE UNCHANGED vars
  BY <1>26, <1>t DEF Phases, vars
<1> QED
  BY <1>1, <1>2, <1>3, <1>4, <1>5, <1>6, <1>7, <1>8, <1>9, <1>10, <1>11, <1>12, <1>13, <1>14, <1>15,
     <1>16, <1>17, <1>18, <1>19, <1>20, <1>21, <1>22, <1>23, <1>24, <1>25, <1>26
     DEF Next, Decoder, Owner, Encoder

-----------------------------------------------------------------------------
(* The frames before the owner.                                             *)

LEMMA FrontTypes ==
    ASSUME Types
    PROVE  NextIn \in Int /\ InOwner \in {0, 1} /\ FrontIn \in Int /\ FrontIn = NextIn - InOwner
<1>1. index \in Int /\ PacketsIn(decodeQ) \in Nat
  BY QueueTypes, Sizes DEF Types
<1>2. NextIn \in Int
  BY <1>1 DEF NextIn
<1>3. InOwner \in {0, 1}
  BY DEF InOwner
<1> QED BY <1>2, <1>3 DEF FrontIn

LEMMA LessBoth == \A a, b, c \in Int : a >= b => a - c >= b - c
OBVIOUS

\* What the owner has next, and what it has handed on, only grows.
LEMMA FrontStep ==
    ASSUME Inv, [Next]_vars
    PROVE  /\ NextIn \in Int /\ NextIn' \in Int /\ FrontIn \in Int /\ FrontIn' \in Int
           /\ FrontIn' >= FrontIn
           /\ Take => IF ppc' = "begin" THEN NextIn' = NextIn + 1 ELSE NextIn' = NextIn
           /\ ~Take /\ ~Finish => NextIn' = NextIn
           /\ ~Drop /\ ~PutProcessed /\ ~Finish => FrontIn' = FrontIn
           /\ Drop \/ PutProcessed => FrontIn' = FrontIn + 1
<1> USE DEF decoderVars, ownerVars, encoderVars, callVars
<1>t. Types /\ Phases /\ Types'
  BY TypesStep DEF Inv
<1>f. /\ NextIn \in Int /\ InOwner \in {0, 1} /\ FrontIn \in Int /\ FrontIn = NextIn - InOwner
      /\ NextIn' \in Int /\ InOwner' \in {0, 1} /\ FrontIn' \in Int /\ FrontIn' = NextIn' - InOwner'
  <2>1. Types' => (NextIn \in Int /\ InOwner \in {0, 1} /\ FrontIn \in Int /\ FrontIn = NextIn - InOwner)'
    BY FrontTypes, PTL
  <2> QED BY <1>t, <2>1, FrontTypes
<1>k. PacketsIn(decodeQ) \in Nat /\ PacketsIn(decodeQ') \in Nat /\ index \in Nat /\ index' \in Nat
  <2>1. decodeQ' \in Seq(Line)
    BY <1>t DEF Types, Line
  <2> QED BY <1>t, <2>1, QueueTypes, CountRules, Sizes DEF Types
<1>a. UNCHANGED <<index, decodeQ>> => NextIn' = NextIn
  BY DEF NextIn
<1>b. UNCHANGED ppc => InOwner' = InOwner
  BY DEF InOwner
<1>1. CASE Take
  <2>1. \/ Shifted(decodeQ, decodeQ') /\ decodeQ[1] = Mark /\ ppc' = "mark"
        \/ Shifted(decodeQ, decodeQ') /\ decodeQ[1] # Mark /\ ppc' = "begin"
        \/ decodeQ' = decodeQ /\ ppc' = "mark"
    BY <1>1, <1>t, TakeDoes
  <2>2. ppc = "get" /\ InOwner = 0 /\ index' = index
    BY <1>1 DEF Take, InOwner
  <2>3. CASE Shifted(decodeQ, decodeQ') /\ decodeQ[1] = Mark /\ ppc' = "mark"
    <3>1. PacketsIn(decodeQ) = Holds(FALSE) + PacketsIn(decodeQ')
      BY <2>3 DEF Shifted
    <3>2. NextIn' = NextIn /\ InOwner' = 0
      BY <1>k, <2>2, <2>3, <3>1 DEF NextIn, Holds, InOwner
    <3> QED BY <1>f, <1>1, <2>2, <2>3, <3>2 DEF Drop, PutProcessed
  <2>4. CASE Shifted(decodeQ, decodeQ') /\ decodeQ[1] # Mark /\ ppc' = "begin"
    <3>1. PacketsIn(decodeQ) = Holds(TRUE) + PacketsIn(decodeQ')
      BY <2>4 DEF Shifted
    <3>2. NextIn' = NextIn + 1 /\ InOwner' = 1
      BY <1>k, <2>2, <2>4, <3>1 DEF NextIn, Holds, InOwner
    <3> QED BY <1>f, <1>1, <2>2, <2>4, <3>2 DEF Drop, PutProcessed
  <2>5. CASE decodeQ' = decodeQ /\ ppc' = "mark"
    <3>1. NextIn' = NextIn /\ InOwner' = 0
      BY <1>a, <2>2, <2>5 DEF InOwner
    <3> QED BY <1>f, <1>1, <2>2, <2>5, <3>1 DEF Drop, PutProcessed
  <2> QED BY <2>1, <2>3, <2>4, <2>5
<1>2. CASE Finish
  <2>1. NextIn' >= NextIn /\ InOwner' = InOwner
    <3>1. decodeQ' = <<>> /\ index' = index /\ ppc' = ppc /\ ppc = "done"
      BY <1>2 DEF Finish
    <3>2. PacketsIn(decodeQ') = 0
      BY <3>1, EmptyCounts
    <3> QED BY <1>k, <3>1, <3>2 DEF NextIn, InOwner
  <2>2. ~Take /\ ~Drop /\ ~PutProcessed
    BY <1>2 DEF Finish, Take, Drop, PutProcessed
  <2>3. FrontIn' >= FrontIn
    <3>1. NextIn \in Int /\ NextIn' \in Int /\ InOwner \in Int
      BY <1>f
    <3>2. NextIn' - InOwner >= NextIn - InOwner
      BY <2>1, <3>1, LessBoth
    <3>3. FrontIn' = NextIn' - InOwner /\ FrontIn = NextIn - InOwner
      BY <1>f, <2>1
    <3> QED BY <3>2, <3>3
  <2> QED BY <1>2, <1>f, <2>2, <2>3
<1>3. CASE PutDecoded
  <2>1. \/ Appended(decodeQ, [frame |-> index, kind |-> "decoded"], decodeQ') /\ index' = index + 1
        \/ decodeQ' = decodeQ /\ index' = index
    BY <1>3, <1>t, PutDecodedDoes
  <2>2. [frame |-> index, kind |-> "decoded"] # Mark
    BY <1>3, <1>t, PutDecodedDoes, Marks
  <2>3. ASSUME Appended(decodeQ, [frame |-> index, kind |-> "decoded"], decodeQ') /\ index' = index + 1
        PROVE  NextIn' = NextIn
    <3>1. PacketsIn(decodeQ') = PacketsIn(decodeQ) + 1
      BY <2>2, <2>3 DEF Appended, Holds
    <3> QED BY <1>k, <2>3, <3>1 DEF NextIn
  <2>4. NextIn' = NextIn
    BY <1>a, <2>1, <2>3
  <2>5. UNCHANGED ppc /\ ~Finish /\ dpc = "put"
    BY <1>3 DEF PutDecoded, Finish
  <2>6. ~Take /\ ~Drop /\ ~PutProcessed
    <3>1. Len(decodeQ') # Len(decodeQ) \/ dpc' = "mark"
      <4>1. CASE Appended(decodeQ, [frame |-> index, kind |-> "decoded"], decodeQ') /\ index' = index + 1
        BY <4>1 DEF Appended
      <4> QED BY <1>3, <4>1 DEF PutDecoded, Placed
    <3> QED BY <1>3, <2>5, <3>1 DEF PutDecoded, Take, Drop, PutProcessed
  <2> QED BY <1>f, <1>b, <2>4, <2>5, <2>6
<1>4. CASE MarkDecoded
  <2>1. Appended(decodeQ, Mark, decodeQ') \/ decodeQ' = decodeQ
    BY <1>4, <1>t, MarkDecodedDoes
  <2>2. ASSUME Appended(decodeQ, Mark, decodeQ') PROVE NextIn' = NextIn
    <3>1. PacketsIn(decodeQ') = PacketsIn(decodeQ) + Holds(FALSE)
      BY <2>2 DEF Appended
    <3>2. index' = index
      BY <1>4 DEF MarkDecoded
    <3> QED BY <1>k, <3>1, <3>2 DEF NextIn, Holds
  <2>3. NextIn' = NextIn
    BY <1>4, <1>a, <2>1, <2>2 DEF MarkDecoded
  <2>4. UNCHANGED ppc /\ ~Take /\ ~Drop /\ ~PutProcessed /\ ~Finish
    BY <1>4 DEF MarkDecoded, Take, Drop, PutProcessed, Finish
  <2> QED BY <1>f, <1>b, <2>3, <2>4
<1>5. CASE Drop \/ PutProcessed
  <2>1. UNCHANGED <<index, decodeQ>> /\ ppc \in {"drop", "put"} /\ ppc' \in {"get", "mark"} /\ ~Finish /\ ~Take
    BY <1>5 DEF Drop, PutProcessed, Finish, Take
  <2>2. InOwner = 1 /\ InOwner' = 0
    BY <2>1 DEF InOwner
  <2> QED BY <1>5, <1>f, <1>a, <2>1, <2>2
<1>6. CASE /\ UNCHANGED <<index, decodeQ>> /\ InOwner' = InOwner
           /\ ~Take /\ ~Drop /\ ~PutProcessed
  BY <1>2, <1>6, <1>a, <1>f
<1>7. CASE DecoderPoll \/ AcquireLease \/ Decode
  <2>1. UNCHANGED <<index, decodeQ, ppc>> /\ ~Take /\ ~Drop /\ ~PutProcessed
    BY <1>7 DEF DecoderPoll, AcquireLease, Decode, Take, Drop, PutProcessed
  <2> QED BY <1>6, <1>b, <2>1
<1>8. CASE Begin \/ Work \/ LeaveScope \/ Fallback \/ MarkProcessed
  <2>1. UNCHANGED <<index, decodeQ>> /\ ~Take /\ ~Drop /\ ~PutProcessed
    BY <1>8 DEF Begin, Work, LeaveScope, Fallback, MarkProcessed, Take, Drop, PutProcessed
  <2>2. InOwner' = InOwner
    BY <1>8 DEF Begin, Work, LeaveScope, Fallback, MarkProcessed, InOwner
  <2> QED BY <1>6, <2>1, <2>2
<1>9. CASE Encoder \/ Call \/ StopProcessing \/ UNCHANGED vars
  <2>1. UNCHANGED <<index, decodeQ, ppc>>
    BY <1>9 DEF Encoder, Fetch, Order, Flush, Encode, Clear, Check, Unpark, Retire, LeaveEncoder,
                Call, StopProcessing, vars
  <2>2. ~Take /\ ~Drop /\ ~PutProcessed
    BY <2>1 DEF Take, Drop, PutProcessed
  <2> QED BY <1>6, <1>b, <2>1, <2>2
<1> QED
  BY <1>1, <1>2, <1>3, <1>4, <1>5, <1>7, <1>8, <1>9 DEF Next, Decoder, Owner

LEMMA LineGrows ==
    ASSUME NEW q \in Seq(Line), NEW r, NEW x, NEW n \in Int, InLine(q, n), Appended(q, x, r),
           x = Mark \/ x = [frame |-> n + Len(q), kind |-> "decoded"]
    PROVE  InLine(r, n)
<1> SUFFICES ASSUME NEW i \in 1 .. Len(r), r[i] # Mark
             PROVE  r[i] = [frame |-> n + i - 1, kind |-> "decoded"]
  BY DEF InLine
<1>1. /\ Len(q) \in Nat /\ Len(r) = Len(q) + 1 /\ r[Len(q) + 1] = x
      /\ \A k \in 1 .. Len(q) : r[k] = q[k]
  BY DEF Appended
<1>2. CASE i = Len(q) + 1
  <2>1. n + i - 1 = n + Len(q)
    BY <1>1, <1>2
  <2> QED BY <1>1, <1>2, <2>1
<1>3. CASE i # Len(q) + 1
  <2>1. i \in 1 .. Len(q)
    BY <1>1, <1>3
  <2> QED BY <1>1, <2>1 DEF InLine
<1> QED BY <1>2, <1>3

LEMMA LineShrinks ==
    ASSUME NEW q, NEW r, NEW n \in Int, InLine(q, n), Shifted(q, r)
    PROVE  /\ q[1] # Mark => InLine(r, n + 1) /\ q[1] = [frame |-> n, kind |-> "decoded"]
           /\ Len(q) = 1 => InLine(r, n)
<1>1. /\ Len(q) \in Nat /\ Len(q) > 0 /\ Len(r) = Len(q) - 1
      /\ \A i \in 1 .. Len(r) : r[i] = q[i + 1]
  BY DEF Shifted
<1>2. InLine(r, n + 1)
  <2> SUFFICES ASSUME NEW i \in 1 .. Len(r), r[i] # Mark
               PROVE  r[i] = [frame |-> n + 1 + i - 1, kind |-> "decoded"]
    BY DEF InLine
  <2>1. i + 1 \in 1 .. Len(q) /\ r[i] = q[i + 1] /\ n + (i + 1) - 1 = n + 1 + i - 1
    BY <1>1
  <2> QED BY <2>1 DEF InLine
<1>3. q[1] # Mark => q[1] = [frame |-> n, kind |-> "decoded"]
  <2>1. 1 \in 1 .. Len(q) /\ n + 1 - 1 = n
    BY <1>1
  <2> QED BY <2>1 DEF InLine
<1>4. Len(q) = 1 => InLine(r, n)
  BY <1>1 DEF InLine
<1> QED BY <1>2, <1>3, <1>4

LEMMA DecodeLineStep == ASSUME Inv, [Next]_vars PROVE DecodeLine'
<1> USE DEF decoderVars, ownerVars, encoderVars, callVars
<1>t. Types /\ Phases /\ DecodeLine /\ JobLine /\ InLine(decodeQ, NextIn)
  BY DEF Inv, DecodeLine
<1>f. /\ NextIn \in Int /\ FrontIn \in Int
      /\ Take => IF ppc' = "begin" THEN NextIn' = NextIn + 1 ELSE NextIn' = NextIn
      /\ ~Take /\ ~Finish => NextIn' = NextIn
      /\ ~Drop /\ ~PutProcessed /\ ~Finish => FrontIn' = FrontIn
  BY FrontStep
<1>q. decodeQ \in Seq(Line) /\ Len(decodeQ) \in Nat
  BY <1>t, QueueTypes
<1>g. FrontIn = NextIn - InOwner
  BY DEF FrontIn
<1>1. CASE Take
  <2>1. \/ Shifted(decodeQ, decodeQ') /\ decodeQ[1] = Mark /\ ppc' = "mark"
        \/ Shifted(decodeQ, decodeQ') /\ decodeQ[1] # Mark /\ ppc' = "begin" /\ job' = decodeQ[1]
        \/ decodeQ' = decodeQ /\ ppc' = "mark"
    BY <1>1, <1>t, TakeDoes
  <2>2. CASE Shifted(decodeQ, decodeQ') /\ decodeQ[1] = Mark /\ ppc' = "mark"
    <3>1. Len(decodeQ) = 1
      <4>1. 1 \in 1 .. Len(decodeQ)
        BY <2>2 DEF Shifted
      <4> QED BY <1>t, <2>2, <4>1 DEF Phases
    <3>2. InLine(decodeQ', NextIn)
      BY <1>f, <1>t, <2>2, <3>1, LineShrinks
    <3>3. NextIn' = NextIn
      BY <1>1, <1>f, <2>2
    <3>4. InOwner' = 0
      BY <2>2 DEF InOwner
    <3> QED BY <2>2, <3>2, <3>3, <3>4 DEF DecodeLine, JobLine
  <2>3. CASE Shifted(decodeQ, decodeQ') /\ decodeQ[1] # Mark /\ ppc' = "begin" /\ job' = decodeQ[1]
    <3>1. InLine(decodeQ', NextIn + 1) /\ decodeQ[1] = [frame |-> NextIn, kind |-> "decoded"]
      BY <1>f, <1>t, <2>3, LineShrinks
    <3>2. NextIn' = NextIn + 1
      BY <1>1, <1>f, <2>3
    <3>3. FrontIn' = FrontIn /\ FrontIn = NextIn
      <4>1. InOwner = 0 /\ ~Drop /\ ~PutProcessed /\ ~Finish
        BY <1>1 DEF Take, InOwner, Drop, PutProcessed, Finish
      <4> QED BY <1>f, <1>g, <4>1
    <3>4. job'.frame = FrontIn' /\ job'.kind = "decoded"
      BY <2>3, <3>1, <3>3
    <3> QED BY <2>3, <3>1, <3>2, <3>4 DEF DecodeLine, JobLine
  <2>4. CASE decodeQ' = decodeQ /\ ppc' = "mark"
    <3>1. NextIn' = NextIn
      BY <1>1, <1>f, <2>4
    <3>2. InOwner' = 0
      BY <2>4 DEF InOwner
    <3> QED BY <1>t, <2>4, <3>1, <3>2 DEF DecodeLine, JobLine
  <2> QED BY <2>1, <2>2, <2>3, <2>4
<1>2. CASE Finish
  <2>1. decodeQ' = <<>> /\ ppc' = "done"
    BY <1>2 DEF Finish
  <2>2. InLine(decodeQ', NextIn') /\ InOwner' = 0
    BY <2>1 DEF InLine, InOwner
  <2> QED BY <2>1, <2>2 DEF DecodeLine, JobLine
<1>3. CASE Decoder
  <2>1. /\ UNCHANGED <<ppc, job>> /\ ~Take /\ ~Finish /\ ~Drop /\ ~PutProcessed
    BY <1>3 DEF Decoder, DecoderPoll, AcquireLease, Decode, PutDecoded, MarkDecoded, Take, Finish, Drop, PutProcessed
  <2>2. NextIn' = NextIn /\ FrontIn' = FrontIn
    BY <1>f, <2>1
  <2>3. InLine(decodeQ', NextIn)
    <3>1. CASE PutDecoded
      <4>1. Appended(decodeQ, [frame |-> index, kind |-> "decoded"], decodeQ') \/ decodeQ' = decodeQ
        BY <1>t, <3>1, PutDecodedDoes
      <4>2. \A i \in 1 .. Len(decodeQ) : decodeQ[i] # Mark
        BY <1>t, <3>1 DEF PutDecoded, Phases
      <4>3. PacketsIn(decodeQ) = Len(decodeQ)
        BY <1>q, <4>2, CountRules
      <4>4. index = NextIn + Len(decodeQ)
        <5>1. index \in Int
          BY <1>t, Sizes DEF Types
        <5> QED BY <1>q, <4>3, <5>1 DEF NextIn
      <4> QED BY <1>f, <1>q, <1>t, <4>1, <4>4, LineGrows
    <3>2. CASE MarkDecoded
      <4>1. Appended(decodeQ, Mark, decodeQ') \/ decodeQ' = decodeQ
        BY <1>t, <3>2, MarkDecodedDoes
      <4> QED BY <1>f, <1>q, <1>t, <4>1, LineGrows
    <3>3. CASE DecoderPoll \/ AcquireLease \/ Decode
      <4>1. decodeQ' = decodeQ
        BY <3>3 DEF DecoderPoll, AcquireLease, Decode
      <4> QED BY <1>t, <4>1
    <3> QED BY <1>3, <3>1, <3>2, <3>3 DEF Decoder
  <2>4. InOwner' = InOwner
    BY <2>1 DEF InOwner
  <2> QED BY <1>t, <2>1, <2>2, <2>3, <2>4 DEF DecodeLine, JobLine
<1>4. ASSUME UNCHANGED decodeQ, ~Take, ~Finish PROVE InLine(decodeQ', NextIn')
  <2>1. NextIn' = NextIn
    BY <1>f, <1>4
  <2> QED BY <1>4, <1>t, <2>1
<1>5. CASE Begin \/ Work \/ LeaveScope \/ Fallback
  <2>1. UNCHANGED decodeQ /\ ~Take /\ ~Finish /\ ~Drop /\ ~PutProcessed
    BY <1>5 DEF Begin, Work, LeaveScope, Fallback, Take, Finish, Drop, PutProcessed
  <2>2. FrontIn' = FrontIn /\ InLine(decodeQ', NextIn')
    BY <1>f, <1>4, <2>1
  <2>3. InOwner = 1 /\ job'.frame = job.frame
    BY <1>5, <1>t DEF Begin, Work, LeaveScope, Fallback, InOwner, Types, Packet
  <2>4. job'.frame = FrontIn'
    BY <1>t, <2>2, <2>3 DEF JobLine
  <2>5. ppc' \in {"begin", "work", "failed", "lost", "fallback", "drop"} => job'.kind = "decoded"
    BY <1>5, <1>t DEF Begin, Work, LeaveScope, Fallback, JobLine
  <2>6. ppc' \in {"lost", "drop"} => job'.frame \in Unproduced
    BY <1>5, <1>t, <2>3 DEF Begin, Work, LeaveScope, Fallback, JobLine
  <2>7. ppc' = "leave" => job'.kind = "swapped"
    BY <1>5, <1>t DEF Begin, Work, LeaveScope, Fallback, JobLine, Types, Packet
  <2>8. ppc' = "put" => job'.kind # "decoded"
    BY <1>5, <1>t DEF Begin, Work, LeaveScope, Fallback, JobLine, Types, Packet
  <2> QED BY <2>2, <2>4, <2>5, <2>6, <2>7, <2>8 DEF DecodeLine, JobLine
<1>6. CASE Drop \/ PutProcessed \/ MarkProcessed
  <2>1. UNCHANGED decodeQ /\ ~Take /\ ~Finish /\ ppc' \in {"get", "mark", "done"}
    BY <1>6 DEF Drop, PutProcessed, MarkProcessed, Take, Finish
  <2>2. InLine(decodeQ', NextIn') /\ InOwner' = 0
    BY <1>4, <2>1 DEF InOwner
  <2> QED BY <2>1, <2>2 DEF DecodeLine, JobLine
<1>7. CASE Encoder \/ Call \/ StopProcessing \/ UNCHANGED vars
  <2>1. UNCHANGED <<decodeQ, ppc, job>>
    BY <1>7 DEF Encoder, Fetch, Order, Flush, Encode, Clear, Check, Unpark, Retire, LeaveEncoder,
                Call, StopProcessing, vars
  <2>2. ~Take /\ ~Finish /\ ~Drop /\ ~PutProcessed
    <3>1. ~Take /\ ~Drop /\ ~PutProcessed
      BY <2>1 DEF Take, Drop, PutProcessed
    <3>2. ~Finish
      BY <1>7, <1>t DEF Encoder, Fetch, Order, Flush, Encode, Clear, Check, Unpark, Retire, LeaveEncoder,
                Call, StopProcessing, vars, Finish
    <3> QED BY <3>1, <3>2
  <2>3. InLine(decodeQ', NextIn') /\ FrontIn' = FrontIn /\ InOwner' = InOwner
    BY <1>f, <1>4, <2>1, <2>2 DEF InOwner
  <2> QED BY <1>t, <2>1, <2>3 DEF DecodeLine, JobLine
<1> QED
  BY <1>1, <1>2, <1>3, <1>5, <1>6, <1>7 DEF Next, Owner

-----------------------------------------------------------------------------
(* The frames behind the owner.                                             *)

\* The packets behind the owner, and that they stay behind it.
LEMMA BehindTypes ==
    ASSUME Types
    PROVE  /\ \A i \in 1 .. Len(encodeQ) : encodeQ[i] # Mark => encodeQ[i] \in Packet /\ encodeQ[i].frame \in Nat
           /\ \A p \in pending : p \in Packet /\ p.frame \in Nat
           /\ \A i \in 1 .. Len(encoded) : encoded[i] \in Packet /\ encoded[i].frame \in Nat
           /\ hand \in Packet /\ hand.frame \in Nat /\ job \in Packet /\ job.frame \in Nat
           /\ Len(encodeQ) \in Nat /\ Len(encoded) \in Nat
<1>1. \A x \in Line : x # Mark => x \in Packet
  BY Marks
<1>2. \A p \in Packet : p.frame \in Nat
  BY Marks
<1> QED BY <1>1, <1>2, QueueTypes DEF Types

LEMMA HandledStays ==
    ASSUME FrontIn \in Int, FrontIn' \in Int, FrontIn' >= FrontIn
    PROVE  \A f \in Nat : f < FrontIn => f < FrontIn'
OBVIOUS

LEMMA LineStays ==
    ASSUME Types, EncodeLine, FrontIn \in Int, FrontIn' \in Int, FrontIn' >= FrontIn,
           UNCHANGED <<encodeQ, pending, encoded, hand>>,
           \/ epc' = epc \/ epc' \notin EncoderSteps
           \/ epc \in EncoderSteps \ {"encode"} /\ epc' # "encode"
    PROVE  EncodeLine'
<1>b. /\ \A i \in 1 .. Len(encodeQ) : encodeQ[i] # Mark => encodeQ[i].frame \in Nat
      /\ \A p \in pending : p.frame \in Nat
      /\ \A i \in 1 .. Len(encoded) : encoded[i].frame \in Nat
      /\ hand.frame \in Nat
  BY BehindTypes
<1>h. \A f \in Nat : f < FrontIn => f < FrontIn'
  BY HandledStays
<1>1. QueuedLine'
  BY <1>b, <1>h DEF EncodeLine, QueuedLine, Handled
<1>2. BufferLine'
  BY <1>b, <1>h DEF EncodeLine, BufferLine, Handled
<1>3. HandLine'
  BY <1>b, <1>h DEF EncodeLine, HandLine, Handled
<1>4. WrittenLine'
  BY <1>b, <1>h DEF EncodeLine, WrittenLine
<1> QED BY <1>1, <1>2, <1>3, <1>4 DEF EncodeLine

LEMMA LinePut ==
    ASSUME Types, Phases, EncodeLine, FrontIn \in Int, FrontIn' = FrontIn + 1,
           ppc = "put", Appended(encodeQ, job, encodeQ'), job.frame = FrontIn, job.kind # "decoded",
           UNCHANGED <<pending, encoded, hand, epc>>
    PROVE  EncodeLine'
<1>b. /\ \A i \in 1 .. Len(encodeQ) : encodeQ[i] # Mark => encodeQ[i].frame \in Nat
      /\ \A p \in pending : p.frame \in Nat
      /\ \A i \in 1 .. Len(encoded) : encoded[i].frame \in Nat
      /\ hand.frame \in Nat /\ FrontIn \in Nat
  BY BehindTypes
<1>h. (\A f \in Nat : f < FrontIn => f < FrontIn') /\ FrontIn < FrontIn'
  BY HandledStays
<1>a. /\ Len(encodeQ) \in Nat /\ Len(encodeQ') = Len(encodeQ) + 1 /\ encodeQ'[Len(encodeQ) + 1] = job
      /\ \A i \in 1 .. Len(encodeQ) : encodeQ'[i] = encodeQ[i]
  BY DEF Appended
<1>m. \A i \in 1 .. Len(encodeQ) : encodeQ[i] # Mark
  BY DEF Phases
<1>n. \A i \in 1 .. Len(encodeQ') : (i \in 1 .. Len(encodeQ) /\ encodeQ'[i] = encodeQ[i])
                                    \/ (i = Len(encodeQ) + 1 /\ encodeQ'[i] = job)
  BY <1>a
<1>1. QueuedLine'
  <2>1. \A i \in 1 .. Len(encodeQ) : Handled(encodeQ[i]) /\ encodeQ[i].frame < FrontIn
    BY <1>m DEF EncodeLine, QueuedLine, Handled
  <2>2. \A i \in 1 .. Len(encodeQ') : encodeQ'[i].kind # "decoded" /\ encodeQ'[i].frame < FrontIn'
    BY <1>b, <1>h, <1>m, <1>n, <2>1 DEF Handled
  <2>3. \A i, j \in 1 .. Len(encodeQ') : i < j => encodeQ'[i].frame < encodeQ'[j].frame
    <3> SUFFICES ASSUME NEW i \in 1 .. Len(encodeQ'), NEW j \in 1 .. Len(encodeQ'), i < j
                 PROVE  encodeQ'[i].frame < encodeQ'[j].frame
      OBVIOUS
    <3>1. i \in 1 .. Len(encodeQ) /\ encodeQ'[i] = encodeQ[i]
      BY <1>a, <1>n
    <3>2. CASE j = Len(encodeQ) + 1
      BY <1>a, <2>1, <3>1, <3>2
    <3>3. CASE j \in 1 .. Len(encodeQ)
      BY <1>a, <1>m, <3>1, <3>3 DEF EncodeLine, QueuedLine
    <3> QED BY <1>n, <3>2, <3>3
  <2> QED BY <2>2, <2>3 DEF QueuedLine, Handled
<1>2. BufferLine'
  <2>1. \A p \in pending : Handled(p) /\ p.frame < FrontIn
    BY DEF EncodeLine, BufferLine, Handled
  <2>2. \A p \in pending : Handled(p)'
    BY <1>b, <1>h, <2>1 DEF Handled
  <2>3. \A p \in pending, i \in 1 .. Len(encodeQ') : p.frame < encodeQ'[i].frame
    BY <1>m, <1>n, <2>1 DEF EncodeLine, BufferLine
  <2> QED BY <2>2, <2>3 DEF EncodeLine, BufferLine
<1>3. HandLine'
  <2> SUFFICES ASSUME epc \in EncoderSteps PROVE HandLine'
    BY DEF HandLine
  <2>1. Handled(hand) /\ hand.frame < FrontIn
    BY DEF EncodeLine, HandLine, Handled
  <2>2. Handled(hand)'
    BY <1>b, <1>h, <2>1 DEF Handled
  <2>3. \A i \in 1 .. Len(encodeQ') : hand.frame < encodeQ'[i].frame
    BY <1>m, <1>n, <2>1 DEF EncodeLine, HandLine
  <2> QED BY <2>2, <2>3 DEF EncodeLine, HandLine
<1>4. WrittenLine'
  <2>1. \A i \in 1 .. Len(encoded) : encoded[i].frame < FrontIn
    BY DEF EncodeLine, WrittenLine
  <2>2. \A i \in 1 .. Len(encoded) : encoded[i].frame < FrontIn'
    BY <1>b, <1>h, <2>1
  <2>3. \A i \in 1 .. Len(encoded), j \in 1 .. Len(encodeQ') : encoded[i].frame < encodeQ'[j].frame
    BY <1>m, <1>n, <2>1 DEF EncodeLine, WrittenLine
  <2> QED BY <2>2, <2>3 DEF EncodeLine, WrittenLine
<1> QED BY <1>1, <1>2, <1>3, <1>4 DEF EncodeLine

LEMMA LineMark ==
    ASSUME Types, EncodeLine, FrontIn' = FrontIn, Appended(encodeQ, Mark, encodeQ'),
           UNCHANGED <<pending, encoded, hand, epc>>
    PROVE  EncodeLine'
<1>a. /\ Len(encodeQ) \in Nat /\ Len(encodeQ') = Len(encodeQ) + 1 /\ encodeQ'[Len(encodeQ) + 1] = Mark
      /\ \A i \in 1 .. Len(encodeQ) : encodeQ'[i] = encodeQ[i]
  BY DEF Appended
<1>n. \A i \in 1 .. Len(encodeQ') :
          encodeQ'[i] # Mark => i \in 1 .. Len(encodeQ) /\ encodeQ'[i] = encodeQ[i]
  BY <1>a
<1>1. QueuedLine'
  <2>1. \A i, j \in 1 .. Len(encodeQ') :
            i < j /\ encodeQ'[j] # Mark => encodeQ'[i].frame < encodeQ'[j].frame
    <3> SUFFICES ASSUME NEW i \in 1 .. Len(encodeQ'), NEW j \in 1 .. Len(encodeQ'), i < j, encodeQ'[j] # Mark
                 PROVE  encodeQ'[i].frame < encodeQ'[j].frame
      OBVIOUS
    <3>1. j \in 1 .. Len(encodeQ) /\ encodeQ'[j] = encodeQ[j]
      BY <1>n
    <3>2. i \in 1 .. Len(encodeQ) /\ encodeQ'[i] = encodeQ[i]
      BY <1>a, <3>1
    <3> QED BY <3>1, <3>2 DEF EncodeLine, QueuedLine
  <2>2. \A i \in 1 .. Len(encodeQ') : encodeQ'[i] # Mark => encodeQ'[i].kind # "decoded" /\ encodeQ'[i].frame < FrontIn'
    BY <1>n DEF EncodeLine, QueuedLine, Handled
  <2> QED BY <2>1, <2>2 DEF QueuedLine, Handled
<1>2. BufferLine'
  BY <1>n DEF EncodeLine, BufferLine, Handled
<1>3. HandLine'
  BY <1>n DEF EncodeLine, HandLine, Handled
<1>4. WrittenLine'
  BY <1>n DEF EncodeLine, WrittenLine
<1> QED BY <1>1, <1>2, <1>3, <1>4 DEF EncodeLine

LEMMA LineFetched ==
    ASSUME Types, EncodeLine, FrontIn' = FrontIn, Shifted(encodeQ, encodeQ'),
           \/ encodeQ[1] = Mark /\ pending' = pending
           \/ encodeQ[1] # Mark /\ pending' = pending \cup {encodeQ[1]},
           epc' \notin EncoderSteps, encoded' = encoded
    PROVE  EncodeLine'
<1>b. /\ \A i \in 1 .. Len(encodeQ) : encodeQ[i] # Mark => encodeQ[i].frame \in Nat
      /\ \A p \in pending : p.frame \in Nat
      /\ \A i \in 1 .. Len(encoded) : encoded[i].frame \in Nat
  BY BehindTypes
<1>a. /\ Len(encodeQ) \in Nat /\ Len(encodeQ) > 0 /\ Len(encodeQ') = Len(encodeQ) - 1
      /\ \A i \in 1 .. Len(encodeQ') : encodeQ'[i] = encodeQ[i + 1]
  BY DEF Shifted
<1>n. /\ 1 \in 1 .. Len(encodeQ)
      /\ \A i \in 1 .. Len(encodeQ') : i + 1 \in 1 .. Len(encodeQ) /\ encodeQ'[i] = encodeQ[i + 1] /\ 1 < i + 1
      /\ \A i, j \in 1 .. Len(encodeQ') : i < j => i + 1 < j + 1
  BY <1>a
<1>q. \A i, j \in 1 .. Len(encodeQ) : i < j /\ encodeQ[j] # Mark => encodeQ[i].frame < encodeQ[j].frame
  BY DEF EncodeLine, QueuedLine
<1>1. QueuedLine'
  <2>1. \A i \in 1 .. Len(encodeQ') : encodeQ'[i] # Mark => Handled(encodeQ'[i])
    BY <1>n DEF EncodeLine, QueuedLine
  <2>2. \A i, j \in 1 .. Len(encodeQ') :
            i < j /\ encodeQ'[j] # Mark => encodeQ'[i].frame < encodeQ'[j].frame
    BY <1>n, <1>q
  <2> QED BY <2>1, <2>2 DEF QueuedLine, Handled
<1>p. \A p \in pending' : p \in pending \/ (encodeQ[1] # Mark /\ p = encodeQ[1])
  OBVIOUS
<1>e. \A p \in pending : p.frame < encodeQ[1].frame \/ encodeQ[1] = Mark
  BY <1>n DEF EncodeLine, BufferLine
<1>2. BufferLine'
  <2>1. \A p \in pending' : Handled(p)
    BY <1>n, <1>p DEF EncodeLine, BufferLine, QueuedLine
  <2>2. \A p, q \in pending' : p.frame = q.frame => p = q
    <3> SUFFICES ASSUME NEW p \in pending', NEW q \in pending', p.frame = q.frame PROVE p = q
      OBVIOUS
    <3>1. CASE p \in pending /\ q \in pending
      BY <3>1 DEF EncodeLine, BufferLine
    <3>2. CASE p \in pending /\ q = encodeQ[1] /\ encodeQ[1] # Mark
      BY <1>b, <1>e, <1>n, <3>2
    <3>3. CASE q \in pending /\ p = encodeQ[1] /\ encodeQ[1] # Mark
      BY <1>b, <1>e, <1>n, <3>3
    <3> QED BY <1>p, <3>1, <3>2, <3>3
  <2>3. \A p \in pending', i \in 1 .. Len(encodeQ') : encodeQ'[i] # Mark => p.frame < encodeQ'[i].frame
    <3> SUFFICES ASSUME NEW p \in pending', NEW i \in 1 .. Len(encodeQ'), encodeQ'[i] # Mark
                 PROVE  p.frame < encodeQ'[i].frame
      OBVIOUS
    <3>1. i + 1 \in 1 .. Len(encodeQ) /\ encodeQ'[i] = encodeQ[i + 1] /\ 1 < i + 1
      BY <1>n
    <3>2. CASE p \in pending
      BY <3>1, <3>2 DEF EncodeLine, BufferLine
    <3>3. CASE p = encodeQ[1]
      BY <1>n, <1>q, <3>1, <3>3
    <3> QED BY <1>p, <3>2, <3>3
  <2> QED BY <2>1, <2>2, <2>3 DEF BufferLine, Handled
<1>3. HandLine'
  BY DEF HandLine
<1>4. WrittenLine'
  <2>1. \A i \in 1 .. Len(encoded), p \in pending' : encoded[i].frame < p.frame
    BY <1>n, <1>p DEF EncodeLine, WrittenLine
  <2>2. \A i \in 1 .. Len(encoded), j \in 1 .. Len(encodeQ') :
            encodeQ'[j] # Mark => encoded[i].frame < encodeQ'[j].frame
    BY <1>n DEF EncodeLine, WrittenLine
  <2> QED BY <2>1, <2>2 DEF EncodeLine, WrittenLine
<1> QED BY <1>1, <1>2, <1>3, <1>4 DEF EncodeLine

LEMMA LineHanded ==
    ASSUME Types, EncodeLine, FrontIn' = FrontIn, epc' = "encode",
           hand' \in pending, \A q \in pending : hand'.frame <= q.frame,
           pending' = pending \ {hand'}, UNCHANGED <<encodeQ, encoded>>
    PROVE  EncodeLine'
<1>b. \A p \in pending : p.frame \in Nat
  BY BehindTypes
<1>1. QueuedLine'
  BY DEF EncodeLine, QueuedLine, Handled
<1>2. BufferLine'
  BY DEF EncodeLine, BufferLine, Handled
<1>3. HandLine'
  <2>1. Handled(hand')
    BY DEF EncodeLine, BufferLine
  <2>2. \A p \in pending' : hand'.frame < p.frame
    BY <1>b DEF EncodeLine, BufferLine
  <2>3. \A i \in 1 .. Len(encodeQ) : encodeQ[i] # Mark => hand'.frame < encodeQ[i].frame
    BY DEF EncodeLine, BufferLine
  <2>4. \A i \in 1 .. Len(encoded) : encoded[i].frame < hand'.frame
    BY DEF EncodeLine, WrittenLine
  <2> QED BY <2>1, <2>2, <2>3, <2>4 DEF HandLine, Handled
<1>4. WrittenLine'
  BY DEF EncodeLine, WrittenLine
<1> QED BY <1>1, <1>2, <1>3, <1>4 DEF EncodeLine

LEMMA LineWritten ==
    ASSUME Types, EncodeLine, FrontIn \in Int, FrontIn' = FrontIn, epc = "encode", epc' = "clear",
           Len(encoded') = Len(encoded) + 1, encoded'[Len(encoded) + 1] = hand, encoded' # <<>>,
           \A i \in 1 .. Len(encoded) : encoded'[i] = encoded[i],
           UNCHANGED <<encodeQ, pending, hand>>
    PROVE  EncodeLine'
<1>b. /\ \A i \in 1 .. Len(encoded) : encoded[i].frame \in Nat
      /\ Len(encoded) \in Nat /\ hand.frame \in Nat
  BY BehindTypes
<1>e. epc \in EncoderSteps /\ epc' \in EncoderSteps
  BY DEF EncoderSteps
<1>n. \A i \in 1 .. Len(encoded') : \/ i \in 1 .. Len(encoded) /\ encoded'[i] = encoded[i]
                                    \/ i = Len(encoded) + 1 /\ encoded'[i] = hand
  BY <1>b
<1>1. QueuedLine'
  BY DEF EncodeLine, QueuedLine, Handled
<1>2. BufferLine'
  BY DEF EncodeLine, BufferLine, Handled
<1>3. HandLine'
  BY <1>b, <1>e DEF EncodeLine, HandLine, Handled
<1>4. WrittenLine'
  <2>0. \A i \in 1 .. Len(encoded) : encoded[i].frame < hand.frame
    BY <1>e DEF EncodeLine, HandLine
  <2>1. \A i \in 1 .. Len(encoded') : encoded'[i].frame < FrontIn
    BY <1>e, <1>n DEF EncodeLine, WrittenLine, HandLine, Handled
  <2>2. \A i \in 1 .. Len(encoded'), p \in pending : encoded'[i].frame < p.frame
    BY <1>e, <1>n DEF EncodeLine, WrittenLine, HandLine
  <2>3. \A i \in 1 .. Len(encoded'), j \in 1 .. Len(encodeQ) :
            encodeQ[j] # Mark => encoded'[i].frame < encodeQ[j].frame
    BY <1>e, <1>n DEF EncodeLine, WrittenLine, HandLine
  <2>4. \A i, j \in 1 .. Len(encoded') : i < j => encoded'[i].frame < encoded'[j].frame
    <3> SUFFICES ASSUME NEW i \in 1 .. Len(encoded'), NEW j \in 1 .. Len(encoded'), i < j
                 PROVE  encoded'[i].frame < encoded'[j].frame
      OBVIOUS
    <3>1. i \in 1 .. Len(encoded) /\ encoded'[i] = encoded[i]
      BY <1>b, <1>n
    <3>2. CASE j \in 1 .. Len(encoded)
      BY <1>b, <3>1, <3>2 DEF EncodeLine, WrittenLine
    <3>3. CASE j = Len(encoded) + 1
      BY <2>0, <3>1, <3>3
    <3> QED BY <1>n, <3>2, <3>3
  <2> QED BY <2>1, <2>2, <2>3, <2>4 DEF WrittenLine
<1> QED BY <1>1, <1>2, <1>3, <1>4 DEF EncodeLine

\* The steps after which the encoder's packets are the same ones.
Elsewhere ==
    \/ Decoder \/ Call \/ StopProcessing \/ UNCHANGED vars
    \/ Take \/ Begin \/ Work \/ LeaveScope \/ Fallback \/ Drop

LEMMA ElsewhereKeeps ==
    ASSUME Elsewhere
    PROVE  UNCHANGED <<encodeQ, epc, hand, pending, expected, flushing, encoded, main>>
BY DEF Elsewhere, Decoder, DecoderPoll, AcquireLease, Decode, PutDecoded, MarkDecoded, Call, StopProcessing, vars,
       Take, Begin, Work, LeaveScope, Fallback, Drop, encoderVars

LEMMA EncodeLineStep == ASSUME Inv, [Next]_vars PROVE EncodeLine'
<1> USE DEF decoderVars, ownerVars, encoderVars, callVars
<1>t. Types /\ Phases /\ DecodeLine /\ EncodeLine /\ DueInv
  BY DEF Inv
<1>f. /\ FrontIn \in Int /\ FrontIn' \in Int /\ FrontIn' >= FrontIn
      /\ ~Drop /\ ~PutProcessed /\ ~Finish => FrontIn' = FrontIn
      /\ PutProcessed => FrontIn' = FrontIn + 1
  BY FrontStep
<1>1. CASE Elsewhere
  BY <1>1, <1>t, <1>f, ElsewhereKeeps, LineStays
<1>2. CASE PutProcessed
  <2>1. /\ ppc = "put" /\ UNCHANGED <<pending, encoded, hand, epc>>
        /\ Appended(encodeQ, job, encodeQ') \/ encodeQ' = encodeQ
    BY <1>2, <1>t, PutProcessedDoes
  <2>2. job.frame = FrontIn /\ job.kind # "decoded"
    BY <1>t, <2>1 DEF DecodeLine, JobLine, InOwner
  <2>3. CASE Appended(encodeQ, job, encodeQ')
    BY <1>2, <1>t, <1>f, <2>1, <2>2, <2>3, LinePut
  <2>4. CASE encodeQ' = encodeQ
    BY <1>t, <1>f, <2>1, <2>4, LineStays
  <2> QED BY <2>1, <2>3, <2>4
<1>3. CASE MarkProcessed
  <2>1. /\ UNCHANGED <<pending, encoded, hand, epc>>
        /\ Appended(encodeQ, Mark, encodeQ') \/ encodeQ' = encodeQ
    BY <1>3, <1>t, MarkProcessedDoes
  <2>2. FrontIn' = FrontIn
    <3>1. ~Drop /\ ~PutProcessed /\ ~Finish
      BY <1>3 DEF MarkProcessed, Drop, PutProcessed, Finish
    <3> QED BY <1>f, <3>1
  <2>3. CASE Appended(encodeQ, Mark, encodeQ')
    BY <1>t, <2>1, <2>2, <2>3, LineMark
  <2>4. CASE encodeQ' = encodeQ
    BY <1>t, <1>f, <2>1, <2>4, LineStays
  <2> QED BY <2>1, <2>3, <2>4
<1>e. ASSUME Encoder PROVE FrontIn' = FrontIn
  <2>1. UNCHANGED <<dpc, ppc, main>>
    BY <1>e DEF Encoder, Fetch, Order, Flush, Encode, Clear, Check, Unpark, Retire, LeaveEncoder
  <2>2. ~Drop /\ ~PutProcessed /\ ~Finish
    BY <2>1, <1>t DEF Drop, PutProcessed, Finish, Types
  <2> QED BY <1>f, <2>2
<1>4. CASE Fetch
  <2>1. \/ /\ Shifted(encodeQ, encodeQ')
           /\ \/ encodeQ[1] = Mark /\ pending' = pending
              \/ encodeQ[1] # Mark /\ pending' = pending \cup {encodeQ[1]}
        \/ encodeQ' = encodeQ /\ pending' = pending
    BY <1>4, <1>t, FetchDoes
  <2>2. epc' \notin EncoderSteps /\ UNCHANGED <<encoded, hand>>
    BY <1>4 DEF Fetch, EncoderSteps
  <2>3. FrontIn' = FrontIn
    BY <1>e, <1>4 DEF Encoder
  <2> QED BY <1>t, <1>f, <2>1, <2>2, <2>3, LineFetched, LineStays
<1>5. CASE Order
  <2>1. FrontIn' = FrontIn
    BY <1>e, <1>5 DEF Encoder
  <2>2. UNCHANGED <<encodeQ, encoded>> /\ epc = "order"
    BY <1>5 DEF Order
  <2>3. \A p \in pending : expected <= p.frame
    BY <1>t, <2>2 DEF Phases, DueInv
  <2>4. \/ epc' = "get" /\ hand' = hand /\ pending' = pending
        \/ /\ hand' \in pending /\ hand'.frame = expected
           /\ epc' = "encode" /\ pending' = pending \ {hand'}
    BY <1>5, <1>t, DueChosen
  <2>5. "get" \notin EncoderSteps
    BY DEF EncoderSteps
  <2> QED BY <1>t, <1>f, <2>1, <2>2, <2>3, <2>4, <2>5, LineHanded, LineStays
<1>6. CASE Flush
  <2>1. FrontIn' = FrontIn
    BY <1>e, <1>6 DEF Encoder
  <2>2. UNCHANGED <<encodeQ, encoded>>
    BY <1>6 DEF Flush
  <2>3. \/ epc' = "leave" /\ hand' = hand /\ pending' = pending
        \/ /\ hand' \in pending /\ \A q \in pending : hand'.frame <= q.frame
           /\ epc' = "encode" /\ pending' = pending \ {hand'}
    BY <1>6, <1>t, FirstChosen
  <2>4. "leave" \notin EncoderSteps
    BY DEF EncoderSteps
  <2> QED BY <1>t, <1>f, <2>1, <2>2, <2>3, <2>4, LineHanded, LineStays
<1>7. CASE Encode
  <2>1. FrontIn' = FrontIn
    BY <1>e, <1>7 DEF Encoder
  <2>2. UNCHANGED <<encodeQ, pending, hand>> /\ epc = "encode"
    BY <1>7 DEF Encode
  <2>3. \/ /\ Len(encoded') = Len(encoded) + 1 /\ encoded'[Len(encoded) + 1] = hand /\ encoded' # <<>>
           /\ \A i \in 1 .. Len(encoded) : encoded'[i] = encoded[i]
           /\ epc' = "clear"
        \/ epc' = "leave" /\ encoded' = encoded
    BY <1>7, <1>t, EncodeDoes
  <2>4. "leave" \notin EncoderSteps
    BY DEF EncoderSteps
  <2> QED BY <1>t, <1>f, <2>1, <2>2, <2>3, <2>4, LineWritten, LineStays
<1>8. CASE Clear \/ Check \/ Unpark \/ Retire
  <2>1. FrontIn' = FrontIn
    BY <1>e, <1>8 DEF Encoder
  <2>2. /\ UNCHANGED <<encodeQ, pending, encoded, hand>> /\ epc \in EncoderSteps \ {"encode"}
        /\ epc' # "encode"
    BY <1>8 DEF Clear, Check, Unpark, Retire, EncoderSteps
  <2> QED BY <1>t, <1>f, <2>1, <2>2, LineStays
<1>9. CASE LeaveEncoder
  <2>1. FrontIn' = FrontIn
    BY <1>e, <1>9 DEF Encoder
  <2>2. UNCHANGED <<encodeQ, encoded>> /\ pending' = {} /\ epc' \notin EncoderSteps
    BY <1>9 DEF LeaveEncoder, EncoderSteps
  <2> QED BY <1>t, <2>1, <2>2 DEF EncodeLine, QueuedLine, BufferLine, HandLine, WrittenLine, Handled
<1>10. CASE Finish
  <2>1. Len(encodeQ') = 0 /\ UNCHANGED <<encoded, pending>> /\ epc' \notin EncoderSteps /\ pending' = {}
    BY <1>10, <1>t DEF Finish, EncoderSteps, Phases
  <2>2. \A i \in 1 .. Len(encoded) : encoded[i].frame < FrontIn'
    BY <1>t, <1>f, HandledStays, BehindTypes DEF EncodeLine, WrittenLine
  <2> QED BY <1>t, <2>1, <2>2 DEF EncodeLine, QueuedLine, BufferLine, HandLine, WrittenLine
<1> QED
  BY <1>1, <1>2, <1>3, <1>4, <1>5, <1>6, <1>7, <1>8, <1>9, <1>10 DEF Next, Owner, Encoder, Elsewhere

LEMMA DueStep == ASSUME Inv, [Next]_vars PROVE DueInv'
<1> USE DEF decoderVars, ownerVars, encoderVars, callVars
<1>t. Types /\ Phases /\ DecodeLine /\ EncodeLine /\ DueInv
  BY DEF Inv
<1>f. /\ FrontIn \in Int /\ FrontIn' \in Int /\ FrontIn' >= FrontIn /\ expected \in Nat
  BY <1>t, FrontStep, Sizes DEF Types
<1>b. /\ \A i \in 1 .. Len(encodeQ) : encodeQ[i] # Mark => encodeQ[i].frame \in Nat
      /\ \A p \in pending : p.frame \in Nat
      /\ \A i \in 1 .. Len(encoded) : encoded[i].frame \in Nat
      /\ hand.frame \in Nat /\ Len(encodeQ) \in Nat /\ Len(encoded) \in Nat
  BY <1>t, BehindTypes
<1>g. UNCHANGED expected => expected' <= FrontIn'
  BY <1>t, <1>f DEF DueInv
<1>s. ASSUME UNCHANGED <<expected, flushing, encodeQ, encoded>>, epc' \notin EncoderSteps,
             epc \notin EncoderSteps, \A p \in pending' : p \in pending
      PROVE  DueInv'
  BY <1>s, <1>g, <1>t DEF DueInv
<1>1. CASE Elsewhere
  <2>1. UNCHANGED <<encodeQ, epc, hand, pending, expected, flushing, encoded>>
    BY <1>1, ElsewhereKeeps
  <2> QED BY <1>g, <1>t, <2>1 DEF DueInv
<1>2. CASE PutProcessed
  <2>1. /\ ppc = "put" /\ UNCHANGED <<pending, encoded, hand, epc, expected, flushing>>
        /\ Appended(encodeQ, job, encodeQ') \/ encodeQ' = encodeQ
    BY <1>2, <1>t, PutProcessedDoes
  <2>2. job.frame = FrontIn
    BY <1>t, <2>1 DEF DecodeLine, JobLine, InOwner
  <2>3. ~flushing => \A i \in 1 .. Len(encodeQ') : encodeQ'[i] # Mark => expected <= encodeQ'[i].frame
    <3>1. CASE Appended(encodeQ, job, encodeQ')
      <4>1. \A i \in 1 .. Len(encodeQ') : \/ i \in 1 .. Len(encodeQ) /\ encodeQ'[i] = encodeQ[i]
                                          \/ encodeQ'[i] = job
        BY <3>1 DEF Appended
      <4> QED BY <1>t, <2>2, <4>1 DEF DueInv
    <3> QED BY <1>t, <2>1, <3>1 DEF DueInv
  <2> QED BY <1>g, <1>t, <2>1, <2>3 DEF DueInv
<1>3. CASE MarkProcessed
  <2>1. /\ UNCHANGED <<pending, encoded, hand, epc, expected, flushing>>
        /\ Appended(encodeQ, Mark, encodeQ') \/ encodeQ' = encodeQ
    BY <1>3, <1>t, MarkProcessedDoes
  <2>2. ~flushing => \A i \in 1 .. Len(encodeQ') : encodeQ'[i] # Mark => expected <= encodeQ'[i].frame
    <3>1. CASE Appended(encodeQ, Mark, encodeQ')
      <4>1. \A i \in 1 .. Len(encodeQ') : encodeQ'[i] # Mark => i \in 1 .. Len(encodeQ) /\ encodeQ'[i] = encodeQ[i]
        BY <3>1 DEF Appended
      <4> QED BY <1>t, <4>1 DEF DueInv
    <3> QED BY <1>t, <2>1, <3>1 DEF DueInv
  <2> QED BY <1>g, <1>t, <2>1, <2>2 DEF DueInv
<1>4. CASE Fetch
  <2>1. UNCHANGED <<expected, encoded, hand>> /\ epc \notin EncoderSteps /\ epc' \notin EncoderSteps
    BY <1>4 DEF Fetch, EncoderSteps
  <2>2. \/ flushing' = TRUE
        \/ /\ Shifted(encodeQ, encodeQ') /\ encodeQ[1] # Mark
           /\ pending' = pending \cup {encodeQ[1]} /\ flushing' = flushing
        \/ encodeQ' = encodeQ /\ pending' = pending /\ flushing' = flushing
    BY <1>4, <1>t, FetchDoes
  <2>3. CASE flushing' = TRUE
    BY <1>g, <2>1, <2>3 DEF DueInv
  <2>4. CASE /\ Shifted(encodeQ, encodeQ') /\ encodeQ[1] # Mark
             /\ pending' = pending \cup {encodeQ[1]} /\ flushing' = flushing
    <3>1. /\ 1 \in 1 .. Len(encodeQ)
          /\ \A i \in 1 .. Len(encodeQ') : i + 1 \in 1 .. Len(encodeQ) /\ encodeQ'[i] = encodeQ[i + 1]
      BY <2>4 DEF Shifted
    <3>2. ~flushing => \A i \in 1 .. Len(encodeQ') : encodeQ'[i] # Mark => expected <= encodeQ'[i].frame
      BY <1>t, <3>1 DEF DueInv
    <3>3. ~flushing => \A p \in pending' : expected <= p.frame
      BY <1>t, <2>4, <3>1 DEF DueInv
    <3> QED BY <1>g, <1>t, <2>1, <2>4, <3>2, <3>3 DEF DueInv
  <2>5. CASE encodeQ' = encodeQ /\ pending' = pending /\ flushing' = flushing
    BY <1>s, <2>1, <2>5
  <2> QED BY <2>2, <2>3, <2>4, <2>5
<1>5. CASE Order
  <2>1. /\ UNCHANGED <<encodeQ, encoded, expected, flushing>> /\ epc = "order"
        /\ "order" \notin EncoderSteps /\ "get" \notin EncoderSteps /\ "encode" \in EncoderSteps
    BY <1>5 DEF Order, EncoderSteps
  <2>2. \/ epc' = "get" /\ hand' = hand /\ pending' = pending
        \/ /\ hand' \in pending /\ hand'.frame = expected
           /\ epc' = "encode" /\ pending' = pending \ {hand'}
    BY <1>5, <1>t, DueChosen
  <2> QED BY <1>g, <1>t, <2>1, <2>2 DEF DueInv
<1>6. CASE Flush
  <2>1. UNCHANGED <<expected, flushing>> /\ flushing
    BY <1>6, <1>t DEF Flush, Phases
  <2> QED BY <1>g, <2>1 DEF DueInv
<1>7. CASE Encode
  <2>1. UNCHANGED <<encodeQ, pending, hand, expected, flushing>> /\ epc = "encode" /\ epc \in EncoderSteps
    BY <1>7 DEF Encode, EncoderSteps
  <2>2. epc' = "clear" \/ (epc' = "leave" /\ encoded' = encoded)
    BY <1>7, <1>t, EncodeDoes
  <2>3. "leave" \notin EncoderSteps /\ "clear" \in EncoderSteps
    BY DEF EncoderSteps
  <2>4. \A i \in 1 .. Len(encoded) : encoded[i].frame < hand.frame
    BY <1>t, <2>1 DEF EncodeLine, HandLine
  <2> QED BY <1>g, <1>t, <2>1, <2>2, <2>3, <2>4 DEF DueInv
<1>8. CASE Clear \/ Check \/ Unpark
  <2>1. /\ UNCHANGED <<encodeQ, pending, encoded, hand, expected, flushing>>
        /\ epc \in EncoderSteps /\ epc' \in EncoderSteps
    BY <1>8 DEF Clear, Check, Unpark, EncoderSteps
  <2> QED BY <1>g, <1>t, <2>1 DEF DueInv
<1>9. CASE Retire
  <2>1. UNCHANGED <<encodeQ, pending, encoded, hand, flushing>> /\ epc = "retire" /\ epc \in EncoderSteps
    BY <1>9 DEF Retire, EncoderSteps
  <2>2. CASE flushing
    BY <1>9, <1>g, <2>1, <2>2 DEF Retire, DueInv
  <2>3. CASE ~flushing
    <3>1. expected' = expected + 1 /\ epc' \notin EncoderSteps
      BY <1>9, <2>3 DEF Retire, EncoderSteps
    <3>2. hand.frame = expected /\ expected < FrontIn
      BY <1>t, <2>1, <2>3 DEF DueInv, EncodeLine, HandLine, Handled
    <3>3. FrontIn' = FrontIn
      <4>1. ~Drop /\ ~PutProcessed /\ ~Finish
        BY <1>9, <1>t, <2>1 DEF Retire, Drop, PutProcessed, Finish, Types
      <4> QED BY <4>1, FrontStep
    <3>4. expected + 1 <= FrontIn
      BY <1>f, <3>2
    <3>5. \A p \in pending : expected + 1 <= p.frame
      BY <1>b, <1>f, <1>t, <2>1, <3>2 DEF EncodeLine, HandLine
    <3>6. \A i \in 1 .. Len(encodeQ) : encodeQ[i] # Mark => expected + 1 <= encodeQ[i].frame
      BY <1>b, <1>f, <1>t, <2>1, <3>2 DEF EncodeLine, HandLine
    <3>7. \A i \in 1 .. Len(encoded) : encoded[i].frame < expected + 1
      <4>1. encoded # <<>> /\ encoded[Len(encoded)] = hand
        BY <1>t, <2>1 DEF EncodeLine, HandLine
      <4> SUFFICES ASSUME NEW i \in 1 .. Len(encoded) PROVE encoded[i].frame < expected + 1
        OBVIOUS
      <4>2. CASE i = Len(encoded)
        BY <1>f, <3>2, <4>1, <4>2
      <4>3. CASE i # Len(encoded)
        <5>1. Len(encoded) \in 1 .. Len(encoded) /\ i < Len(encoded)
          BY <1>b, <4>3
        <5>2. encoded[i].frame < hand.frame
          BY <1>t, <4>1, <5>1 DEF EncodeLine, WrittenLine
        <5> QED BY <1>b, <1>f, <3>2, <5>2
      <4> QED BY <4>2, <4>3
    <3> QED BY <2>1, <2>3, <3>1, <3>3, <3>4, <3>5, <3>6, <3>7 DEF DueInv
  <2> QED BY <2>2, <2>3
<1>10. CASE LeaveEncoder
  <2>1. /\ UNCHANGED <<expected, flushing, encodeQ, encoded>> /\ pending' = {}
        /\ epc' \notin EncoderSteps /\ epc \notin EncoderSteps
    BY <1>10 DEF LeaveEncoder, EncoderSteps
  <2> QED BY <1>s, <2>1
<1>11. CASE Finish
  <2>1. /\ Len(encodeQ') = 0 /\ UNCHANGED <<encoded, pending, epc, expected, flushing>>
        /\ epc \notin EncoderSteps
    BY <1>11 DEF Finish, EncoderSteps
  <2> QED BY <1>g, <1>t, <2>1 DEF DueInv
<1> QED
  BY <1>1, <1>2, <1>3, <1>4, <1>5, <1>6, <1>7, <1>8, <1>9, <1>10, <1>11 DEF Next, Owner, Encoder, Elsewhere

-----------------------------------------------------------------------------
(* Nothing is lost on the way.                                              *)

\* A run never becomes undisturbed again, and a thread that is leaving does not come back.
LEMMA NoWayBack ==
    ASSUME Inv, [Next]_vars
    PROVE  /\ Clean' => Clean
           /\ ppc' \notin {"mark", "done"} => ppc \notin {"mark", "done"}
           /\ epc' \notin {"leave", "done"} => epc \notin {"leave", "done"}
<1> USE DEF decoderVars, ownerVars, encoderVars, callVars
<1>1. CASE Decoder \/ Call \/ StopProcessing \/ UNCHANGED vars
  BY <1>1 DEF Decoder, DecoderPoll, AcquireLease, Decode, PutDecoded, MarkDecoded, Call, StopProcessing, vars, Clean
<1>2. CASE Owner
  BY <1>2 DEF Owner, Take, Begin, Work, LeaveScope, Fallback, Drop, PutProcessed, MarkProcessed, Clean
<1>3. CASE Encoder
  BY <1>3 DEF Encoder, Fetch, Order, Flush, Encode, Clear, Check, Unpark, Retire, LeaveEncoder, Clean
<1>4. CASE Finish
  BY <1>4 DEF Finish, Clean
<1> QED BY <1>1, <1>2, <1>3, <1>4 DEF Next

LEMMA KnownGrows ==
    ASSUME Inv, [Next]_vars, epc' \notin {"leave", "done"} \/ Clean', NEW f \in Frames, Known(f)
    PROVE  Known(f)'
<1> USE DEF decoderVars, ownerVars, encoderVars, callVars
<1>t. Types /\ Phases /\ EncodeLine /\ CleanInv
  BY DEF Inv
<1>b. Len(encoded) \in Nat
  BY <1>t, BehindTypes
<1>1. CASE Elsewhere \/ PutProcessed \/ MarkProcessed \/ Finish
  <2>1. UNCHANGED <<pending, encoded, hand, epc>>
    BY <1>1, ElsewhereKeeps DEF PutProcessed, MarkProcessed, Finish
  <2> QED BY <2>1 DEF Known
<1>2. CASE Fetch
  <2>1. UNCHANGED <<encoded, hand>> /\ epc \notin EncoderSteps
    BY <1>2 DEF Fetch, EncoderSteps
  <2>2. pending \subseteq pending'
    BY <1>2, <1>t, FetchDoes
  <2> QED BY <2>1, <2>2 DEF Known
<1>3. CASE Order \/ Flush
  <2>1. UNCHANGED encoded /\ epc \notin EncoderSteps /\ "encode" \in EncoderSteps
    BY <1>3 DEF Order, Flush, EncoderSteps
  <2>2. pending' = pending \/ (hand' \in pending /\ epc' = "encode" /\ pending' = pending \ {hand'})
    BY <1>3, <1>t, DueChosen, FirstChosen
  <2> QED BY <2>1, <2>2 DEF Known
<1>4. CASE Encode
  <2>1. /\ UNCHANGED pending
        /\ Len(encoded') = Len(encoded) + 1 /\ encoded'[Len(encoded) + 1] = hand
        /\ \A i \in 1 .. Len(encoded) : encoded'[i] = encoded[i]
    <3>1. ~(errors' = TRUE /\ epc' = "leave")
      BY DEF Clean
    <3> QED BY <1>4, <1>t, <3>1, EncodeDoes
  <2>2. CASE \E i \in 1 .. Len(encoded) : encoded[i].frame = f
    <3>1. PICK i \in 1 .. Len(encoded) : encoded[i].frame = f
      BY <2>2
    <3>2. i \in 1 .. Len(encoded') /\ encoded'[i].frame = f
      BY <1>b, <2>1, <3>1
    <3> QED BY <3>2 DEF Known
  <2>3. CASE hand.frame = f
    <3>1. Len(encoded) + 1 \in 1 .. Len(encoded') /\ encoded'[Len(encoded) + 1].frame = f
      BY <1>b, <2>1, <2>3
    <3> QED BY <3>1 DEF Known
  <2> QED BY <2>1, <2>2, <2>3 DEF Known
<1>5. CASE Clear \/ Check \/ Unpark
  <2>1. UNCHANGED <<pending, encoded, hand>> /\ epc \in EncoderSteps /\ epc' \in EncoderSteps
    BY <1>5 DEF Clear, Check, Unpark, EncoderSteps
  <2> QED BY <2>1 DEF Known
<1>6. CASE Retire
  <2>1. UNCHANGED <<pending, encoded>> /\ epc = "retire" /\ epc \in EncoderSteps
    BY <1>6 DEF Retire, EncoderSteps
  <2>2. Len(encoded) \in 1 .. Len(encoded) /\ encoded[Len(encoded)] = hand
    <3>1. encoded # <<>> /\ encoded[Len(encoded)] = hand /\ encoded \in Seq(Packet)
      BY <1>t, <2>1, QueueTypes DEF EncodeLine, HandLine
    <3>2. Len(encoded) > 0
      BY <3>1, EmptySeq
    <3> QED BY <1>b, <3>1, <3>2
  <2> QED BY <2>1, <2>2 DEF Known
<1>7. CASE LeaveEncoder
  <2>1. UNCHANGED <<encoded, processing, errors, main>> /\ pending' = {} /\ epc = "leave" /\ epc' = "done"
    BY <1>7 DEF LeaveEncoder
  <2>2. pending = {}
    BY <1>t, <2>1 DEF Clean, CleanInv
  <2>3. "leave" \notin EncoderSteps
    BY DEF EncoderSteps
  <2> QED BY <2>1, <2>2, <2>3 DEF Known
<1> QED
  BY <1>1, <1>2, <1>3, <1>4, <1>5, <1>6, <1>7 DEF Next, Owner, Encoder, Elsewhere

LEMMA SentGrows ==
    ASSUME Inv, [Next]_vars, epc' \notin {"leave", "done"} \/ Clean', NEW f \in Frames, Sent(f)
    PROVE  Sent(f)'
<1> USE DEF decoderVars, ownerVars, encoderVars, callVars
<1>t. Types /\ Phases /\ EncodeLine /\ CleanInv
  BY DEF Inv
<1>1. CASE Known(f)
  BY <1>1, KnownGrows DEF Sent
<1>2. CASE \E i \in 1 .. Len(encodeQ) : encodeQ[i].frame = f
  <2>1. PICK i \in 1 .. Len(encodeQ) : encodeQ[i].frame = f
    BY <1>2
  <2>2. encodeQ[i] # Mark
    BY <2>1, Sizes DEF Mark, Frames
  <2>3. ASSUME NEW x, Appended(encodeQ, x, encodeQ') PROVE Sent(f)'
    <3>1. i \in 1 .. Len(encodeQ') /\ encodeQ'[i].frame = f
      BY <2>1, <2>3 DEF Appended
    <3> QED BY <3>1 DEF Sent
  <2>4. CASE encodeQ' = encodeQ
    BY <2>1, <2>4 DEF Sent
  <2>5. CASE PutProcessed \/ MarkProcessed
    <3>1. Appended(encodeQ, job, encodeQ') \/ Appended(encodeQ, Mark, encodeQ') \/ encodeQ' = encodeQ
      BY <1>t, <2>5, PutProcessedDoes, MarkProcessedDoes
    <3> QED BY <2>3, <2>4, <3>1
  <2>6. CASE Fetch
    <3>1. \/ Shifted(encodeQ, encodeQ') /\ encodeQ[1] = Mark
          \/ Shifted(encodeQ, encodeQ') /\ encodeQ[1] \in pending'
          \/ encodeQ' = encodeQ
      BY <1>t, <2>6, FetchDoes
    <3>2. CASE Shifted(encodeQ, encodeQ') /\ i # 1
      <4>1. i - 1 \in 1 .. Len(encodeQ') /\ encodeQ'[i - 1] = encodeQ[i - 1 + 1] /\ i - 1 + 1 = i
        BY <2>1, <3>2 DEF Shifted
      <4>2. encodeQ'[i - 1].frame = f
        BY <2>1, <4>1
      <4> QED BY <4>1, <4>2 DEF Sent
    <3>3. CASE encodeQ[1] \in pending' /\ i = 1
      BY <2>1, <3>3 DEF Sent, Known
    <3> QED BY <2>2, <2>4, <3>1, <3>2, <3>3
  <2>7. CASE Finish
    BY <1>t, <2>7 DEF Finish, Clean, Phases
  <2>8. CASE Elsewhere
    BY <2>4, <2>8, ElsewhereKeeps
  <2>9. CASE Order \/ Flush \/ Encode \/ Clear \/ Check \/ Unpark \/ Retire \/ LeaveEncoder
    <3>1. encodeQ' = encodeQ
      BY <2>9 DEF Order, Flush, Encode, Clear, Check, Unpark, Retire, LeaveEncoder
    <3> QED BY <2>4, <3>1
  <2> QED BY <2>5, <2>6, <2>7, <2>8, <2>9 DEF Next, Owner, Encoder, Elsewhere
<1> QED BY <1>1, <1>2 DEF Sent

LEMMA GaplessStep == ASSUME Inv, [Next]_vars PROVE Gapless'
<1> USE DEF decoderVars, ownerVars, encoderVars, callVars
<1>t. Types /\ EncodeLine /\ Complete /\ Gapless
  BY DEF Inv
<1>b. /\ Len(encoded) \in Nat /\ hand.frame \in Nat /\ \A p \in pending : p.frame \in Nat
      /\ \A i \in 1 .. Len(encoded) : encoded[i].frame \in Nat
  BY <1>t, BehindTypes
<1>f. \A f \in Frames : f \in Int
  BY Sizes DEF Frames
<1>1. CASE encoded' = encoded
  BY <1>1, <1>t DEF Gapless
<1>2. CASE Encode
  <2>1. epc = "encode" /\ epc \in EncoderSteps
    BY <1>2 DEF Encode, EncoderSteps
  <2>2. CASE /\ Len(encoded') = Len(encoded) + 1 /\ encoded'[Len(encoded) + 1] = hand
             /\ \A i \in 1 .. Len(encoded) : encoded'[i] = encoded[i]
    <3> SUFFICES ASSUME NEW i \in 1 .. Len(encoded'), NEW f \in Frames, f < encoded'[i].frame,
                        i > 1 => encoded'[i - 1].frame < f
                 PROVE  f \in Unproduced
      BY DEF Gapless
    <3>1. CASE i \in 1 .. Len(encoded)
      <4>1. encoded'[i] = encoded[i] /\ (i > 1 => encoded'[i - 1] = encoded[i - 1])
        BY <1>b, <2>2, <3>1
      <4> QED BY <1>t, <3>1, <4>1 DEF Gapless
    <3>2. CASE i = Len(encoded) + 1
      <4>1. f < hand.frame /\ (Len(encoded) > 0 => encoded[Len(encoded)].frame < f)
        <5>1. encoded'[i] = hand
          BY <2>2, <3>2
        <5>2. Len(encoded) > 0 => i > 1 /\ i - 1 = Len(encoded) /\ Len(encoded) \in 1 .. Len(encoded)
          BY <1>b, <3>2
        <5>3. Len(encoded) > 0 => encoded'[i - 1] = encoded[Len(encoded)]
          BY <2>2, <5>2
        <5> QED BY <5>1, <5>2, <5>3
      <4>2. Known(f)
        BY <1>t, <2>1, <4>1 DEF Complete, CompleteHeld
      <4>3. ASSUME NEW j \in 1 .. Len(encoded) PROVE encoded[j].frame # f
        <5>1. Len(encoded) > 0 /\ Len(encoded) \in 1 .. Len(encoded)
          BY <1>b
        <5>2. j = Len(encoded) \/ encoded[j].frame < encoded[Len(encoded)].frame
          BY <1>b, <1>t, <5>1 DEF EncodeLine, WrittenLine
        <5>3. encoded[Len(encoded)].frame < f
          BY <4>1, <5>1
        <5> QED BY <1>b, <1>f, <5>1, <5>2, <5>3
      <4>4. \A p \in pending : p.frame # f
        BY <1>b, <1>f, <1>t, <2>1, <4>1 DEF EncodeLine, HandLine
      <4>5. hand.frame # f
        BY <1>b, <1>f, <4>1
      <4> QED BY <4>2, <4>3, <4>4, <4>5 DEF Known
    <3> QED BY <1>b, <2>2, <3>1, <3>2
  <2> QED BY <1>1, <1>2, <1>t, <2>2, EncodeDoes
<1>3. CASE Decoder \/ Owner \/ Finish \/ Call \/ StopProcessing \/ UNCHANGED vars
  <2>1. encoded' = encoded
    BY <1>3 DEF Decoder, DecoderPoll, AcquireLease, Decode, PutDecoded, MarkDecoded, Finish, Call, StopProcessing, vars,
                Owner, Take, Begin, Work, LeaveScope, Fallback, Drop, PutProcessed, MarkProcessed
  <2> QED BY <1>1, <2>1
<1>4. CASE Fetch \/ Order \/ Flush \/ Clear \/ Check \/ Unpark \/ Retire \/ LeaveEncoder
  <2>1. encoded' = encoded
    BY <1>4 DEF Fetch, Order, Flush, Clear, Check, Unpark, Retire, LeaveEncoder
  <2> QED BY <1>1, <2>1
<1> QED
  BY <1>2, <1>3, <1>4 DEF Next, Encoder

LEMMA CompleteAheadStep == ASSUME Inv, [Next]_vars PROVE CompleteAhead'
<1> USE DEF decoderVars, ownerVars, encoderVars, callVars
<1>t. Types /\ Phases /\ DecodeLine /\ Complete /\ CleanInv
  BY DEF Inv
<1> SUFFICES ASSUME Clean' \/ (ppc' \notin {"mark", "done"} /\ epc' \notin {"leave", "done"}),
                    NEW f \in Frames, f < FrontIn'
             PROVE  Sent(f)'
  BY DEF CompleteAhead
<1>1. Clean \/ (ppc \notin {"mark", "done"} /\ epc \notin {"leave", "done"})
  BY NoWayBack
<1>2. f < FrontIn => Sent(f)
  BY <1>1, <1>t DEF Complete, CompleteAhead
<1>3. Sent(f) => Sent(f)'
  BY SentGrows
<1>n. f \in Int /\ FrontIn \in Int
  BY Sizes, FrontStep DEF Frames
<1>4. CASE Drop
  <2>1. FrontIn' = FrontIn + 1
    BY <1>4, FrontStep
  <2>2. CASE f = FrontIn
    <3>1. f \in Unproduced
      BY <1>4, <1>t, <2>2 DEF Drop, DecodeLine, JobLine, InOwner
    <3> QED BY <3>1 DEF Sent, Known
  <2>3. f < FrontIn \/ f = FrontIn
    BY <1>n, <2>1
  <2> QED BY <1>2, <1>3, <2>2, <2>3
<1>5. CASE PutProcessed
  <2>1. FrontIn' = FrontIn + 1
    BY <1>5, FrontStep
  <2>2. CASE f = FrontIn
    <3>1. Appended(encodeQ, job, encodeQ')
      <4>1. ~(ppc' = "mark" /\ (stop \/ ~processing))
        BY <1>t, NoWayBack DEF Clean, CleanInv
      <4> QED BY <1>5, <1>t, <4>1, PutProcessedDoes
    <3>2. job.frame = f
      BY <1>5, <1>t, <2>2 DEF PutProcessed, DecodeLine, JobLine, InOwner
    <3>3. Len(encodeQ) + 1 \in 1 .. Len(encodeQ') /\ encodeQ'[Len(encodeQ) + 1].frame = f
      BY <3>1, <3>2 DEF Appended
    <3> QED BY <3>3 DEF Sent
  <2>3. f < FrontIn \/ f = FrontIn
    BY <1>n, <2>1
  <2> QED BY <1>2, <1>3, <2>2, <2>3
<1>6. CASE Finish
  BY <1>6 DEF Finish, Clean
<1>7. CASE ~Drop /\ ~PutProcessed /\ ~Finish
  BY <1>2, <1>3, <1>7, FrontStep
<1> QED BY <1>4, <1>5, <1>6, <1>7

LEMMA CompleteHeldStep == ASSUME Inv, [Next]_vars PROVE CompleteHeld'
<1> USE DEF decoderVars, ownerVars, encoderVars, callVars
<1>t. Types /\ Phases /\ DecodeLine /\ EncodeLine /\ Complete
  BY DEF Inv
<1>b. /\ \A i \in 1 .. Len(encodeQ) : encodeQ[i] # Mark => encodeQ[i].frame \in Nat
      /\ Len(encodeQ) \in Nat
  BY <1>t, BehindTypes
<1>f. \A f \in Frames : f \in Nat
  BY Sizes DEF Frames
<1> SUFFICES ASSUME epc' \notin {"leave", "done"} PROVE CompleteHeld'
  BY DEF CompleteHeld
<1>e. epc \notin {"leave", "done"}
  BY NoWayBack
<1>c. /\ \A i \in 1 .. Len(encodeQ) : \A f \in Frames : f < encodeQ[i].frame => Sent(f)
      /\ \A p \in pending : \A f \in Frames : f < p.frame => Known(f)
      /\ epc \in EncoderSteps => \A f \in Frames : f < hand.frame => Known(f)
  BY <1>e, <1>t DEF Complete, CompleteHeld
<1>k. \A f \in Frames : Known(f) => Known(f)'
  BY KnownGrows
<1>s. \A f \in Frames : Sent(f) => Sent(f)'
  BY SentGrows
<1>1. \A i \in 1 .. Len(encodeQ') : \A f \in Frames : f < encodeQ'[i].frame => Sent(f)'
  <2>1. CASE encodeQ' = encodeQ
    BY <1>c, <1>s, <2>1
  <2>2. CASE PutProcessed
    <3>1. Appended(encodeQ, job, encodeQ') \/ encodeQ' = encodeQ
      BY <1>t, <2>2, PutProcessedDoes
    <3>2. CASE Appended(encodeQ, job, encodeQ')
      <4>1. job.frame = FrontIn
        BY <1>t, <2>2 DEF PutProcessed, DecodeLine, JobLine, InOwner
      <4>2. \A f \in Frames : f < job.frame => Sent(f)
        BY <1>e, <1>t, <2>2, <4>1 DEF PutProcessed, Complete, CompleteAhead
      <4>3. \A i \in 1 .. Len(encodeQ') : \/ i \in 1 .. Len(encodeQ) /\ encodeQ'[i] = encodeQ[i]
                                          \/ encodeQ'[i] = job
        BY <3>2 DEF Appended
      <4> QED BY <1>c, <1>s, <4>2, <4>3
    <3> QED BY <2>1, <3>1, <3>2
  <2>3. CASE MarkProcessed
    <3>1. Appended(encodeQ, Mark, encodeQ') \/ encodeQ' = encodeQ
      BY <1>t, <2>3, MarkProcessedDoes
    <3>2. CASE Appended(encodeQ, Mark, encodeQ')
      <4>1. \A i \in 1 .. Len(encodeQ') : \/ i \in 1 .. Len(encodeQ) /\ encodeQ'[i] = encodeQ[i]
                                          \/ encodeQ'[i] = Mark
        BY <3>2 DEF Appended
      <4>2. \A f \in Frames : ~(f < Mark.frame)
        BY <1>f DEF Mark
      <4> QED BY <1>c, <1>s, <4>1, <4>2
    <3> QED BY <2>1, <3>1, <3>2
  <2>4. CASE Fetch
    <3>1. Shifted(encodeQ, encodeQ') \/ encodeQ' = encodeQ
      BY <1>t, <2>4, FetchDoes
    <3>2. CASE Shifted(encodeQ, encodeQ')
      <4>1. \A i \in 1 .. Len(encodeQ') : i + 1 \in 1 .. Len(encodeQ) /\ encodeQ'[i] = encodeQ[i + 1]
        BY <3>2 DEF Shifted
      <4> QED BY <1>c, <1>s, <4>1
    <3> QED BY <2>1, <3>1, <3>2
  <2>5. CASE Finish
    BY <1>e, <2>5 DEF Finish
  <2>6. CASE Elsewhere
    BY <2>1, <2>6, ElsewhereKeeps
  <2>7. CASE Order \/ Flush \/ Encode \/ Clear \/ Check \/ Unpark \/ Retire \/ LeaveEncoder
    <3>1. encodeQ' = encodeQ
      BY <2>7 DEF Order, Flush, Encode, Clear, Check, Unpark, Retire, LeaveEncoder
    <3> QED BY <2>1, <3>1
  <2> QED BY <2>2, <2>3, <2>4, <2>5, <2>6, <2>7 DEF Next, Owner, Encoder, Elsewhere
<1>2. \A p \in pending' : \A f \in Frames : f < p.frame => Known(f)'
  <2>1. CASE \A p \in pending' : p \in pending
    BY <1>c, <1>k, <2>1
  <2>2. CASE Fetch
    <3>1. (Shifted(encodeQ, encodeQ') /\ encodeQ[1] # Mark /\ pending' = pending \cup {encodeQ[1]}) \/ pending' = pending
      BY <1>t, <2>2, FetchDoes
    <3>2. CASE Shifted(encodeQ, encodeQ') /\ encodeQ[1] # Mark /\ pending' = pending \cup {encodeQ[1]}
      <4>1. 1 \in 1 .. Len(encodeQ)
        BY <3>2 DEF Shifted
      <4>2. ASSUME NEW f \in Frames, f < encodeQ[1].frame PROVE Known(f)
        <5>1. Sent(f)
          BY <1>c, <4>1, <4>2
        <5>2. ASSUME NEW i \in 1 .. Len(encodeQ), encodeQ[i].frame = f PROVE FALSE
          <6>1. encodeQ[i] # Mark
            BY <5>2, <1>f DEF Mark
          <6>2. i = 1 \/ encodeQ[1].frame < encodeQ[i].frame
            BY <1>t, <4>1, <6>1 DEF EncodeLine, QueuedLine
          <6> QED BY <1>b, <3>2, <4>1, <4>2, <5>2, <6>1, <6>2
        <5> QED BY <5>1, <5>2 DEF Sent
      <4> QED BY <1>c, <1>k, <3>2, <4>2
    <3> QED BY <2>1, <3>1, <3>2
  <2>3. CASE Order \/ Flush
    <3>1. \A p \in pending' : p \in pending
      BY <1>t, <2>3, DueChosen, FirstChosen
    <3> QED BY <2>1, <3>1
  <2>4. CASE Elsewhere
    BY <2>1, <2>4, ElsewhereKeeps
  <2>5. CASE PutProcessed \/ MarkProcessed \/ Finish \/ Encode \/ Clear \/ Check \/ Unpark \/ Retire \/ LeaveEncoder
    <3>1. pending' = pending \/ pending' = {}
      BY <2>5 DEF PutProcessed, MarkProcessed, Finish, Encode, Clear, Check, Unpark, Retire, LeaveEncoder
    <3> QED BY <2>1, <3>1
  <2> QED BY <2>2, <2>3, <2>4, <2>5 DEF Next, Owner, Encoder, Elsewhere
<1>3. epc' \in EncoderSteps => \A f \in Frames : f < hand'.frame => Known(f)'
  <2>1. CASE UNCHANGED hand /\ (epc' \in EncoderSteps => epc \in EncoderSteps)
    BY <1>c, <1>k, <2>1
  <2>2. CASE Order \/ Flush
    <3>1. hand' \in pending \/ epc' \notin EncoderSteps
      <4>1. "get" \notin EncoderSteps /\ "leave" \notin EncoderSteps
        BY DEF EncoderSteps
      <4> QED BY <1>t, <2>2, <4>1, DueChosen, FirstChosen
    <3> QED BY <1>c, <1>k, <3>1
  <2>3. CASE Elsewhere \/ PutProcessed \/ MarkProcessed \/ Finish
    <3>1. UNCHANGED <<hand, epc>>
      BY <2>3, ElsewhereKeeps DEF PutProcessed, MarkProcessed, Finish
    <3> QED BY <2>1, <3>1
  <2>4. CASE Fetch \/ Encode \/ Clear \/ Check \/ Unpark \/ Retire \/ LeaveEncoder
    <3>1. UNCHANGED hand /\ (epc' \in EncoderSteps => epc \in EncoderSteps)
      BY <2>4 DEF Fetch, Encode, Clear, Check, Unpark, Retire, LeaveEncoder, EncoderSteps
    <3> QED BY <2>1, <3>1
  <2> QED BY <2>2, <2>3, <2>4 DEF Next, Owner, Encoder, Elsewhere
<1> QED BY <1>1, <1>2, <1>3 DEF CompleteHeld

-----------------------------------------------------------------------------
(* How a run ends.                                                          *)

LEMMA CleanStep == ASSUME Inv, [Next]_vars PROVE CleanInv'
<1> USE DEF decoderVars, ownerVars, encoderVars, callVars
<1> SUFFICES ASSUME Clean' PROVE CleanInv'
  BY DEF CleanInv
<1>c. Clean
  BY NoWayBack
<1>t. /\ Types /\ Phases /\ ~stop /\ processing
      /\ dpc \in {"mark", "done"} => index = TotalFrames
      /\ ppc \in {"mark", "done"} => dpc = "done" /\ decodeQ = <<>>
      /\ epc \in {"leave", "done"} => flushing /\ pending = {}
  BY <1>c DEF Inv, CleanInv, Clean
<1>1. CASE DecoderPoll \/ AcquireLease \/ Decode
  BY <1>1, <1>t DEF DecoderPoll, AcquireLease, Decode, Clean, CleanInv
<1>2. CASE PutDecoded
  <2>1. /\ dpc = "put" /\ dpc' = "poll" /\ stop' = stop
        /\ UNCHANGED <<ppc, epc, flushing, pending>>
    BY <1>2, <1>t, PutDecodedDoes
  <2> QED BY <1>t, <2>1 DEF CleanInv
<1>3. CASE MarkDecoded
  <2>1. /\ dpc = "mark" /\ dpc' = "done" /\ stop' = stop
        /\ UNCHANGED <<index, ppc, epc, flushing, pending>>
    BY <1>3, <1>t, MarkDecodedDoes
  <2> QED BY <1>t, <2>1 DEF CleanInv
<1>4. CASE Take
  <2>1. /\ UNCHANGED <<dpc, index, epc, flushing, pending, stop>>
        /\ ppc' = "begin" \/ (ppc' = "mark" /\ Shifted(decodeQ, decodeQ') /\ decodeQ[1] = Mark)
    BY <1>4, <1>t, TakeDoes
  <2>2. ASSUME Shifted(decodeQ, decodeQ'), decodeQ[1] = Mark PROVE dpc = "done" /\ decodeQ' = <<>>
    <3>1. 1 \in 1 .. Len(decodeQ)
      BY <2>2 DEF Shifted
    <3>2. Len(decodeQ) = 1 /\ dpc = "done"
      BY <1>t, <2>2, <3>1 DEF Phases
    <3> QED BY <2>2, <3>2 DEF Shifted
  <2> QED BY <1>t, <2>1, <2>2 DEF CleanInv
<1>5. CASE Begin \/ Work \/ LeaveScope \/ Fallback \/ Drop
  BY <1>5, <1>t DEF Begin, Work, LeaveScope, Fallback, Drop, CleanInv
<1>6. CASE PutProcessed
  <2>1. UNCHANGED <<dpc, index, decodeQ, epc, flushing, pending, stop>> /\ ppc' = "get"
    BY <1>6, <1>t, PutProcessedDoes
  <2> QED BY <1>t, <2>1 DEF CleanInv
<1>7. CASE MarkProcessed
  <2>1. UNCHANGED <<dpc, index, decodeQ, epc, flushing, pending, stop>> /\ ppc = "mark"
    BY <1>7, <1>t, MarkProcessedDoes
  <2> QED BY <1>t, <2>1 DEF CleanInv
<1>8. CASE Fetch
  <2>1. UNCHANGED <<dpc, index, decodeQ, ppc, stop>> /\ epc' \notin {"leave", "done"}
    BY <1>8, <1>t, FetchDoes
  <2> QED BY <1>t, <2>1 DEF CleanInv
<1>9. CASE Order \/ Flush
  <2>1. UNCHANGED <<dpc, index, decodeQ, ppc, stop, flushing>>
    BY <1>9 DEF Order, Flush
  <2>2. epc' \notin {"leave", "done"} \/ (flushing /\ pending' = {} /\ epc' = "leave")
    BY <1>9, <1>t, DueChosen, FirstChosen DEF Flush, Order, Phases
  <2> QED BY <1>t, <2>1, <2>2 DEF CleanInv
<1>10. CASE Encode
  <2>1. UNCHANGED <<dpc, index, decodeQ, ppc, stop>> /\ epc' = "clear"
    BY <1>10, <1>t DEF Encode, Clean
  <2> QED BY <1>t, <2>1 DEF CleanInv
<1>11. CASE Clear \/ Check \/ Unpark \/ Retire
  BY <1>11, <1>t DEF Clear, Check, Unpark, Retire, CleanInv
<1>12. CASE LeaveEncoder
  BY <1>12, <1>t DEF LeaveEncoder, CleanInv
<1>13. CASE Finish
  BY <1>13 DEF Finish, Clean
<1>14. CASE Call \/ StopProcessing \/ UNCHANGED vars
  BY <1>14, <1>t DEF Call, StopProcessing, vars, CleanInv
<1> QED
  BY <1>1, <1>2, <1>3, <1>4, <1>5, <1>6, <1>7, <1>8, <1>9, <1>10, <1>11, <1>12, <1>13, <1>14
     DEF Next, Decoder, Owner, Encoder

LEMMA UnrefusedStep == ASSUME Inv, [Next]_vars PROVE Unrefused'
<1> USE DEF decoderVars, ownerVars, encoderVars, callVars
<1> SUFFICES ASSUME processing' PROVE Unrefused'
  BY DEF Unrefused
<1>p. processing
  BY DEF Next, Decoder, DecoderPoll, AcquireLease, Decode, PutDecoded, MarkDecoded,
         Owner, Take, Begin, Work, LeaveScope, Fallback, Drop, PutProcessed, MarkProcessed,
         Encoder, Fetch, Order, Flush, Encode, Clear, Check, Unpark, Retire, LeaveEncoder,
         Finish, Call, StopProcessing, vars
<1>t. /\ Types /\ InLine(decodeQ, NextIn)
      /\ InOwner = 1 => job.kind # "refused"
      /\ \A i \in 1 .. Len(encodeQ) : encodeQ[i].kind # "refused"
      /\ \A p \in pending : p.kind # "refused"
      /\ epc \in EncoderSteps => hand.kind # "refused"
      /\ \A i \in 1 .. Len(encoded) : encoded[i].kind # "refused"
  BY <1>p DEF Inv, Unrefused, DecodeLine
<1>s. ASSUME UNCHANGED <<encodeQ, pending, hand, epc, encoded>>, InOwner' = 1 => job'.kind # "refused"
      PROVE  Unrefused'
  BY <1>s, <1>t DEF Unrefused
<1>1. CASE Decoder \/ Call \/ StopProcessing \/ UNCHANGED vars
  <2>1. UNCHANGED <<ppc, job>>
    BY <1>1 DEF Decoder, DecoderPoll, AcquireLease, Decode, PutDecoded, MarkDecoded, Call, StopProcessing, vars
  <2>2. InOwner' = InOwner
    BY <2>1 DEF InOwner
  <2> QED BY <1>1, <1>s, <1>t, <2>1, <2>2, ElsewhereKeeps DEF Elsewhere
<1>2. CASE Take
  <2>1. \/ ppc' = "mark"
        \/ Shifted(decodeQ, decodeQ') /\ decodeQ[1] # Mark /\ job' = decodeQ[1]
    BY <1>2, <1>t, TakeDoes
  <2>2. CASE ppc' = "mark"
    <3>1. InOwner' = 0
      BY <2>2 DEF InOwner
    <3> QED BY <1>2, <1>s, <3>1, ElsewhereKeeps DEF Elsewhere
  <2>3. CASE Shifted(decodeQ, decodeQ') /\ decodeQ[1] # Mark /\ job' = decodeQ[1]
    <3>1. NextIn \in Int
      BY FrontStep
    <3>2. decodeQ[1] = [frame |-> NextIn, kind |-> "decoded"]
      BY <1>t, <2>3, <3>1, LineShrinks
    <3>3. job'.kind # "refused"
      BY <2>3, <3>2
    <3> QED BY <1>2, <1>s, <3>3, ElsewhereKeeps DEF Elsewhere
  <2> QED BY <2>1, <2>2, <2>3
<1>3. CASE Begin \/ Work \/ LeaveScope \/ Fallback \/ Drop
  <2>1. InOwner = 1
    BY <1>3 DEF Begin, Work, LeaveScope, Fallback, Drop, InOwner
  <2>2. job'.kind # "refused"
    BY <1>3, <1>p, <1>t, <2>1 DEF Begin, Work, LeaveScope, Fallback, Drop, Types, Packet
  <2> QED BY <1>3, <1>s, <2>2, ElsewhereKeeps DEF Elsewhere
<1>4. CASE PutProcessed \/ MarkProcessed
  <2>1. UNCHANGED <<pending, hand, epc, encoded>> /\ ppc' \in {"get", "mark", "done"}
    BY <1>4 DEF PutProcessed, MarkProcessed
  <2>2. \/ Appended(encodeQ, job, encodeQ') /\ ppc = "put"
        \/ Appended(encodeQ, Mark, encodeQ')
        \/ encodeQ' = encodeQ
    BY <1>4, <1>t, PutProcessedDoes, MarkProcessedDoes
  <2>3. ASSUME NEW x, x.kind # "refused", Appended(encodeQ, x, encodeQ')
        PROVE  \A i \in 1 .. Len(encodeQ') : encodeQ'[i].kind # "refused"
    <3>1. \A i \in 1 .. Len(encodeQ') : \/ i \in 1 .. Len(encodeQ) /\ encodeQ'[i] = encodeQ[i]
                                        \/ encodeQ'[i] = x
      BY <2>3 DEF Appended
    <3> QED BY <1>t, <2>3, <3>1
  <2>4. Mark.kind # "refused" /\ (ppc = "put" => job.kind # "refused")
    BY <1>t DEF Mark, InOwner
  <2>5. \A i \in 1 .. Len(encodeQ') : encodeQ'[i].kind # "refused"
    BY <1>t, <2>2, <2>3, <2>4
  <2>6. InOwner' = 0
    BY <2>1 DEF InOwner
  <2> QED BY <1>t, <2>1, <2>5, <2>6 DEF Unrefused
<1>o. ASSUME Encoder \/ Finish PROVE InOwner' = InOwner /\ job' = job
  BY <1>o DEF Encoder, Fetch, Order, Flush, Encode, Clear, Check, Unpark, Retire, LeaveEncoder, Finish, InOwner
<1>5. CASE Fetch
  <2>1. UNCHANGED <<hand, encoded>> /\ epc' \notin EncoderSteps
    BY <1>5 DEF Fetch, EncoderSteps
  <2>2. \/ Shifted(encodeQ, encodeQ') /\ (pending' = pending \/ pending' = pending \cup {encodeQ[1]})
        \/ encodeQ' = encodeQ /\ pending' = pending
    BY <1>5, <1>t, FetchDoes
  <2>3. CASE Shifted(encodeQ, encodeQ') /\ (pending' = pending \/ pending' = pending \cup {encodeQ[1]})
    <3>1. /\ 1 \in 1 .. Len(encodeQ)
          /\ \A i \in 1 .. Len(encodeQ') : i + 1 \in 1 .. Len(encodeQ) /\ encodeQ'[i] = encodeQ[i + 1]
      BY <2>3 DEF Shifted
    <3> QED BY <1>o, <1>5, <1>t, <2>1, <2>3, <3>1 DEF Unrefused, Encoder
  <2>4. CASE encodeQ' = encodeQ /\ pending' = pending
    BY <1>o, <1>5, <1>t, <2>1, <2>4 DEF Unrefused, Encoder
  <2> QED BY <2>2, <2>3, <2>4
<1>6. CASE Order \/ Flush
  <2>1. UNCHANGED <<encodeQ, encoded>> /\ epc \notin EncoderSteps
    BY <1>6 DEF Order, Flush, EncoderSteps
  <2>2. \/ hand' = hand /\ pending' = pending /\ epc' \in {"get", "leave"}
        \/ hand' \in pending /\ pending' = pending \ {hand'}
    BY <1>6, <1>t, DueChosen, FirstChosen DEF Inv
  <2>3. "get" \notin EncoderSteps /\ "leave" \notin EncoderSteps
    BY DEF EncoderSteps
  <2> QED BY <1>o, <1>6, <1>t, <2>1, <2>2, <2>3 DEF Unrefused, Encoder
<1>7. CASE Encode
  <2>1. UNCHANGED <<encodeQ, pending, hand>> /\ epc \in EncoderSteps
    BY <1>7 DEF Encode, EncoderSteps
  <2>2. \A i \in 1 .. Len(encoded') : encoded'[i] = hand \/ (i \in 1 .. Len(encoded) /\ encoded'[i] = encoded[i])
    <3>1. \/ /\ Len(encoded) \in Nat /\ Len(encoded') = Len(encoded) + 1
             /\ encoded'[Len(encoded) + 1] = hand
             /\ \A i \in 1 .. Len(encoded) : encoded'[i] = encoded[i]
          \/ encoded' = encoded
      BY <1>7, <1>t, EncodeDoes
    <3>2. CASE encoded' = encoded
      BY <3>2
    <3>3. CASE /\ Len(encoded) \in Nat /\ Len(encoded') = Len(encoded) + 1
               /\ encoded'[Len(encoded) + 1] = hand
               /\ \A i \in 1 .. Len(encoded) : encoded'[i] = encoded[i]
      <4>1. \A i \in 1 .. Len(encoded') : i = Len(encoded) + 1 \/ i \in 1 .. Len(encoded)
        BY <3>3
      <4> QED BY <3>3, <4>1
    <3> QED BY <3>1, <3>2, <3>3
  <2> QED BY <1>o, <1>7, <1>t, <2>1, <2>2 DEF Unrefused, Encoder
<1>8. CASE Clear \/ Check \/ Unpark \/ Retire \/ LeaveEncoder \/ Finish
  <2>1. /\ UNCHANGED <<hand, encoded>> /\ (epc' \in EncoderSteps => epc \in EncoderSteps)
        /\ encodeQ' = encodeQ \/ Len(encodeQ') = 0
        /\ pending' = pending \/ pending' = {}
    BY <1>8 DEF Clear, Check, Unpark, Retire, LeaveEncoder, Finish, EncoderSteps
  <2> QED BY <1>o, <1>8, <1>t, <2>1 DEF Unrefused, Encoder
<1> QED
  BY <1>1, <1>2, <1>3, <1>4, <1>5, <1>6, <1>7, <1>8 DEF Next, Owner, Encoder

\* An undisturbed run has nothing between the threads when it ends, so everything was encoded.
LEMMA WholeStep == ASSUME Inv, [Next]_vars PROVE WholeInv'
<1> USE DEF decoderVars, ownerVars, encoderVars, callVars
<1>t. /\ Types /\ Phases /\ Complete /\ CleanInv /\ WholeInv
  BY DEF Inv
<1> SUFFICES ASSUME main' = "returned", processing'
             PROVE  \A f \in Frames : f \in Unproduced \/ \E i \in 1 .. Len(encoded') : encoded'[i].frame = f
  BY DEF WholeInv
<1>p. processing
  BY DEF Next, Decoder, DecoderPoll, AcquireLease, Decode, PutDecoded, MarkDecoded,
         Owner, Take, Begin, Work, LeaveScope, Fallback, Drop, PutProcessed, MarkProcessed,
         Encoder, Fetch, Order, Flush, Encode, Clear, Check, Unpark, Retire, LeaveEncoder,
         Finish, Call, StopProcessing, vars
<1>1. CASE Finish
  <2>1. Clean /\ dpc = "done" /\ ppc = "done" /\ epc = "done" /\ UNCHANGED encoded
    BY <1>1, <1>p DEF Finish, Clean
  <2>2. index = TotalFrames /\ decodeQ = <<>> /\ flushing /\ pending = {} /\ encodeQ = <<>>
    BY <1>t, <2>1 DEF CleanInv, Phases
  <2>3. PacketsIn(decodeQ) = 0 /\ InOwner = 0 /\ Len(encodeQ) = 0
    BY <2>1, <2>2, EmptyCounts DEF InOwner
  <2>4. FrontIn = TotalFrames
    BY <2>2, <2>3, Sizes DEF FrontIn, NextIn
  <2>5. \A f \in Frames : f < FrontIn
    BY <2>4, Sizes DEF Frames
  <2>6. \A f \in Frames : Sent(f)
    BY <1>t, <2>1, <2>5 DEF Complete, CompleteAhead
  <2>7. "done" \notin EncoderSteps
    BY DEF EncoderSteps
  <2> QED BY <2>1, <2>2, <2>3, <2>6, <2>7 DEF Sent, Known
<1>2. CASE ~Finish
  <2>1. main = "returned"
    BY <1>2 DEF Next, Decoder, DecoderPoll, AcquireLease, Decode, PutDecoded, MarkDecoded,
         Owner, Take, Begin, Work, LeaveScope, Fallback, Drop, PutProcessed, MarkProcessed,
         Encoder, Fetch, Order, Flush, Encode, Clear, Check, Unpark, Retire, LeaveEncoder,
         Call, StopProcessing, vars
  <2>2. epc = "done"
    BY <1>t, <2>1 DEF Phases
  <2>3. encoded' = encoded
    BY <1>2, <2>2 DEF Next, Decoder, DecoderPoll, AcquireLease, Decode, PutDecoded, MarkDecoded,
         Owner, Take, Begin, Work, LeaveScope, Fallback, Drop, PutProcessed, MarkProcessed,
         Encoder, Fetch, Order, Flush, Encode, Clear, Check, Unpark, Retire, LeaveEncoder,
         Call, StopProcessing, vars
  <2> QED BY <1>p, <1>t, <2>1, <2>3 DEF WholeInv
<1> QED BY <1>1, <1>2

-----------------------------------------------------------------------------
(* The leases.                                                              *)

SumOf(l, d, q, o, e, p, h) == l + d + q + o + e + p + h

LEMMA LeaseParts ==
    ASSUME Types, LeasesExact
    PROVE  /\ leases \in Int /\ InDecoder \in {0, 1} /\ InOwner \in {0, 1} /\ InEncoder \in {0, 1}
           /\ PacketsIn(decodeQ) \in Nat /\ PacketsIn(encodeQ) \in Nat /\ Cardinality(pending) \in Nat
           /\ SumOf(leases, InDecoder, PacketsIn(decodeQ), InOwner, PacketsIn(encodeQ),
                    Cardinality(pending), InEncoder) = Leases
           /\ InDecoder = 1 \/ InOwner = 1 \/ InEncoder = 1 => Returned(1) = leases + 1
           /\ Returned(Cardinality(pending)) = leases + Cardinality(pending)
           /\ Returned(PacketsIn(decodeQ) + PacketsIn(encodeQ)) = leases + (PacketsIn(decodeQ) + PacketsIn(encodeQ))
<1>1. leases \in 0 .. Leases /\ InDecoder \in {0, 1} /\ InOwner \in {0, 1} /\ InEncoder \in {0, 1}
  BY DEF Types, InDecoder, InOwner, InEncoder
<1>2. PacketsIn(decodeQ) \in Nat /\ PacketsIn(encodeQ) \in Nat
  BY QueueTypes
<1>3. Cardinality(pending) \in Nat
  BY BufferFinite DEF Types
<1>4. leases + InDecoder + PacketsIn(decodeQ) + InOwner + PacketsIn(encodeQ)
             + Cardinality(pending) + InEncoder = Leases
  BY DEF LeasesExact
<1>5. InDecoder = 1 \/ InOwner = 1 \/ InEncoder = 1 => leases + 1 <= Leases
  BY <1>1, <1>2, <1>3, <1>4
<1>6. leases + Cardinality(pending) <= Leases
  BY <1>1, <1>2, <1>3, <1>4
<1>7. leases + (PacketsIn(decodeQ) + PacketsIn(encodeQ)) <= Leases /\ PacketsIn(decodeQ) + PacketsIn(encodeQ) \in Nat
  BY <1>1, <1>2, <1>3, <1>4
<1>8. InDecoder = 1 \/ InOwner = 1 \/ InEncoder = 1 => Returned(1) = leases + 1
  BY <1>1, <1>5, ReturnedType
<1>9. Returned(Cardinality(pending)) = leases + Cardinality(pending)
  BY <1>1, <1>3, <1>6, ReturnedType
<1>10. Returned(PacketsIn(decodeQ) + PacketsIn(encodeQ)) = leases + (PacketsIn(decodeQ) + PacketsIn(encodeQ))
  BY <1>1, <1>7, ReturnedType
<1> QED BY <1>1, <1>2, <1>3, <1>4, <1>8, <1>9, <1>10, Sizes DEF SumOf

LEMMA PendingMoves ==
    ASSUME NEW A, A \subseteq Packet, NEW p \in Packet
    PROVE  /\ p \in A => Cardinality(A \ {p}) = Cardinality(A) - 1
           /\ p \notin A => Cardinality(A \cup {p}) = Cardinality(A) + 1
<1>1. IsFiniteSet(A)
  BY BufferFinite
<1>2. p \in A => Cardinality(A \ {p}) = Cardinality(A) - 1
  BY <1>1, FS_RemoveElement
<1>3. p \notin A => Cardinality(A \cup {p}) = Cardinality(A) + 1
  BY <1>1, FS_AddElement
<1> QED BY <1>2, <1>3

LEMMA LeasesStep == ASSUME Inv, [Next]_vars PROVE LeasesExact'
<1> USE DEF decoderVars, ownerVars, encoderVars, callVars
<1>t. Types /\ Phases /\ EncodeLine /\ LeasesExact
  BY DEF Inv
<1>i. /\ leases \in Int /\ InDecoder \in Int /\ InOwner \in Int /\ InEncoder \in Int
      /\ PacketsIn(decodeQ) \in Int /\ PacketsIn(encodeQ) \in Int /\ Cardinality(pending) \in Int
  BY <1>t, LeaseParts
<1>s. SumOf(leases, InDecoder, PacketsIn(decodeQ), InOwner, PacketsIn(encodeQ),
            Cardinality(pending), InEncoder) = Leases
  BY <1>t, LeaseParts
<1>r. InDecoder = 1 \/ InOwner = 1 \/ InEncoder = 1 => Returned(1) = leases + 1
  BY <1>t, LeaseParts
<1>z. ASSUME SumOf(leases', InDecoder', PacketsIn(decodeQ'), InOwner', PacketsIn(encodeQ'),
                   Cardinality(pending'), InEncoder') = Leases
      PROVE  LeasesExact'
  BY <1>z DEF SumOf, LeasesExact
<1>ld. SumOf(leases - 1, InDecoder + 1, PacketsIn(decodeQ), InOwner,
            PacketsIn(encodeQ), Cardinality(pending), InEncoder) = Leases
  BY <1>i, <1>s DEF SumOf
<1>dl. SumOf(leases + 1, InDecoder - 1, PacketsIn(decodeQ), InOwner,
            PacketsIn(encodeQ), Cardinality(pending), InEncoder) = Leases
  BY <1>i, <1>s DEF SumOf
<1>dq. SumOf(leases, InDecoder - 1, PacketsIn(decodeQ) + 1, InOwner,
            PacketsIn(encodeQ), Cardinality(pending), InEncoder) = Leases
  BY <1>i, <1>s DEF SumOf
<1>qo. SumOf(leases, InDecoder, PacketsIn(decodeQ) - 1, InOwner + 1,
            PacketsIn(encodeQ), Cardinality(pending), InEncoder) = Leases
  BY <1>i, <1>s DEF SumOf
<1>ol. SumOf(leases + 1, InDecoder, PacketsIn(decodeQ), InOwner - 1,
            PacketsIn(encodeQ), Cardinality(pending), InEncoder) = Leases
  BY <1>i, <1>s DEF SumOf
<1>oe. SumOf(leases, InDecoder, PacketsIn(decodeQ), InOwner - 1,
            PacketsIn(encodeQ) + 1, Cardinality(pending), InEncoder) = Leases
  BY <1>i, <1>s DEF SumOf
<1>ep. SumOf(leases, InDecoder, PacketsIn(decodeQ), InOwner,
            PacketsIn(encodeQ) - 1, Cardinality(pending) + 1, InEncoder) = Leases
  BY <1>i, <1>s DEF SumOf
<1>ph. SumOf(leases, InDecoder, PacketsIn(decodeQ), InOwner,
            PacketsIn(encodeQ), Cardinality(pending) - 1, InEncoder + 1) = Leases
  BY <1>i, <1>s DEF SumOf
<1>hl. InEncoder = 1 => SumOf(leases + 1, InDecoder, PacketsIn(decodeQ), InOwner,
                           PacketsIn(encodeQ), Cardinality(pending), 0) = Leases
  BY <1>i, <1>s DEF SumOf
<1>pl. SumOf(leases + Cardinality(pending), InDecoder, PacketsIn(decodeQ), InOwner,
            PacketsIn(encodeQ), 0, InEncoder) = Leases
  BY <1>i, <1>s DEF SumOf
<1>ql. SumOf(leases + (PacketsIn(decodeQ) + PacketsIn(encodeQ)), InDecoder, 0, InOwner, 0,
            Cardinality(pending), InEncoder) = Leases
  BY <1>i, <1>s DEF SumOf
<1>d. dpc' = dpc => InDecoder' = InDecoder
  BY DEF InDecoder
<1>o. ppc' = ppc => InOwner' = InOwner
  BY DEF InOwner
<1>e. epc' = epc => InEncoder' = InEncoder
  BY DEF InEncoder
<1>1. CASE UNCHANGED <<leases, decodeQ, encodeQ, pending, InDecoder, InOwner, InEncoder>>
  BY <1>1, <1>s, <1>z
<1>2. CASE DecoderPoll
  <2>1. UNCHANGED <<leases, decodeQ, encodeQ, pending, InDecoder, InOwner, InEncoder>>
    BY <1>2, <1>o, <1>e DEF DecoderPoll, InDecoder
  <2> QED BY <1>1, <2>1
<1>3. CASE AcquireLease
  <2>1. UNCHANGED <<decodeQ, encodeQ, pending, InOwner, InEncoder>> /\ InDecoder = 0
    BY <1>3, <1>o, <1>e DEF AcquireLease, InDecoder
  <2>2. \/ leases' = leases - 1 /\ InDecoder' = InDecoder + 1
        \/ leases' = leases /\ InDecoder' = InDecoder
    <3>1. (leases' = leases - 1 /\ dpc' = "decode") \/ (leases' = leases /\ dpc' = "mark")
      BY <1>3 DEF AcquireLease
    <3> QED BY <2>1, <3>1 DEF InDecoder
  <2> QED BY <1>s, <1>z, <2>1, <2>2, <1>ld
<1>4. CASE Decode
  <2>1. UNCHANGED <<decodeQ, encodeQ, pending, InOwner, InEncoder>> /\ InDecoder = 1
    BY <1>4, <1>o, <1>e DEF Decode, InDecoder
  <2>2. \/ leases' = Returned(1) /\ InDecoder' = InDecoder - 1
        \/ leases' = leases /\ InDecoder' = InDecoder
    <3>1. (leases' = Returned(1) /\ dpc' = "mark") \/ (leases' = leases /\ dpc' = "put")
      BY <1>4 DEF Decode
    <3> QED BY <2>1, <3>1 DEF InDecoder
  <2> QED BY <1>r, <1>s, <1>z, <2>1, <2>2, <1>dl
<1>5. CASE PutDecoded
  <2>1. UNCHANGED <<encodeQ, pending, InOwner, InEncoder>> /\ InDecoder = 1
    BY <1>5, <1>o, <1>e DEF PutDecoded, InDecoder
  <2>2. [frame |-> index, kind |-> "decoded"] # Mark
    BY <1>5, <1>t, PutDecodedDoes, Marks
  <2>3. \/ leases' = leases /\ Appended(decodeQ, [frame |-> index, kind |-> "decoded"], decodeQ') /\ dpc' = "poll"
        \/ leases' = Returned(1) /\ decodeQ' = decodeQ /\ dpc' = "mark"
    BY <1>5, <1>t, PutDecodedDoes
  <2>4. InDecoder' = InDecoder - 1
    BY <2>1, <2>3 DEF InDecoder
  <2>5. CASE leases' = leases /\ Appended(decodeQ, [frame |-> index, kind |-> "decoded"], decodeQ')
    <3>1. PacketsIn(decodeQ') = PacketsIn(decodeQ) + 1
      BY <2>2, <2>5 DEF Appended, Holds
    <3> QED BY <1>s, <1>z, <2>1, <2>4, <2>5, <3>1, <1>dq
  <2>6. CASE leases' = Returned(1) /\ decodeQ' = decodeQ
    BY <1>r, <1>s, <1>z, <2>1, <2>4, <2>6, <1>dl
  <2> QED BY <2>3, <2>5, <2>6
<1>m. ASSUME NEW q, NEW r, PacketsIn(q) \in Int, Appended(q, Mark, r) PROVE PacketsIn(r) = PacketsIn(q)
  BY <1>m DEF Appended, Holds
<1>6. CASE MarkDecoded
  <2>1. UNCHANGED <<leases, encodeQ, pending, InOwner, InEncoder, InDecoder>>
    BY <1>6, <1>o, <1>e DEF MarkDecoded, InDecoder
  <2>2. Appended(decodeQ, Mark, decodeQ') \/ decodeQ' = decodeQ
    BY <1>6, <1>t, MarkDecodedDoes
  <2>3. PacketsIn(decodeQ') = PacketsIn(decodeQ)
    BY <1>i, <1>m, <2>2
  <2> QED BY <1>s, <1>z, <2>1, <2>3
<1>7. CASE Take
  <2>1. UNCHANGED <<leases, encodeQ, pending, InDecoder, InEncoder>> /\ InOwner = 0
    BY <1>7, <1>d, <1>e DEF Take, InOwner
  <2>2. \/ Shifted(decodeQ, decodeQ') /\ decodeQ[1] = Mark /\ ppc' = "mark"
        \/ Shifted(decodeQ, decodeQ') /\ decodeQ[1] # Mark /\ ppc' = "begin"
        \/ decodeQ' = decodeQ /\ ppc' = "mark"
    BY <1>7, <1>t, TakeDoes
  <2>3. CASE Shifted(decodeQ, decodeQ') /\ decodeQ[1] # Mark /\ ppc' = "begin"
    <3>1. PacketsIn(decodeQ) = Holds(TRUE) + PacketsIn(decodeQ') /\ decodeQ' \in Seq(Line)
      BY <2>3 DEF Shifted
    <3>2. PacketsIn(decodeQ') = PacketsIn(decodeQ) - 1
      BY <1>i, <3>1, CountRules DEF Holds
    <3>3. InOwner' = InOwner + 1
      BY <2>1, <2>3 DEF InOwner
    <3> QED BY <1>s, <1>z, <2>1, <3>2, <3>3, <1>qo
  <2>4. CASE Shifted(decodeQ, decodeQ') /\ decodeQ[1] = Mark /\ ppc' = "mark"
    <3>1. PacketsIn(decodeQ) = Holds(FALSE) + PacketsIn(decodeQ') /\ decodeQ' \in Seq(Line)
      BY <2>4 DEF Shifted
    <3>2. PacketsIn(decodeQ') = PacketsIn(decodeQ)
      BY <1>i, <3>1, CountRules DEF Holds
    <3>3. InOwner' = InOwner
      BY <2>1, <2>4 DEF InOwner
    <3> QED BY <1>s, <1>z, <2>1, <3>2, <3>3
  <2>5. CASE decodeQ' = decodeQ /\ ppc' = "mark"
    <3>1. InOwner' = InOwner
      BY <2>1, <2>5 DEF InOwner
    <3> QED BY <1>s, <1>z, <2>1, <2>5, <3>1
  <2> QED BY <2>2, <2>3, <2>4, <2>5
<1>8. CASE Begin \/ Work \/ LeaveScope \/ Fallback
  <2>1. UNCHANGED <<leases, decodeQ, encodeQ, pending, InDecoder, InEncoder>>
    BY <1>8, <1>d, <1>e DEF Begin, Work, LeaveScope, Fallback
  <2>2. InOwner' = InOwner
    BY <1>8 DEF Begin, Work, LeaveScope, Fallback, InOwner
  <2> QED BY <1>1, <2>1, <2>2
<1>9. CASE Drop
  <2>1. UNCHANGED <<decodeQ, encodeQ, pending, InDecoder, InEncoder>> /\ leases' = Returned(1)
    BY <1>9, <1>d, <1>e DEF Drop
  <2>2. InOwner = 1 /\ InOwner' = InOwner - 1
    BY <1>9 DEF Drop, InOwner
  <2> QED BY <1>r, <1>s, <1>z, <2>1, <2>2, <1>ol
<1>10. CASE PutProcessed
  <2>1. UNCHANGED <<decodeQ, pending, InDecoder, InEncoder>> /\ InOwner = 1
    BY <1>10, <1>d, <1>e DEF PutProcessed, InOwner
  <2>2. \/ leases' = leases /\ Appended(encodeQ, job, encodeQ') /\ ppc' = "get"
        \/ leases' = Returned(1) /\ encodeQ' = encodeQ /\ ppc' = "mark"
    BY <1>10, <1>t, PutProcessedDoes
  <2>3. InOwner' = InOwner - 1
    BY <2>1, <2>2 DEF InOwner
  <2>4. CASE leases' = leases /\ Appended(encodeQ, job, encodeQ')
    <3>1. job # Mark
      BY <1>t, Marks DEF Types
    <3>2. PacketsIn(encodeQ') = PacketsIn(encodeQ) + 1
      BY <2>4, <3>1 DEF Appended, Holds
    <3> QED BY <1>s, <1>z, <2>1, <2>3, <2>4, <3>2, <1>oe
  <2>5. CASE leases' = Returned(1) /\ encodeQ' = encodeQ
    BY <1>r, <1>s, <1>z, <2>1, <2>3, <2>5, <1>ol
  <2> QED BY <2>2, <2>4, <2>5
<1>11. CASE MarkProcessed
  <2>1. UNCHANGED <<leases, decodeQ, pending, InOwner, InEncoder, InDecoder>>
    BY <1>11, <1>d, <1>e DEF MarkProcessed, InOwner
  <2>2. Appended(encodeQ, Mark, encodeQ') \/ encodeQ' = encodeQ
    BY <1>11, <1>t, MarkProcessedDoes
  <2>3. PacketsIn(encodeQ') = PacketsIn(encodeQ)
    BY <1>i, <1>m, <2>2
  <2> QED BY <1>s, <1>z, <2>1, <2>3
<1>12. CASE Fetch
  <2>1. UNCHANGED <<leases, decodeQ, InDecoder, InOwner, InEncoder>>
    BY <1>12, <1>d, <1>o DEF Fetch, InEncoder, EncoderSteps
  <2>2. \/ Shifted(encodeQ, encodeQ') /\ encodeQ[1] = Mark /\ pending' = pending
        \/ Shifted(encodeQ, encodeQ') /\ encodeQ[1] # Mark /\ pending' = pending \cup {encodeQ[1]}
        \/ encodeQ' = encodeQ /\ pending' = pending
    BY <1>12, <1>t, FetchDoes
  <2>3. CASE Shifted(encodeQ, encodeQ') /\ encodeQ[1] # Mark /\ pending' = pending \cup {encodeQ[1]}
    <3>1. PacketsIn(encodeQ) = Holds(TRUE) + PacketsIn(encodeQ') /\ encodeQ' \in Seq(Line)
      BY <2>3 DEF Shifted
    <3>0. 1 \in 1 .. Len(encodeQ)
      BY <2>3 DEF Shifted
    <3>2. PacketsIn(encodeQ') = PacketsIn(encodeQ) - 1
      BY <1>i, <3>1, CountRules DEF Holds
    <3>3. encodeQ[1] \in Packet /\ encodeQ[1] \notin pending
      <4>1. encodeQ[1] \in Packet /\ encodeQ[1].frame \in Nat
        BY <1>t, <2>3, <3>0, BehindTypes
      <4>2. \A p \in pending : p.frame < encodeQ[1].frame
        BY <1>t, <2>3, <3>0 DEF EncodeLine, BufferLine
      <4> QED BY <4>1, <4>2
    <3>4. Cardinality(pending') = Cardinality(pending) + 1
      BY <1>t, <2>3, <3>3, PendingMoves DEF Types
    <3> QED BY <1>s, <1>z, <2>1, <3>2, <3>4, <1>ep
  <2>4. CASE Shifted(encodeQ, encodeQ') /\ encodeQ[1] = Mark /\ pending' = pending
    <3>1. PacketsIn(encodeQ) = Holds(FALSE) + PacketsIn(encodeQ') /\ encodeQ' \in Seq(Line)
      BY <2>4 DEF Shifted
    <3>2. PacketsIn(encodeQ') = PacketsIn(encodeQ)
      BY <1>i, <3>1, CountRules DEF Holds
    <3> QED BY <1>s, <1>z, <2>1, <2>4, <3>2
  <2>5. CASE encodeQ' = encodeQ /\ pending' = pending
    BY <1>s, <1>z, <2>1, <2>5
  <2> QED BY <2>2, <2>3, <2>4, <2>5
<1>13. CASE Order \/ Flush
  <2>1. UNCHANGED <<leases, decodeQ, encodeQ, InDecoder, InOwner>> /\ InEncoder = 0
    BY <1>13, <1>d, <1>o DEF Order, Flush, InEncoder, EncoderSteps
  <2>2. \/ pending' = pending /\ epc' \in {"get", "leave"}
        \/ hand' \in pending /\ pending' = pending \ {hand'} /\ epc' = "encode"
    BY <1>13, <1>t, DueChosen, FirstChosen
  <2>3. CASE pending' = pending /\ epc' \in {"get", "leave"}
    <3>1. InEncoder' = InEncoder
      BY <2>1, <2>3 DEF InEncoder, EncoderSteps
    <3> QED BY <1>1, <2>1, <2>3, <3>1
  <2>4. CASE hand' \in pending /\ pending' = pending \ {hand'} /\ epc' = "encode"
    <3>1. InEncoder' = InEncoder + 1
      BY <2>1, <2>4 DEF InEncoder, EncoderSteps
    <3>2. Cardinality(pending') = Cardinality(pending) - 1
      BY <1>t, <2>4, PendingMoves DEF Types
    <3> QED BY <1>s, <1>z, <2>1, <3>1, <3>2, <1>ph
  <2> QED BY <2>2, <2>3, <2>4
<1>14. CASE Encode
  <2>1. UNCHANGED <<decodeQ, encodeQ, pending, InDecoder, InOwner>> /\ InEncoder = 1
    BY <1>14, <1>d, <1>o DEF Encode, InEncoder, EncoderSteps
  <2>2. (leases' = leases /\ epc' = "clear") \/ (leases' = Returned(1) /\ epc' = "leave")
    BY <1>14 DEF Encode
  <2>3. (leases' = leases /\ InEncoder' = InEncoder) \/ (leases' = Returned(1) /\ InEncoder' = 0)
    BY <2>1, <2>2 DEF InEncoder, EncoderSteps
  <2> QED BY <1>r, <1>s, <1>z, <2>1, <2>3, <1>hl
<1>15. CASE Clear \/ Check \/ Unpark
  <2>1. UNCHANGED <<leases, decodeQ, encodeQ, pending, InDecoder, InOwner>>
    BY <1>15, <1>d, <1>o DEF Clear, Check, Unpark
  <2>2. InEncoder' = InEncoder
    BY <1>15 DEF Clear, Check, Unpark, InEncoder, EncoderSteps
  <2> QED BY <1>1, <2>1, <2>2
<1>16. CASE Retire
  <2>1. UNCHANGED <<decodeQ, encodeQ, pending, InDecoder, InOwner>> /\ leases' = Returned(1)
    BY <1>16, <1>d, <1>o DEF Retire
  <2>2. InEncoder = 1 /\ InEncoder' = 0
    BY <1>16 DEF Retire, InEncoder, EncoderSteps
  <2> QED BY <1>r, <1>s, <1>z, <2>1, <2>2, <1>hl
<1>17. CASE LeaveEncoder
  <2>1. UNCHANGED <<decodeQ, encodeQ, InDecoder, InOwner, InEncoder>>
    BY <1>17, <1>d, <1>o DEF LeaveEncoder, InEncoder, EncoderSteps
  <2>2. leases' = leases + Cardinality(pending)
    BY <1>17, <1>t, LeaseParts DEF LeaveEncoder
  <2>3. Cardinality(pending') = 0
    BY <1>17, FS_EmptySet DEF LeaveEncoder
  <2> QED BY <1>s, <1>z, <2>1, <2>2, <2>3, <1>pl
<1>18. CASE Finish
  <2>1. UNCHANGED <<pending, InDecoder, InOwner, InEncoder>>
    BY <1>18, <1>d, <1>o, <1>e DEF Finish
  <2>2. leases' = leases + (PacketsIn(decodeQ) + PacketsIn(encodeQ))
    BY <1>18, <1>t, LeaseParts DEF Finish
  <2>3. PacketsIn(decodeQ') = 0 /\ PacketsIn(encodeQ') = 0
    BY <1>18, EmptyCounts DEF Finish
  <2> QED BY <1>s, <1>z, <2>1, <2>2, <2>3, <1>ql
<1>19. CASE Call \/ StopProcessing \/ UNCHANGED vars
  <2>1. UNCHANGED <<leases, decodeQ, encodeQ, pending, InDecoder, InOwner, InEncoder>>
    BY <1>19, <1>d, <1>o, <1>e DEF Call, StopProcessing, vars
  <2> QED BY <1>1, <2>1
<1> QED
  BY <1>2, <1>3, <1>4, <1>5, <1>6, <1>7, <1>8, <1>9, <1>10, <1>11, <1>12, <1>13, <1>14, <1>15,
     <1>16, <1>17, <1>18, <1>19 DEF Next, Decoder, Owner, Encoder

-----------------------------------------------------------------------------
(* The reservations.                                                        *)

Alive(a, b, c, d) == a + b + c + d
Fits(p, w, q, d) == p + (w + q + d) <= Leases

LEMMA AliveIs == Living = Alive(OwnerHas, Outputs(encodeQ), OutsIn(pending), EncoderHas)
BY DEF Living, Alive

LEMMA OutsMove ==
    ASSUME NEW A, A \subseteq Packet, NEW p \in Packet
    PROVE  /\ OutsIn(A) \in Nat /\ OutsIn(A) <= Cardinality(A)
           /\ p \in A => OutsIn(A) = Holds(Output(p)) + OutsIn(A \ {p})
           /\ p \notin A => OutsIn(A \cup {p}) = OutsIn(A) + Holds(Output(p))
<1> DEFINE O(B) == {x \in B : Output(x)}
<1>1. IsFiniteSet(A) /\ Cardinality(A) \in Nat
  BY BufferFinite
<1>2. O(A) \subseteq A /\ O(A) \subseteq Packet /\ OutsIn(A) = Cardinality(O(A))
  BY DEF OutsIn
<1>3. IsFiniteSet(O(A)) /\ Cardinality(O(A)) \in Nat /\ Cardinality(O(A)) <= Cardinality(A)
  BY <1>1, <1>2, FS_Subset, FS_CardinalityType
<1>4. OutsIn(A \ {p}) = Cardinality(O(A \ {p})) /\ OutsIn(A \cup {p}) = Cardinality(O(A \cup {p}))
  BY DEF OutsIn
<1>5. CASE Output(p)
  <2>1. O(A \ {p}) = O(A) \ {p} /\ O(A \cup {p}) = O(A) \cup {p} /\ (p \in A <=> p \in O(A))
    BY <1>5
  <2>2. Holds(Output(p)) = 1
    BY <1>5 DEF Holds
  <2> HIDE DEF O
  <2>3. p \in A => Cardinality(O(A) \ {p}) = Cardinality(O(A)) - 1
    BY <1>2, <2>1, PendingMoves
  <2>4. p \notin A => Cardinality(O(A) \cup {p}) = Cardinality(O(A)) + 1
    BY <1>2, <2>1, PendingMoves
  <2>5. OutsIn(A \ {p}) = Cardinality(O(A) \ {p}) /\ OutsIn(A \cup {p}) = Cardinality(O(A) \cup {p})
    BY <1>4, <2>1
  <2>6. p \in A => OutsIn(A) = Holds(Output(p)) + OutsIn(A \ {p})
    BY <1>2, <1>3, <2>2, <2>3, <2>5
  <2>7. p \notin A => OutsIn(A \cup {p}) = OutsIn(A) + Holds(Output(p))
    BY <1>2, <1>3, <2>2, <2>4, <2>5
  <2> QED BY <1>2, <1>3, <2>6, <2>7
<1>6. CASE ~Output(p)
  <2>1. O(A \ {p}) = O(A) /\ O(A \cup {p}) = O(A)
    BY <1>6
  <2>2. Holds(Output(p)) = 0
    BY <1>6 DEF Holds
  <2> HIDE DEF O
  <2> QED BY <1>1, <1>2, <1>3, <1>4, <2>1, <2>2
<1> QED BY <1>5, <1>6

LEMMA LivingParts ==
    ASSUME Types
    PROVE  /\ OwnerHas \in {0, 1} /\ EncoderHas \in {0, 1}
           /\ Outputs(encodeQ) \in Nat /\ Outputs(encodeQ) <= PacketsIn(encodeQ)
           /\ OutsIn(pending) \in Nat /\ OutsIn(pending) <= Cardinality(pending)
           /\ Living \in Nat
<1>1. OwnerHas \in {0, 1} /\ EncoderHas \in {0, 1}
  BY DEF OwnerHas, EncoderHas, Holds
<1>2. Outputs(encodeQ) \in Nat /\ Outputs(encodeQ) <= PacketsIn(encodeQ)
  BY QueueTypes, CountRules
<1>3. OutsIn(pending) \in Nat /\ OutsIn(pending) <= Cardinality(pending)
  BY OutsMove DEF Types
<1> QED BY <1>1, <1>2, <1>3 DEF Living

\* An output and a frame that may become one each have a lease.
LEMMA AheadFits ==
    ASSUME Types, LeasesExact, pause.pending <= Living
    PROVE  pause.pending + Ahead <= Leases
<1>1. /\ OwnerHas \in {0, 1} /\ EncoderHas \in {0, 1}
      /\ Outputs(encodeQ) \in Nat /\ Outputs(encodeQ) <= PacketsIn(encodeQ)
      /\ OutsIn(pending) \in Nat /\ OutsIn(pending) <= Cardinality(pending)
  BY LivingParts
<1>2. Waiting \in {0, 1} /\ InOwner \in {0, 1} /\ Waiting + OwnerHas <= InOwner
  BY DEF Waiting, OwnerHas, InOwner, Holds
<1>3. InEncoder \in {0, 1} /\ EncoderHas <= InEncoder
  BY DEF EncoderHas, InEncoder, EncoderSteps, Holds
<1>4. /\ leases \in Nat /\ InDecoder \in {0, 1} /\ Cardinality(pending) \in Nat
      /\ PacketsIn(decodeQ) \in Nat /\ PacketsIn(encodeQ) \in Nat /\ pause.pending \in Nat
  BY LeaseParts DEF Types, PauseRec
<1>5. leases + InDecoder + PacketsIn(decodeQ) + InOwner + PacketsIn(encodeQ)
             + Cardinality(pending) + InEncoder = Leases
  BY DEF LeasesExact
<1>6. Living <= OwnerHas + PacketsIn(encodeQ) + Cardinality(pending) + InEncoder
  BY <1>1, <1>3, <1>4 DEF Living
<1>7. Ahead = Waiting + PacketsIn(decodeQ) + InDecoder
  BY DEF Ahead
<1>8. Living \in Nat
  BY LivingParts
<1> QED BY <1>1, <1>2, <1>3, <1>4, <1>5, <1>6, <1>7, <1>8, Sizes

LEMMA MatchedStep == ASSUME Inv, [Next]_vars PROVE Matched'
<1> USE DEF decoderVars, ownerVars, encoderVars, callVars
<1>t. Types /\ Phases /\ DecodeLine /\ EncodeLine /\ Unrefused /\ Matched /\ pause \in PauseRec
  BY DEF Inv, ReserveInv, Types
<1>i. /\ OwnerHas \in {0, 1} /\ EncoderHas \in {0, 1} /\ Outputs(encodeQ) \in Nat
      /\ OutsIn(pending) \in Nat /\ Living \in Nat /\ pause.pending \in Nat
  BY <1>t, LivingParts DEF PauseRec
<1>s. Living = Alive(OwnerHas, Outputs(encodeQ), OutsIn(pending), EncoderHas)
  BY AliveIs
<1>z. Living' = Alive(OwnerHas', Outputs(encodeQ'), OutsIn(pending'), EncoderHas')
  BY DEF Living, Alive
<1>m. /\ processing => Living <= pause.pending
      /\ ~stop => pause.pending <= Living
  BY <1>t DEF Matched
<1>w. (processing' => processing) /\ (~stop' => ~stop)
  BY DEF Next, Decoder, DecoderPoll, AcquireLease, Decode, PutDecoded, MarkDecoded, Placed, Refused,
         Owner, Take, Begin, Work, LeaveScope, Fallback, Drop, PutProcessed, MarkProcessed,
         Encoder, Fetch, Order, Flush, Encode, Clear, Check, Unpark, Retire, LeaveEncoder,
         Finish, Call, StopProcessing, vars
<1>k. ASSUME pause'.pending = pause.pending, Living' = Living PROVE Matched'
  BY <1>k, <1>m, <1>w DEF Matched
<1>u. ASSUME pause'.pending = pause.pending,
             UNCHANGED <<OwnerHas, encodeQ, pending, EncoderHas>>
      PROVE  Matched'
  BY <1>u, <1>k, <1>s, <1>z
<1>o. ppc' = ppc /\ job' = job => OwnerHas' = OwnerHas
  BY DEF OwnerHas
<1>e. epc' = epc /\ hand' = hand => EncoderHas' = EncoderHas
  BY DEF EncoderHas
<1>1. CASE Decoder
  <2>1. UNCHANGED <<pause, ppc, job, encodeQ, pending, epc, hand>>
    BY <1>1 DEF Decoder, DecoderPoll, AcquireLease, Decode, PutDecoded, MarkDecoded
  <2> QED BY <1>e, <1>o, <1>u, <2>1
<1>2. CASE Take
  <2>1. UNCHANGED <<pause, encodeQ, pending, epc, hand>> /\ ppc = "get" /\ ppc' \in {"begin", "mark"}
    BY <1>2 DEF Take
  <2>2. OwnerHas' = OwnerHas
    BY <2>1 DEF OwnerHas, Holds
  <2> QED BY <1>e, <1>u, <2>1, <2>2
<1>3. CASE Begin
  <2>1. UNCHANGED <<encodeQ, pending, epc, hand>> /\ pause'.pending = pause.pending
    BY <1>3, <1>t, PauseFields DEF Begin
  <2>2. OwnerHas' = OwnerHas
    <3>1. ppc = "begin" /\ (ppc' = "work" \/ (ppc' = "put" /\ job' = [job EXCEPT !.kind = "refused"]))
      BY <1>3 DEF Begin
    <3>2. [job EXCEPT !.kind = "refused"].kind = "refused"
      BY <1>t DEF Types, Packet
    <3> QED BY <3>1, <3>2 DEF OwnerHas, Holds, Output
  <2> QED BY <1>e, <1>u, <2>1, <2>2
<1>4. CASE Work
  <2>1. UNCHANGED <<encodeQ, pending, epc, hand, processing, stop>> /\ OwnerHas = 0
    BY <1>4 DEF Work, OwnerHas, Holds
  <2>2. \/ /\ job' = [job EXCEPT !.kind = "swapped"] /\ ppc' = "leave" /\ pause' = Reserved(pause)
        \/ ppc' \in {"lost", "failed"} /\ pause' = pause
    BY <1>4 DEF Work
  <2>3. CASE job' = [job EXCEPT !.kind = "swapped"] /\ ppc' = "leave" /\ pause' = Reserved(pause)
    <3>1. [job EXCEPT !.kind = "swapped"].kind = "swapped"
      BY <1>t DEF Types, Packet
    <3>2. OwnerHas' = 1
      BY <2>3, <3>1 DEF OwnerHas, Holds, Output
    <3>3. Alive(1, Outputs(encodeQ), OutsIn(pending), EncoderHas) = Living + 1
      BY <1>i, <1>s, <2>1 DEF Alive
    <3>4. Living' = Living + 1
      BY <1>e, <1>z, <2>1, <3>2, <3>3
    <3>5. pause'.pending = pause.pending + 1
      BY <1>t, <2>3, PauseFields
    <3> QED BY <1>i, <1>m, <2>1, <3>4, <3>5 DEF Matched
  <2>4. CASE ppc' \in {"lost", "failed"} /\ pause' = pause
    <3>1. OwnerHas' = 0
      BY <2>4 DEF OwnerHas, Holds
    <3> QED BY <1>e, <1>u, <2>1, <2>4, <3>1
  <2> QED BY <2>2, <2>3, <2>4
<1>5. CASE LeaveScope
  <2>1. UNCHANGED <<encodeQ, pending, epc, hand>> /\ pause'.pending = pause.pending
    BY <1>5, <1>t, PauseFields DEF LeaveScope
  <2>2. OwnerHas' = OwnerHas
    BY <1>5 DEF LeaveScope, OwnerHas, Holds
  <2> QED BY <1>e, <1>u, <2>1, <2>2
<1>6. CASE Fallback
  <2>1. UNCHANGED <<encodeQ, pending, epc, hand, processing, stop>> /\ OwnerHas = 0
    BY <1>6 DEF Fallback, OwnerHas, Holds
  <2>2. [job EXCEPT !.kind = "original"].kind = "original"
    BY <1>t DEF Types, Packet
  <2>3. OwnerHas' = 1
    BY <1>6, <2>2 DEF Fallback, OwnerHas, Holds, Output
  <2>4. Alive(1, Outputs(encodeQ), OutsIn(pending), EncoderHas) = Living + 1
    BY <1>i, <1>s, <2>1 DEF Alive
  <2>5. Living' = Living + 1
    BY <1>e, <1>z, <2>1, <2>3, <2>4
  <2>6. pause'.pending = pause.pending + 1
    BY <1>6, <1>t, PauseFields DEF Fallback
  <2> QED BY <1>i, <1>m, <2>1, <2>5, <2>6 DEF Matched
<1>7. CASE Drop
  <2>1. UNCHANGED <<pause, encodeQ, pending, epc, hand>> /\ OwnerHas' = OwnerHas
    BY <1>7 DEF Drop, OwnerHas, Holds
  <2> QED BY <1>e, <1>u, <2>1
<1>8. CASE PutProcessed
  <2>1. UNCHANGED <<pause, pending, epc, hand>> /\ ppc = "put" /\ ppc' \in {"get", "mark"}
    BY <1>8 DEF PutProcessed
  <2>2. OwnerHas = Holds(Output(job)) /\ OwnerHas' = 0
    BY <2>1 DEF OwnerHas, Holds
  <2>3. Appended(encodeQ, job, encodeQ') \/ (stop' = TRUE /\ encodeQ' = encodeQ)
    BY <1>8, <1>t, PutProcessedDoes
  <2>4. CASE Appended(encodeQ, job, encodeQ')
    <3>1. Outputs(encodeQ') = Outputs(encodeQ) + OwnerHas
      BY <2>2, <2>4 DEF Appended
    <3>2. Alive(0, Outputs(encodeQ) + OwnerHas, OutsIn(pending), EncoderHas) = Living
      BY <1>i, <1>s DEF Alive
    <3>3. Living' = Living
      BY <1>e, <1>z, <2>1, <2>2, <3>1, <3>2
    <3> QED BY <1>k, <2>1, <3>3
  <2>5. CASE stop' = TRUE /\ encodeQ' = encodeQ
    <3>1. Alive(0, Outputs(encodeQ), OutsIn(pending), EncoderHas) <= Living
      BY <1>i, <1>s DEF Alive
    <3>2. Alive(0, Outputs(encodeQ), OutsIn(pending), EncoderHas) \in Nat
      BY <1>i DEF Alive
    <3>3. Living' = Alive(0, Outputs(encodeQ), OutsIn(pending), EncoderHas)
      BY <1>e, <1>z, <2>1, <2>2, <2>5
    <3> QED BY <1>i, <1>m, <1>w, <2>1, <2>5, <3>1, <3>2, <3>3 DEF Matched
  <2> QED BY <2>3, <2>4, <2>5
<1>9. CASE MarkProcessed
  <2>1. UNCHANGED <<pause, pending, epc, hand>> /\ OwnerHas' = 0 /\ OwnerHas = 0
    BY <1>9 DEF MarkProcessed, OwnerHas, Holds
  <2>2. Appended(encodeQ, Mark, encodeQ') \/ encodeQ' = encodeQ
    BY <1>9, <1>t, MarkProcessedDoes
  <2>3. ASSUME NEW r, Appended(encodeQ, Mark, r) PROVE Outputs(r) = Outputs(encodeQ)
    <3>1. Outputs(r) = Outputs(encodeQ) + Holds(Output(Mark))
      BY <2>3 DEF Appended
    <3> QED BY <1>i, <3>1, Marks DEF Holds
  <2>4. Outputs(encodeQ') = Outputs(encodeQ)
    BY <2>2, <2>3
  <2>5. Living' = Living
    BY <1>e, <1>s, <1>z, <2>1, <2>4
  <2> QED BY <1>k, <2>1, <2>5
<1>10. CASE Fetch
  <2>1. UNCHANGED <<pause, ppc, job>> /\ EncoderHas' = EncoderHas
    BY <1>10 DEF Fetch, EncoderHas, Holds
  <2>2. \/ Shifted(encodeQ, encodeQ') /\ encodeQ[1] = Mark /\ pending' = pending
        \/ Shifted(encodeQ, encodeQ') /\ encodeQ[1] # Mark /\ pending' = pending \cup {encodeQ[1]}
        \/ encodeQ' = encodeQ /\ pending' = pending
    BY <1>10, <1>t, FetchDoes
  <2>3. CASE Shifted(encodeQ, encodeQ') /\ encodeQ[1] # Mark /\ pending' = pending \cup {encodeQ[1]}
    <3>1. Outputs(encodeQ) = Holds(Output(encodeQ[1])) + Outputs(encodeQ') /\ encodeQ' \in Seq(Line)
      BY <2>3 DEF Shifted
    <3>2. 1 \in 1 .. Len(encodeQ)
      BY <2>3 DEF Shifted
    <3>3. encodeQ[1] \in Packet /\ encodeQ[1] \notin pending
      <4>1. encodeQ[1] \in Packet /\ encodeQ[1].frame \in Nat
        BY <1>t, <2>3, <3>2, BehindTypes
      <4>2. \A p \in pending : p.frame < encodeQ[1].frame
        BY <1>t, <2>3, <3>2 DEF EncodeLine, BufferLine
      <4> QED BY <4>1, <4>2
    <3>4. OutsIn(pending') = OutsIn(pending) + Holds(Output(encodeQ[1]))
      BY <1>t, <2>3, <3>3, OutsMove DEF Types
    <3>5. Holds(Output(encodeQ[1])) \in Nat /\ Outputs(encodeQ') \in Nat
      BY <3>1, CountRules DEF Holds
    <3>6. Alive(OwnerHas, Outputs(encodeQ'), OutsIn(pending) + Holds(Output(encodeQ[1])), EncoderHas) = Living
      BY <1>i, <1>s, <3>1, <3>5 DEF Alive
    <3>7. Living' = Living
      BY <1>o, <1>z, <2>1, <3>4, <3>6
    <3> QED BY <1>k, <2>1, <3>7
  <2>4. CASE Shifted(encodeQ, encodeQ') /\ encodeQ[1] = Mark /\ pending' = pending
    <3>1. Outputs(encodeQ) = Holds(Output(encodeQ[1])) + Outputs(encodeQ') /\ encodeQ' \in Seq(Line)
      BY <2>4 DEF Shifted
    <3>2. Holds(Output(encodeQ[1])) = 0 /\ Outputs(encodeQ') \in Nat
      BY <2>4, <3>1, Marks, CountRules DEF Holds
    <3>3. Outputs(encodeQ') = Outputs(encodeQ)
      BY <3>1, <3>2
    <3>4. Living' = Living
      BY <1>o, <1>s, <1>z, <2>1, <2>4, <3>3
    <3> QED BY <1>k, <2>1, <3>4
  <2>5. CASE encodeQ' = encodeQ /\ pending' = pending
    BY <1>o, <1>u, <2>1, <2>5
  <2> QED BY <2>2, <2>3, <2>4, <2>5
<1>11. CASE Order \/ Flush
  <2>1. UNCHANGED <<pause, encodeQ, ppc, job>> /\ EncoderHas = 0
    BY <1>11 DEF Order, Flush, EncoderHas, Holds
  <2>2. \/ pending' = pending /\ epc' \in {"get", "leave"}
        \/ hand' \in pending /\ pending' = pending \ {hand'} /\ epc' = "encode"
    BY <1>11, <1>t, DueChosen, FirstChosen
  <2>3. CASE pending' = pending /\ epc' \in {"get", "leave"}
    <3>1. EncoderHas' = 0
      BY <2>3 DEF EncoderHas, Holds
    <3> QED BY <1>o, <1>u, <2>1, <2>3, <3>1
  <2>4. CASE hand' \in pending /\ pending' = pending \ {hand'} /\ epc' = "encode"
    <3>1. PICK p \in pending : p = hand'
      BY <2>4
    <3>2. p \in Packet /\ Holds(Output(p)) \in Nat
      BY <1>t DEF Types, Holds
    <3>3. OutsIn(pending \ {p}) \in Nat /\ OutsIn(pending) = Holds(Output(p)) + OutsIn(pending \ {p})
      <4>1. pending \subseteq Packet /\ pending \ {p} \subseteq Packet
        BY <1>t DEF Types
      <4> QED BY <3>2, <4>1, OutsMove
    <3>4. Alive(OwnerHas, Outputs(encodeQ), OutsIn(pending \ {p}), Holds(Output(p))) = Living
      BY <1>i, <1>s, <2>1, <3>2, <3>3 DEF Alive
    <3>5. EncoderHas' = Holds(Output(p))
      BY <2>4, <3>1 DEF EncoderHas, Holds, Output
    <3>6. Living' = Living
      BY <1>o, <1>z, <2>1, <2>4, <3>1, <3>4, <3>5
    <3> QED BY <1>k, <2>1, <3>6
  <2> QED BY <2>2, <2>3, <2>4
<1>12. CASE Encode
  <2>1. UNCHANGED <<pause, encodeQ, pending, ppc, job, hand>> /\ epc = "encode"
    BY <1>12 DEF Encode
  <2>2. epc' = "clear" \/ (epc' = "leave" /\ stop' = TRUE)
    BY <1>12 DEF Encode
  <2>3. CASE epc' = "clear"
    <3>1. EncoderHas' = EncoderHas
      BY <2>1, <2>3 DEF EncoderHas
    <3> QED BY <1>o, <1>u, <2>1, <3>1
  <2>4. CASE epc' = "leave" /\ stop' = TRUE
    <3>1. EncoderHas' = 0
      BY <2>4 DEF EncoderHas, Holds
    <3>2. /\ Alive(OwnerHas, Outputs(encodeQ), OutsIn(pending), 0) <= Living
          /\ Alive(OwnerHas, Outputs(encodeQ), OutsIn(pending), 0) \in Nat
      BY <1>i, <1>s DEF Alive
    <3>3. Living' = Alive(OwnerHas, Outputs(encodeQ), OutsIn(pending), 0)
      BY <1>o, <1>z, <2>1, <3>1
    <3> QED BY <1>i, <1>m, <1>w, <2>1, <2>4, <3>2, <3>3 DEF Matched
  <2> QED BY <2>2, <2>3, <2>4
<1>13. CASE Clear
  <2>1. UNCHANGED <<encodeQ, pending, ppc, job, hand, processing, stop>> /\ epc = "clear" /\ epc' = "check"
    BY <1>13 DEF Clear
  <2>2. pause'.pending = IF pause.pending = 0 THEN 0 ELSE pause.pending - 1
    BY <1>13, <1>t, PauseFields DEF Clear
  <2>3. EncoderHas' = 0 /\ EncoderHas = Holds(Output(hand))
    BY <2>1 DEF EncoderHas, Holds
  <2>4. PICK n \in Nat : n = Alive(OwnerHas, Outputs(encodeQ), OutsIn(pending), 0)
    <3>1. Alive(OwnerHas, Outputs(encodeQ), OutsIn(pending), 0) \in Nat
      BY <1>i DEF Alive
    <3> QED BY <3>1
  <2>5. Living = n + EncoderHas
    BY <1>i, <1>s, <2>4 DEF Alive
  <2>6. Living' = n
    BY <1>o, <1>z, <2>1, <2>3, <2>4
  <2>7. processing => EncoderHas = 1
    <3>1. epc \in EncoderSteps
      BY <2>1 DEF EncoderSteps
    <3>2. hand \in Packet /\ hand.kind # "decoded"
      BY <1>t, <3>1 DEF EncodeLine, HandLine, Handled, Types
    <3>3. processing => hand.kind # "refused"
      BY <1>t, <3>1 DEF Unrefused
    <3>4. processing => Output(hand)
      BY <3>2, <3>3 DEF Packet, Kinds, Output
    <3> QED BY <2>3, <3>4 DEF Holds
  <2>8. PICK k \in Nat : k = (IF pause.pending = 0 THEN 0 ELSE pause.pending - 1)
    <3>1. (IF pause.pending = 0 THEN 0 ELSE pause.pending - 1) \in Nat
      BY <1>i
    <3> QED BY <3>1
  <2>9. (processing => n <= k) /\ (~stop => k <= n)
    BY <1>i, <1>m, <2>5, <2>7, <2>8
  <2> QED BY <2>1, <2>2, <2>6, <2>8, <2>9 DEF Matched
<1>14. CASE Check \/ Unpark \/ Retire
  <2>1. UNCHANGED <<pause, encodeQ, pending, ppc, job>>
    BY <1>14 DEF Check, Unpark, Retire
  <2>2. EncoderHas' = EncoderHas
    BY <1>14 DEF Check, Unpark, Retire, EncoderHas, Holds
  <2> QED BY <1>o, <1>u, <2>1, <2>2
<1>15. CASE LeaveEncoder
  <2>1. UNCHANGED <<pause, encodeQ, ppc, job, stop>> /\ EncoderHas' = EncoderHas /\ pending' = {}
    BY <1>15 DEF LeaveEncoder, EncoderHas, Holds
  <2>2. OutsIn({}) = 0
    BY FS_EmptySet DEF OutsIn
  <2>3. ~stop => pending = {}
    BY <1>15, <1>t DEF Phases, LeaveEncoder
  <2>4. /\ Alive(OwnerHas, Outputs(encodeQ), 0, EncoderHas) <= Living
        /\ Alive(OwnerHas, Outputs(encodeQ), 0, EncoderHas) \in Nat
        /\ ~stop => Alive(OwnerHas, Outputs(encodeQ), 0, EncoderHas) = Living
    BY <1>i, <1>s, <2>2, <2>3 DEF Alive
  <2>5. Living' = Alive(OwnerHas, Outputs(encodeQ), 0, EncoderHas)
    BY <1>o, <1>z, <2>1, <2>2
  <2> QED BY <1>i, <1>m, <1>w, <2>1, <2>4, <2>5 DEF Matched
<1>16. CASE Finish
  <2>1. UNCHANGED <<pause, pending, ppc, job, epc, hand>> /\ stop' = TRUE /\ encodeQ' = <<>>
    BY <1>16 DEF Finish
  <2>2. /\ Alive(OwnerHas, 0, OutsIn(pending), EncoderHas) <= Living
        /\ Alive(OwnerHas, 0, OutsIn(pending), EncoderHas) \in Nat
    BY <1>i, <1>s DEF Alive
  <2>3. Outputs(encodeQ') = 0
    BY <2>1, EmptyCounts
  <2>4. Living' = Alive(OwnerHas, 0, OutsIn(pending), EncoderHas)
    BY <1>e, <1>o, <1>z, <2>1, <2>3
  <2> QED BY <1>i, <1>m, <1>w, <2>1, <2>2, <2>4 DEF Matched
<1>17. CASE Call \/ StopProcessing \/ UNCHANGED vars
  <2>1. UNCHANGED <<encodeQ, pending, ppc, job, epc, hand>>
    BY <1>17 DEF Call, StopProcessing, vars
  <2>2. pause'.pending = pause.pending
    BY <1>17, <1>t, PauseFields DEF Call, StopProcessing, vars
  <2> QED BY <1>e, <1>o, <1>u, <2>1, <2>2
<1> QED
  BY <1>1, <1>2, <1>3, <1>4, <1>5, <1>6, <1>7, <1>8, <1>9, <1>10, <1>11, <1>12, <1>13, <1>14, <1>15,
     <1>16, <1>17 DEF Next, Owner, Encoder

\* A reservation is made for a frame that was ahead of it; a new frame needs a lease that is free.
LEMMA AheadStep == ASSUME Inv, [Next]_vars PROVE (pause.pending + Ahead <= Leases)'
<1> USE DEF decoderVars, ownerVars, encoderVars, callVars
<1>t. Types /\ DecodeLine /\ pause \in PauseRec
  BY DEF Inv, Types
<1>i. /\ pause.pending \in Nat /\ Waiting \in {0, 1} /\ InDecoder \in {0, 1} /\ PacketsIn(decodeQ) \in Nat
      /\ Leases \in Nat
  BY <1>t, QueueTypes, Sizes DEF PauseRec, Waiting, InDecoder, Holds
<1>s. Fits(pause.pending, Waiting, PacketsIn(decodeQ), InDecoder)
  BY DEF Inv, ReserveInv, Ahead, Fits
<1>z. ASSUME Fits(pause'.pending, Waiting', PacketsIn(decodeQ'), InDecoder')
      PROVE  (pause.pending + Ahead <= Leases)'
  BY <1>z DEF Ahead, Fits
<1>p. ppc' = ppc => Waiting' = Waiting
  BY DEF Waiting
<1>d. dpc' = dpc => InDecoder' = InDecoder
  BY DEF InDecoder
<1>w. Fits(pause.pending, 0, PacketsIn(decodeQ), InDecoder) /\ Fits(pause.pending, Waiting, PacketsIn(decodeQ), 0)
  BY <1>i, <1>s DEF Fits
<1>1. CASE DecoderPoll
  <2>1. UNCHANGED <<pause, decodeQ, ppc>> /\ InDecoder' = InDecoder
    BY <1>1 DEF DecoderPoll, InDecoder
  <2> QED BY <1>p, <1>s, <1>z, <2>1
<1>2. CASE AcquireLease
  <2>1. UNCHANGED <<pause, decodeQ, ppc>>
    BY <1>2 DEF AcquireLease
  <2>2. (~stop /\ stop' = stop) \/ dpc' = "mark"
    BY <1>2 DEF AcquireLease
  <2>3. CASE ~stop /\ stop' = stop
    <3>1. Types' /\ LeasesExact' /\ Matched'
      BY TypesStep, LeasesStep, MatchedStep
    <3>2. pause'.pending <= Living'
      BY <2>3, <3>1 DEF Matched
    <3>3. (Types /\ LeasesExact /\ pause.pending <= Living => pause.pending + Ahead <= Leases)'
      BY AheadFits, PTL
    <3> QED BY <3>1, <3>2, <3>3
  <2>4. CASE dpc' = "mark"
    <3>1. InDecoder' = 0
      BY <2>4 DEF InDecoder
    <3> QED BY <1>p, <1>w, <1>z, <2>1, <3>1
  <2> QED BY <2>2, <2>3, <2>4
<1>3. CASE Decode
  <2>1. UNCHANGED <<pause, decodeQ, ppc>> /\ dpc = "decode" /\ dpc' \in {"put", "mark"}
    BY <1>3 DEF Decode
  <2>2. InDecoder' = InDecoder \/ InDecoder' = 0
    BY <2>1 DEF InDecoder
  <2> QED BY <1>p, <1>s, <1>w, <1>z, <2>1, <2>2
<1>4. CASE PutDecoded
  <2>1. UNCHANGED <<pause, ppc>> /\ dpc = "put" /\ dpc' \in {"poll", "mark"}
    BY <1>4 DEF PutDecoded
  <2>2. InDecoder = 1 /\ InDecoder' = 0
    BY <2>1 DEF InDecoder
  <2>3. Appended(decodeQ, [frame |-> index, kind |-> "decoded"], decodeQ') \/ decodeQ' = decodeQ
    BY <1>4, <1>t, PutDecodedDoes DEF Inv
  <2>4. CASE Appended(decodeQ, [frame |-> index, kind |-> "decoded"], decodeQ')
    <3>1. [frame |-> index, kind |-> "decoded"] # Mark
      BY <1>4, <1>t, PutDecodedDoes, Marks DEF Inv
    <3>2. PacketsIn(decodeQ') = PacketsIn(decodeQ) + 1
      BY <2>4, <3>1 DEF Appended, Holds
    <3>3. Fits(pause.pending, Waiting, PacketsIn(decodeQ) + 1, 0)
      BY <1>i, <1>s, <2>2 DEF Fits
    <3> QED BY <1>p, <1>z, <2>1, <2>2, <3>2, <3>3
  <2>5. CASE decodeQ' = decodeQ
    BY <1>p, <1>w, <1>z, <2>1, <2>2, <2>5
  <2> QED BY <2>3, <2>4, <2>5
<1>5. CASE MarkDecoded
  <2>1. UNCHANGED <<pause, ppc>> /\ InDecoder' = InDecoder
    BY <1>5 DEF MarkDecoded, InDecoder
  <2>2. Appended(decodeQ, Mark, decodeQ') \/ decodeQ' = decodeQ
    BY <1>5, <1>t, MarkDecodedDoes
  <2>3. ASSUME NEW r, Appended(decodeQ, Mark, r) PROVE PacketsIn(r) = PacketsIn(decodeQ)
    BY <1>i, <2>3 DEF Appended, Holds
  <2>4. PacketsIn(decodeQ') = PacketsIn(decodeQ)
    BY <2>2, <2>3
  <2> QED BY <1>p, <1>s, <1>z, <2>1, <2>4
<1>6. CASE Take
  <2>1. UNCHANGED <<pause, dpc>> /\ ppc = "get"
    BY <1>6 DEF Take
  <2>2. \/ Shifted(decodeQ, decodeQ') /\ decodeQ[1] = Mark /\ ppc' = "mark"
        \/ Shifted(decodeQ, decodeQ') /\ decodeQ[1] # Mark /\ ppc' = "begin"
        \/ decodeQ' = decodeQ /\ ppc' = "mark"
    BY <1>6, <1>t, TakeDoes
  <2>3. CASE Shifted(decodeQ, decodeQ') /\ decodeQ[1] # Mark /\ ppc' = "begin"
    <3>1. PacketsIn(decodeQ) = 1 + PacketsIn(decodeQ') /\ decodeQ' \in Seq(Line)
      BY <2>3 DEF Shifted, Holds
    <3>2. PacketsIn(decodeQ') \in Nat
      BY <3>1, CountRules
    <3>3. Waiting' = 1
      BY <2>3 DEF Waiting, Holds
    <3>4. Fits(pause.pending, 1, PacketsIn(decodeQ'), InDecoder)
      BY <1>i, <1>w, <3>1, <3>2 DEF Fits
    <3> QED BY <1>d, <1>z, <2>1, <3>3, <3>4
  <2>4. CASE Shifted(decodeQ, decodeQ') /\ decodeQ[1] = Mark /\ ppc' = "mark"
    <3>1. PacketsIn(decodeQ) = 0 + PacketsIn(decodeQ') /\ decodeQ' \in Seq(Line)
      BY <2>4 DEF Shifted, Holds
    <3>2. PacketsIn(decodeQ') = PacketsIn(decodeQ)
      BY <3>1, CountRules
    <3>3. Waiting' = 0
      BY <2>4 DEF Waiting, Holds
    <3> QED BY <1>d, <1>w, <1>z, <2>1, <3>2, <3>3
  <2>5. CASE decodeQ' = decodeQ /\ ppc' = "mark"
    <3>1. Waiting' = 0
      BY <2>5 DEF Waiting, Holds
    <3> QED BY <1>d, <1>w, <1>z, <2>1, <2>5, <3>1
  <2> QED BY <2>2, <2>3, <2>4, <2>5
<1>7. CASE Begin \/ LeaveScope
  <2>1. UNCHANGED <<decodeQ, dpc>> /\ pause'.pending = pause.pending
    BY <1>7, <1>t, PauseFields DEF Begin, LeaveScope
  <2>2. Waiting' = Waiting \/ Waiting' = 0
    BY <1>7 DEF Begin, LeaveScope, Waiting, Holds
  <2> QED BY <1>d, <1>s, <1>w, <1>z, <2>1, <2>2
<1>8. CASE Work \/ Fallback
  <2>1. UNCHANGED <<decodeQ, dpc>> /\ Waiting = 1
    BY <1>8 DEF Work, Fallback, Waiting, Holds
  <2>2. \/ pause' = Reserved(pause) /\ ppc' \in {"leave", "put"}
        \/ pause' = pause /\ ppc' \in {"lost", "failed"}
    BY <1>8 DEF Work, Fallback
  <2>3. CASE pause' = Reserved(pause) /\ ppc' \in {"leave", "put"}
    <3>1. pause'.pending = pause.pending + 1
      BY <1>t, <2>3, PauseFields
    <3>2. Waiting' = 0
      BY <2>3 DEF Waiting, Holds
    <3>3. Fits(pause.pending + 1, 0, PacketsIn(decodeQ), InDecoder)
      BY <1>i, <1>s, <2>1 DEF Fits
    <3> QED BY <1>d, <1>z, <2>1, <3>1, <3>2, <3>3
  <2>4. CASE pause' = pause /\ ppc' \in {"lost", "failed"}
    <3>1. Waiting' = Waiting \/ Waiting' = 0
      BY <2>1, <2>4 DEF Waiting, Holds
    <3> QED BY <1>d, <1>s, <1>w, <1>z, <2>1, <2>4, <3>1
  <2> QED BY <2>2, <2>3, <2>4
<1>9. CASE Drop \/ PutProcessed \/ MarkProcessed
  <2>1. UNCHANGED <<pause, decodeQ, dpc>>
    BY <1>9 DEF Drop, PutProcessed, MarkProcessed
  <2>2. Waiting' = 0
    BY <1>9 DEF Drop, PutProcessed, MarkProcessed, Waiting, Holds
  <2> QED BY <1>d, <1>w, <1>z, <2>1, <2>2
<1>10. CASE Clear
  <2>1. UNCHANGED <<decodeQ, dpc, ppc>>
    BY <1>10 DEF Clear
  <2>2. pause'.pending = IF pause.pending = 0 THEN 0 ELSE pause.pending - 1
    BY <1>10, <1>t, PauseFields DEF Clear
  <2>3. Fits(IF pause.pending = 0 THEN 0 ELSE pause.pending - 1, Waiting, PacketsIn(decodeQ), InDecoder)
    BY <1>i, <1>s DEF Fits
  <2> QED BY <1>d, <1>p, <1>z, <2>1, <2>2, <2>3
<1>11. CASE Finish
  <2>1. UNCHANGED <<pause, dpc, ppc>>
    BY <1>11 DEF Finish
  <2>2. PacketsIn(decodeQ') = 0
    BY <1>11, EmptyCounts DEF Finish
  <2>3. Fits(pause.pending, Waiting, 0, InDecoder)
    BY <1>i, <1>s DEF Fits
  <2> QED BY <1>d, <1>p, <1>z, <2>1, <2>2, <2>3
<1>12. CASE Fetch \/ Order \/ Flush \/ Encode \/ Check \/ Unpark \/ Retire \/ LeaveEncoder
  <2>1. UNCHANGED <<pause, decodeQ, dpc, ppc>>
    BY <1>12 DEF Fetch, Order, Flush, Encode, Check, Unpark, Retire, LeaveEncoder
  <2> QED BY <1>d, <1>p, <1>s, <1>z, <2>1
<1>13. CASE Call \/ StopProcessing \/ UNCHANGED vars
  <2>1. UNCHANGED <<decodeQ, dpc, ppc>>
    BY <1>13 DEF Call, StopProcessing, vars
  <2>2. pause'.pending = pause.pending
    BY <1>13, <1>t, PauseFields DEF Call, StopProcessing, vars
  <2> QED BY <1>d, <1>p, <1>s, <1>z, <2>1, <2>2
<1> QED
  BY <1>1, <1>2, <1>3, <1>4, <1>5, <1>6, <1>7, <1>8, <1>9, <1>10, <1>11, <1>12, <1>13
     DEF Next, Decoder, Owner, Encoder

LEMMA ReserveStep == ASSUME Inv, [Next]_vars PROVE ReserveInv'
<1> USE DEF decoderVars, ownerVars, encoderVars, callVars
<1>t. /\ Types /\ Phases /\ CleanInv /\ Matched /\ pause \in PauseRec
      /\ processing /\ ~errors /\ main # "running" => pause.pending = 0
  BY DEF Inv, Types, ReserveInv
<1>1. ASSUME processing', ~errors', main' # "running" PROVE pause'.pending = 0
  <2>1. CASE Finish
    <3>1. pause' = pause /\ Clean /\ epc = "done" /\ ppc = "done"
      BY <1>1, <2>1 DEF Finish, Clean
    <3>2. ~stop /\ flushing /\ pending = {} /\ encodeQ = <<>>
      BY <1>t, <3>1 DEF CleanInv, Phases
    <3>3. Outputs(encodeQ) = 0 /\ OutsIn(pending) = 0 /\ OwnerHas = 0 /\ EncoderHas = 0
      BY <3>1, <3>2, EmptyCounts, FS_EmptySet DEF OutsIn, OwnerHas, EncoderHas, Holds
    <3>4. Living = 0
      BY <3>3 DEF Living
    <3>5. pause.pending <= 0 /\ pause.pending \in Nat
      BY <1>t, <3>2, <3>4 DEF Matched, PauseRec
    <3> QED BY <3>1, <3>5
  <2>2. CASE ~Finish
    <3>1. main # "running"
      BY <1>1, <2>2 DEF Next, Decoder, DecoderPoll, AcquireLease, Decode, PutDecoded, MarkDecoded,
           Owner, Take, Begin, Work, LeaveScope, Fallback, Drop, PutProcessed, MarkProcessed,
           Encoder, Fetch, Order, Flush, Encode, Clear, Check, Unpark, Retire, LeaveEncoder,
           Call, StopProcessing, vars
    <3>2. dpc = "done" /\ ppc = "done" /\ epc = "done"
      BY <1>t, <3>1 DEF Phases
    <3>3. UNCHANGED <<pause, errors>> /\ processing
      BY <1>1, <2>2, <3>1, <3>2 DEF Next, Decoder, DecoderPoll, AcquireLease, Decode, PutDecoded,
           MarkDecoded, Owner, Take, Begin, Work, LeaveScope, Fallback, Drop, PutProcessed,
           MarkProcessed, Encoder, Fetch, Order, Flush, Encode, Clear, Check, Unpark, Retire,
           LeaveEncoder, Call, StopProcessing, vars
    <3> QED BY <1>1, <1>t, <3>1, <3>3
  <2> QED BY <2>1, <2>2
<1> QED BY <1>1, MatchedStep, AheadStep DEF ReserveInv

-----------------------------------------------------------------------------
(* The pause.                                                               *)

\* What PausedIsDrained promises of an acknowledged pause.
Drained ==
    /\ pause.active = 0 /\ ppc \notin {"work", "leave"}
    /\ ppc = "put" => job.kind = "original"
    /\ \A i \in 1 .. Len(encodeQ) : encodeQ[i].kind # "swapped"
    /\ \A p \in pending : p.kind # "swapped"

LEMMA DrainedIs == ASSUME Types PROVE PausedIsDrained <=> (pause.acked /\ processing => Drained)
<1>1. DOMAIN encodeQ = 1 .. Len(encodeQ)
  BY QueueTypes
<1> QED BY <1>1 DEF PausedIsDrained, Drained

\* With no model running and no output counted there is none.
LEMMA NothingLiving ==
    ASSUME Types, DecodeLine, Unrefused, Matched, ActiveInv, processing,
           pause.active = 0, pause.pending = 0
    PROVE  Drained
<1>1. /\ OwnerHas \in {0, 1} /\ EncoderHas \in {0, 1} /\ Outputs(encodeQ) \in Nat
      /\ OutsIn(pending) \in Nat /\ Living \in Nat
  BY LivingParts
<1>2. Living = 0
  BY <1>1 DEF Matched
<1>3. OwnerHas = 0 /\ Outputs(encodeQ) = 0 /\ OutsIn(pending) = 0
  BY <1>1, <1>2 DEF Living
<1>4. ppc \notin {"work", "leave"}
  BY DEF ActiveInv, Holds
<1>5. ppc # "put"
  <2> SUFFICES ASSUME ppc = "put" PROVE FALSE
    OBVIOUS
  <2>1. job.kind # "decoded" /\ job \in Packet
    BY DEF DecodeLine, JobLine, Types
  <2>2. InOwner = 1
    BY DEF InOwner
  <2>3. job.kind # "refused"
    BY <2>2 DEF Unrefused
  <2>4. Output(job)
    BY <2>1, <2>3 DEF Packet, Kinds, Output
  <2> QED BY <1>3, <2>4 DEF OwnerHas, Holds
<1>6. \A i \in 1 .. Len(encodeQ) : encodeQ[i].kind # "swapped"
  <2>1. \A i \in 1 .. Len(encodeQ) : ~Output(encodeQ[i])
    BY <1>3, QueueTypes, CountRules
  <2> QED BY <2>1 DEF Output
<1>7. ASSUME NEW p \in pending PROVE p.kind # "swapped"
  <2>1. p \in Packet /\ pending \subseteq Packet /\ pending \ {p} \subseteq Packet
    BY DEF Types
  <2>2. OutsIn(pending) = Holds(Output(p)) + OutsIn(pending \ {p}) /\ OutsIn(pending \ {p}) \in Nat
    BY <2>1, OutsMove
  <2>3. Holds(Output(p)) = 0
    BY <1>3, <2>2 DEF Holds
  <2> QED BY <2>3 DEF Holds, Output
<1> QED BY <1>4, <1>5, <1>6, <1>7 DEF Drained

LEMMA ActiveStep == ASSUME Inv, [Next]_vars PROVE ActiveInv'
<1> USE DEF decoderVars, ownerVars, encoderVars, callVars
<1>t. pause \in PauseRec /\ ActiveInv
  BY DEF Inv, Types, PauseInv
<1>1. CASE Begin
  <2>1. pause.active = 0
    BY <1>1, <1>t DEF Begin, ActiveInv, Holds
  <2>2. \/ ppc' = "work" /\ pause'.active = pause.active + 1
        \/ ppc' = "put" /\ pause' = pause
    BY <1>1, <1>t, PauseFields DEF Begin
  <2> QED BY <2>1, <2>2 DEF ActiveInv, Holds
<1>2. CASE LeaveScope
  <2>1. pause.active = 1
    BY <1>2, <1>t DEF LeaveScope, ActiveInv, Holds
  <2>2. pause'.active = pause.active - 1
    BY <1>2, <1>t, <2>1, PauseFields DEF LeaveScope
  <2>3. ppc' \in {"put", "fallback", "begin", "drop"}
    BY <1>2 DEF LeaveScope
  <2> QED BY <2>1, <2>2, <2>3 DEF ActiveInv, Holds
<1>3. CASE Work
  <2>1. ppc = "work" /\ ppc' \in {"leave", "lost", "failed"} /\ pause'.active = pause.active
    BY <1>3, <1>t, PauseFields DEF Work
  <2> QED BY <1>t, <2>1 DEF ActiveInv, Holds
<1>4. CASE Fallback
  <2>1. ppc = "fallback" /\ ppc' = "put" /\ pause'.active = pause.active
    BY <1>4, <1>t, PauseFields DEF Fallback
  <2> QED BY <1>t, <2>1 DEF ActiveInv, Holds
<1>5. CASE Take \/ Drop \/ PutProcessed \/ MarkProcessed
  <2>1. /\ pause' = pause /\ ppc \in {"get", "drop", "put", "mark"}
        /\ ppc' \in {"get", "begin", "mark", "done"}
    BY <1>5 DEF Take, Drop, PutProcessed, MarkProcessed
  <2> QED BY <1>t, <2>1 DEF ActiveInv, Holds
<1>6. CASE Decoder \/ Encoder \/ Finish \/ Call \/ StopProcessing \/ UNCHANGED vars
  <2>1. ppc' = ppc
    BY <1>6 DEF Decoder, DecoderPoll, AcquireLease, Decode, PutDecoded, MarkDecoded,
           Encoder, Fetch, Order, Flush, Encode, Clear, Check, Unpark, Retire, LeaveEncoder,
           Finish, Call, StopProcessing, vars
  <2>2. \/ pause' = pause \/ pause' = Released(pause) \/ pause' = Asked(pause) \/ pause' = Resumed(pause)
    BY <1>6 DEF Decoder, DecoderPoll, AcquireLease, Decode, PutDecoded, MarkDecoded,
           Encoder, Fetch, Order, Flush, Encode, Clear, Check, Unpark, Retire, LeaveEncoder,
           Finish, Call, StopProcessing, vars
  <2>3. pause'.active = pause.active
    BY <1>t, <2>2, PauseFields
  <2> QED BY <1>t, <2>1, <2>3 DEF ActiveInv
<1> QED BY <1>1, <1>2, <1>3, <1>4, <1>5, <1>6 DEF Next, Owner

LEMMA AckStep ==
    ASSUME Inv, [Next]_vars
    PROVE  /\ pause'.acked => pause'.requested
           /\ pause'.acked => pause.acked \/ (pause'.active = 0 /\ pause'.pending = 0)
<1> USE DEF decoderVars, ownerVars, encoderVars, callVars
<1>t. pause \in PauseRec /\ (pause.acked => pause.requested)
  BY DEF Inv, Types, PauseInv
<1>1. \/ pause' = pause \/ pause' = Released(pause) \/ pause' = Asked(pause) \/ pause' = Resumed(pause)
      \/ pause' = Entered(pause) \/ pause' = Left(pause) \/ pause' = Reserved(pause)
  BY DEF Next, Decoder, DecoderPoll, AcquireLease, Decode, PutDecoded, MarkDecoded,
         Owner, Take, Begin, Work, LeaveScope, Fallback, Drop, PutProcessed, MarkProcessed,
         Encoder, Fetch, Order, Flush, Encode, Clear, Check, Unpark, Retire, LeaveEncoder,
         Finish, Call, StopProcessing, vars
<1>2. CASE pause' = pause \/ pause' = Entered(pause) \/ pause' = Reserved(pause)
  BY <1>2, <1>t, PauseFields
<1>3. CASE pause' = Asked(pause) \/ pause' = Resumed(pause)
  BY <1>3, <1>t, PauseFields
<1>4. CASE pause' = Left(pause)
  BY <1>4, <1>t, PauseFields
<1>5. CASE pause' = Released(pause)
  BY <1>5, <1>t, PauseFields
<1> QED BY <1>1, <1>2, <1>3, <1>4, <1>5


\* Nothing that a pause has drained comes back before it is resumed.
LEMMA PauseStep == ASSUME Inv, [Next]_vars PROVE PauseInv'
<1> USE DEF decoderVars, ownerVars, encoderVars, callVars
<1>1. Types' /\ DecodeLine' /\ Unrefused' /\ Matched' /\ ActiveInv'
  BY TypesStep, DecodeLineStep, UnrefusedStep, MatchedStep, ActiveStep
<1>2. (Types => (PausedIsDrained <=> (pause.acked /\ processing => Drained)))'
  BY DrainedIs, PTL
<1>3. SUFFICES ASSUME pause'.acked, processing' PROVE Drained'
  BY <1>1, <1>2, AckStep DEF PauseInv
<1>4. CASE ~pause.acked
  <2>1. pause'.active = 0 /\ pause'.pending = 0
    BY <1>3, <1>4, AckStep
  <2>2. (Types /\ DecodeLine /\ Unrefused /\ Matched /\ ActiveInv /\ processing
             /\ pause.active = 0 /\ pause.pending = 0 => Drained)'
    BY NothingLiving, PTL
  <2> QED BY <1>1, <1>3, <2>1, <2>2
<1>5. CASE pause.acked
  <2>p. processing
    BY <1>3 DEF Next, Decoder, DecoderPoll, AcquireLease, Decode, PutDecoded, MarkDecoded,
         Owner, Take, Begin, Work, LeaveScope, Fallback, Drop, PutProcessed, MarkProcessed,
         Encoder, Fetch, Order, Flush, Encode, Clear, Check, Unpark, Retire, LeaveEncoder,
         Finish, Call, StopProcessing, vars
  <2>t. /\ Types /\ Held
        /\ pause.active = 0 /\ ppc \notin {"work", "leave", "failed", "lost"}
        /\ ppc = "put" => job.kind = "original"
        /\ \A i \in 1 .. Len(encodeQ) : encodeQ[i].kind # "swapped"
        /\ \A p \in pending : p.kind # "swapped"
    <3>1. Types /\ Held /\ Drained /\ ActiveInv
      BY <1>5, <2>p, DrainedIs DEF Inv, PauseInv, Held
    <3> QED BY <3>1 DEF Drained, ActiveInv, Holds
  <2>s. ASSUME ppc' \notin {"work", "leave"}, ppc' = "put" => job'.kind = "original",
               \A i \in 1 .. Len(encodeQ') : encodeQ'[i].kind # "swapped",
               \A p \in pending' : p.kind # "swapped",
               ppc' \notin {"failed", "lost"}
        PROVE  Drained'
    <3>1. pause'.active = 0
      BY <1>1, <2>s DEF ActiveInv, Holds
    <3> QED BY <2>s, <3>1 DEF Drained
  <2>1. CASE Decoder \/ Call \/ StopProcessing \/ UNCHANGED vars
    <3>1. UNCHANGED <<ppc, job, encodeQ, pending>>
      BY <2>1 DEF Decoder, DecoderPoll, AcquireLease, Decode, PutDecoded, MarkDecoded, Call,
                  StopProcessing, vars
    <3> QED BY <2>s, <2>t, <3>1
  <2>2. CASE Take
    <3>1. UNCHANGED <<encodeQ, pending>> /\ ppc' \in {"begin", "mark"}
      BY <2>2 DEF Take
    <3> QED BY <2>s, <2>t, <3>1
  <2>3. CASE Begin \/ Work \/ LeaveScope
    BY <2>3, <2>t DEF Begin, Work, LeaveScope
  <2>4. CASE Fallback
    <3>1. UNCHANGED <<encodeQ, pending>> /\ ppc' = "put" /\ job' = [job EXCEPT !.kind = "original"]
      BY <2>4 DEF Fallback
    <3>2. job'.kind = "original"
      BY <2>t, <3>1 DEF Types, Packet
    <3> QED BY <2>s, <2>t, <3>1, <3>2
  <2>5. CASE Drop
    <3>1. UNCHANGED <<encodeQ, pending>> /\ ppc' = "get"
      BY <2>5 DEF Drop
    <3> QED BY <2>s, <2>t, <3>1
  <2>6. CASE PutProcessed \/ MarkProcessed
    <3>1. UNCHANGED pending /\ ppc' \in {"get", "mark", "done"} /\ ppc \in {"put", "mark"}
      BY <2>6 DEF PutProcessed, MarkProcessed
    <3>2. \/ Appended(encodeQ, job, encodeQ') /\ ppc = "put"
          \/ Appended(encodeQ, Mark, encodeQ')
          \/ encodeQ' = encodeQ
      BY <2>6, <2>t, PutProcessedDoes, MarkProcessedDoes
    <3>3. ASSUME NEW x, x.kind # "swapped", Appended(encodeQ, x, encodeQ')
          PROVE  \A i \in 1 .. Len(encodeQ') : encodeQ'[i].kind # "swapped"
      <4>1. \A i \in 1 .. Len(encodeQ') : \/ i \in 1 .. Len(encodeQ) /\ encodeQ'[i] = encodeQ[i]
                                          \/ encodeQ'[i] = x
        BY <3>3 DEF Appended
      <4> QED BY <2>t, <3>3, <4>1
    <3>4. Mark.kind # "swapped" /\ (ppc = "put" => job.kind # "swapped")
      BY <2>t DEF Mark
    <3>5. \A i \in 1 .. Len(encodeQ') : encodeQ'[i].kind # "swapped"
      BY <2>t, <3>2, <3>3, <3>4
    <3> QED BY <2>s, <2>t, <3>1, <3>5
  <2>o. ASSUME Encoder \/ Finish PROVE ppc' = ppc /\ job' = job
    BY <2>o DEF Encoder, Fetch, Order, Flush, Encode, Clear, Check, Unpark, Retire, LeaveEncoder, Finish
  <2>7. CASE Fetch
    <3>1. \/ Shifted(encodeQ, encodeQ') /\ (pending' = pending \/ pending' = pending \cup {encodeQ[1]})
          \/ encodeQ' = encodeQ /\ pending' = pending
      BY <2>7, <2>t, FetchDoes
    <3>2. CASE Shifted(encodeQ, encodeQ') /\ (pending' = pending \/ pending' = pending \cup {encodeQ[1]})
      <4>1. /\ 1 \in 1 .. Len(encodeQ)
            /\ \A i \in 1 .. Len(encodeQ') : i + 1 \in 1 .. Len(encodeQ) /\ encodeQ'[i] = encodeQ[i + 1]
        BY <3>2 DEF Shifted
      <4>2. \A i \in 1 .. Len(encodeQ') : encodeQ'[i].kind # "swapped"
        BY <2>t, <4>1
      <4>3. \A p \in pending' : p.kind # "swapped"
        BY <2>t, <3>2, <4>1
      <4> QED BY <2>7, <2>o, <2>s, <2>t, <4>2, <4>3 DEF Encoder
    <3>3. CASE encodeQ' = encodeQ /\ pending' = pending
      BY <2>7, <2>o, <2>s, <2>t, <3>3 DEF Encoder
    <3> QED BY <3>1, <3>2, <3>3
  <2>8. CASE Order \/ Flush
    <3>1. UNCHANGED encodeQ
      BY <2>8 DEF Order, Flush
    <3>2. pending' \subseteq pending
      BY <2>8, <2>t, DueChosen, FirstChosen DEF Inv
    <3> QED BY <2>8, <2>o, <2>s, <2>t, <3>1, <3>2 DEF Encoder
  <2>9. CASE Encode \/ Clear \/ Check \/ Unpark \/ Retire \/ LeaveEncoder \/ Finish
    <3>1. /\ encodeQ' = encodeQ \/ Len(encodeQ') = 0
          /\ pending' = pending \/ pending' = {}
      BY <2>9 DEF Encode, Clear, Check, Unpark, Retire, LeaveEncoder, Finish
    <3> QED BY <2>9, <2>o, <2>s, <2>t, <3>1 DEF Encoder
  <2> QED BY <2>1, <2>2, <2>3, <2>4, <2>5, <2>6, <2>7, <2>8, <2>9 DEF Next, Owner, Encoder
<1> QED BY <1>4, <1>5

-----------------------------------------------------------------------------
(* The theorems.                                                            *)

LEMMA InvStep == ASSUME Inv, [Next]_vars PROVE Inv'
BY TypesStep, PhasesStep, DecodeLineStep, EncodeLineStep, DueStep, CompleteAheadStep, CompleteHeldStep,
   GaplessStep, CleanStep, UnrefusedStep, WholeStep, LeasesStep, ReserveStep, PauseStep
   DEF Inv, Complete

\* The inductive invariant: the frames stand in line through both queues, the owner, the buffer
\* and the encoder, every one of them with a lease and every output with a reservation.
THEOREM Invariant == Spec => []Inv
<1>1. Inv /\ [Next]_vars => Inv'
  BY InvStep
<1> QED BY InitInv, <1>1, PTL DEF Spec


LEMMA TypeOKHolds == ASSUME Inv PROVE TypeOK
<1>1. Types /\ ActiveInv /\ pause.pending + Ahead <= Leases
  BY DEF Inv, ReserveInv, PauseInv
<1>2. pause.active \in 0 .. 1
  BY <1>1 DEF ActiveInv, Holds
<1>3. Waiting \in Nat /\ PacketsIn(decodeQ) \in Nat /\ InDecoder \in Nat
  BY <1>1, QueueTypes DEF Waiting, InDecoder, Holds
<1>4. pause.pending \in 0 .. Leases
  BY <1>1, <1>3, Sizes DEF Ahead, Types, PauseRec
<1>5. pause \in [requested : BOOLEAN, acked : BOOLEAN, active : 0 .. 1, pending : 0 .. Leases]
  BY <1>1, <1>2, <1>4 DEF Types, PauseRec
<1> QED BY <1>1, <1>5 DEF TypeOK, Types

\* While nothing has been stopped or has failed, every frame behind the owner is an output.
LEMMA ReservationsHold == ASSUME Inv PROVE ReservationsExact
<1> SUFFICES ASSUME processing, ~errors
             PROVE  pause.pending = (IF ppc \in {"leave", "put"} THEN 1 ELSE 0) + Outputs(encodeQ)
                        + Cardinality(pending) + (IF epc \in {"encode", "clear"} THEN 1 ELSE 0)
  BY DEF ReservationsExact
<1>t. /\ Types /\ Phases /\ DecodeLine /\ EncodeLine /\ CleanInv /\ Unrefused /\ Matched /\ pause \in PauseRec
      /\ main # "running" => pause.pending = 0
  BY DEF Inv, ReserveInv, Types
<1>1. CASE main # "running"
  <2>1. ppc = "done" /\ epc = "done" /\ encodeQ = <<>> /\ pending = {} /\ pause.pending = 0
    BY <1>1, <1>t DEF Phases
  <2> QED BY <2>1, EmptyCounts, FS_EmptySet
<1>2. CASE main = "running"
  <2>1. ~stop
    BY <1>2, <1>t DEF CleanInv, Clean
  <2>2. pause.pending = Living
    <3>1. Living \in Nat /\ pause.pending \in Nat
      BY <1>t, LivingParts DEF PauseRec
    <3> QED BY <1>t, <2>1, <3>1 DEF Matched
  <2>3. OwnerHas = IF ppc \in {"leave", "put"} THEN 1 ELSE 0
    <3>1. ppc = "leave" => Output(job)
      BY <1>t DEF DecodeLine, JobLine, Output
    <3>2. ppc = "put" => job.kind # "decoded" /\ job.kind # "refused" /\ job \in Packet
      BY <1>t DEF DecodeLine, JobLine, Unrefused, InOwner, Types
    <3>3. ppc = "put" => Output(job)
      BY <3>2 DEF Packet, Kinds, Output
    <3> QED BY <3>1, <3>3 DEF OwnerHas, Holds
  <2>4. EncoderHas = IF epc \in {"encode", "clear"} THEN 1 ELSE 0
    <3>1. epc \in {"encode", "clear"} => epc \in EncoderSteps
      BY DEF EncoderSteps
    <3>2. epc \in {"encode", "clear"} => hand.kind # "decoded" /\ hand.kind # "refused" /\ hand \in Packet
      BY <1>t, <3>1 DEF EncodeLine, HandLine, Handled, Unrefused, Types
    <3>3. epc \in {"encode", "clear"} => Output(hand)
      BY <3>2 DEF Packet, Kinds, Output
    <3> QED BY <3>3 DEF EncoderHas, Holds
  <2>5. OutsIn(pending) = Cardinality(pending)
    <3>1. \A p \in pending : p \in Packet /\ p.kind # "decoded" /\ p.kind # "refused"
      BY <1>t DEF EncodeLine, BufferLine, Handled, Unrefused, Types
    <3>2. \A p \in pending : Output(p)
      BY <3>1 DEF Packet, Kinds, Output
    <3>3. {p \in pending : Output(p)} = pending
      BY <3>2
    <3> QED BY <3>3 DEF OutsIn
  <2> QED BY <2>2, <2>3, <2>4, <2>5 DEF Living
<1> QED BY <1>1, <1>2, <1>t DEF Types

\* The state is sound (PacketsAccounted): every variable has its type, free leases and frames alive
\* add up to the limit, the pause controller counts exactly the outputs on their way, and an
\* acknowledged pause is drained, whichever thread fails, drops a frame or is stopped.
THEOREM PacketsHold == Spec => []PacketsAccounted
<1>1. Inv => PacketsAccounted
  <2> SUFFICES ASSUME Inv PROVE PacketsAccounted
    OBVIOUS
  <2>1. LeasesExact /\ PausedIsDrained
    BY DEF Inv, PauseInv
  <2> QED BY <2>1, TypeOKHolds, ReservationsHold DEF PacketsAccounted
<1> QED BY Invariant, <1>1, PTL

LEMMA ClipEncoded == ASSUME Inv PROVE EncodesClip
<1>t. Types /\ EncodeLine /\ Gapless /\ WholeInv /\ Unrefused
  BY DEF Inv
<1>1. Len(encoded) \in Nat /\ DOMAIN encoded = 1 .. Len(encoded) /\ \A i \in 1 .. Len(encoded) : encoded[i] \in Packet
  BY <1>t, QueueTypes
<1>2. ASSUME NEW i \in DOMAIN encoded
      PROVE  LET previous == IF i = 1 THEN -1 ELSE encoded[i - 1].frame IN
             /\ previous < encoded[i].frame
             /\ \A f \in Frames : previous < f /\ f < encoded[i].frame => f \in Unproduced
  <2>1. i \in 1 .. Len(encoded) /\ encoded[i].frame \in Nat
    BY <1>1, <1>2, Marks
  <2>2. CASE i = 1
    <3>1. \A f \in Frames : f < encoded[i].frame => f \in Unproduced
      BY <1>t, <2>1, <2>2 DEF Gapless
    <3> QED BY <2>1, <2>2, <3>1
  <2>3. CASE i # 1
    <3>1. i > 1 /\ i - 1 \in 1 .. Len(encoded) /\ i - 1 < i
      BY <1>1, <2>1, <2>3
    <3>2. encoded[i - 1].frame < encoded[i].frame
      BY <1>t, <2>1, <3>1 DEF EncodeLine, WrittenLine
    <3>3. \A f \in Frames : encoded[i - 1].frame < f /\ f < encoded[i].frame => f \in Unproduced
      BY <1>t, <2>1, <3>1 DEF Gapless
    <3> QED BY <2>3, <3>2, <3>3
  <2> QED BY <2>2, <2>3
<1>3. ASSUME main = "returned", processing
      PROVE  /\ \A f \in Frames \ Unproduced : \E i \in DOMAIN encoded : encoded[i].frame = f
             /\ \A i \in DOMAIN encoded : encoded[i].kind # "refused"
  BY <1>t, <1>1, <1>3 DEF WholeInv, Unrefused
<1> QED BY <1>2, <1>3 DEF EncodesClip

\* Whatever fails or is stopped, what run() encodes is the clip in order without a frame missing
\* but those that yield nothing; a run that returns undisturbed has encoded all of it (EncodesClip).
THEOREM VideoIsTheClip == Spec => []EncodesClip
<1>1. Inv => EncodesClip
  BY ClipEncoded
<1> QED BY Invariant, <1>1, PTL

-----------------------------------------------------------------------------
(* The refinement of RenderedClip.                                          *)

\* One more packet for the encoder is one more frame of the video.
LEMMA VideoGrows ==
    ASSUME NEW e \in Seq(Packet), NEW p \in Packet
    PROVE  /\ FramesOf(Append(e, p)) = Append(FramesOf(e), p.frame)
           /\ RefusedOf(Append(e, p)) \in {RefusedOf(e), RefusedOf(e) \cup {p.frame}}
<1> DEFINE n == Len(e)
           d == Append(e, p)
<1>1. /\ n \in Nat /\ DOMAIN e = 1 .. n /\ DOMAIN d = 1 .. n + 1 /\ d[n + 1] = p
      /\ \A i \in 1 .. n : d[i] = e[i] /\ e[i] \in Packet
  OBVIOUS
<1>2. \A i \in 1 .. n + 1 : i = n + 1 \/ i \in 1 .. n
  BY <1>1
<1>3. n + 1 \in 1 .. n + 1 /\ \A i \in 1 .. n : i \in 1 .. n + 1
  BY <1>1
<1> HIDE DEF n, d
<1>4. FramesOf(d) = Append(FramesOf(e), p.frame)
  <2>1. FramesOf(e) = [i \in 1 .. n |-> e[i].frame] /\ FramesOf(d) = [i \in 1 .. n + 1 |-> d[i].frame]
    BY <1>1 DEF FramesOf
  <2>2. FramesOf(e) \in Seq(Frames) /\ Len(FramesOf(e)) = n
    BY <1>1, <2>1 DEF Packet
  <2>3. p.frame \in Frames
    BY DEF Packet
  <2>4. Append(FramesOf(e), p.frame) = [i \in 1 .. n + 1 |-> IF i = n + 1 THEN p.frame ELSE FramesOf(e)[i]]
    BY <1>1, <2>2, <2>3
  <2> QED BY <1>1, <1>2, <2>1, <2>4
<1>5. RefusedOf(d) \in {RefusedOf(e), RefusedOf(e) \cup {p.frame}}
  <2>1. \A f : f \in RefusedOf(e) <=> \E i \in 1 .. n : e[i].kind = "refused" /\ f = e[i].frame
    BY <1>1 DEF RefusedOf
  <2>2. \A f : f \in RefusedOf(d) <=> \E i \in 1 .. n + 1 : d[i].kind = "refused" /\ f = d[i].frame
    BY <1>1 DEF RefusedOf
  <2>3. \A f : f \in RefusedOf(d) <=> f \in RefusedOf(e) \/ (p.kind = "refused" /\ f = p.frame)
    BY <1>1, <1>2, <1>3, <2>1, <2>2
  <2>4. CASE p.kind = "refused"
    <3>1. RefusedOf(d) = RefusedOf(e) \cup {p.frame}
      BY <2>3, <2>4
    <3> QED BY <3>1
  <2>5. CASE p.kind # "refused"
    <3>1. RefusedOf(d) = RefusedOf(e)
      BY <2>3, <2>5
    <3> QED BY <3>1
  <2> QED BY <2>4, <2>5
<1> QED BY <1>4, <1>5 DEF d

LEMMA NewestIs ==
    ASSUME Types
    PROVE  Clip!Newest = IF Len(encoded) = 0 THEN -1 ELSE encoded[Len(encoded)].frame
<1>1. /\ Len(encoded) \in Nat /\ DOMAIN encoded = 1 .. Len(encoded) /\ encoded \in Seq(Packet)
      /\ \A i \in 1 .. Len(encoded) : encoded[i] \in Packet
  BY QueueTypes
<1>2. FramesOf(encoded) = [i \in 1 .. Len(encoded) |-> encoded[i].frame]
  BY <1>1 DEF FramesOf
<1>3. FramesOf(encoded) \in Seq(Frames) /\ Len(FramesOf(encoded)) = Len(encoded)
  BY <1>1, <1>2 DEF Packet
<1>4. FramesOf(encoded) = <<>> <=> Len(encoded) = 0
  BY <1>3, EmptySeq
<1>5. Len(encoded) # 0 => FramesOf(encoded)[Len(encoded)] = encoded[Len(encoded)].frame
  BY <1>1, <1>2
<1> QED BY <1>3, <1>4, <1>5 DEF Clip!Newest

\* The step that writes a packet shows its frame.
LEMMA EncodeShows ==
    ASSUME Inv, [Next]_vars, Encode, encoded' # encoded
    PROVE  Clip!Show(hand.frame) /\ hand.frame \in Frames
<1>t. Types /\ Inv' /\ main = "running" /\ main' = "running" /\ hand \in Packet /\ encoded \in Seq(Packet)
  <2>1. Types /\ epc = "encode"
    BY DEF Inv, Encode
  <2>2. main = "running"
    BY <2>1 DEF Inv, Phases, Types
  <2> QED BY <2>1, <2>2, InvStep DEF Encode, Types
<1>1. encoded' = Append(encoded, hand)
  BY DEF Encode
<1> DEFINE n == Len(encoded)
           e == Append(encoded, hand)
<1>2. n \in Nat /\ DOMAIN e = 1 .. n + 1 /\ e[n + 1] = hand /\ \A i \in 1 .. n : e[i] = encoded[i]
  BY <1>t
<1>3. \A i \in DOMAIN e :
           LET previous == IF i = 1 THEN -1 ELSE e[i - 1].frame IN
           /\ previous < e[i].frame
           /\ \A f \in Frames : previous < f /\ f < e[i].frame => f \in Unproduced
  <2>1. (Inv => EncodesClip)'
    BY ClipEncoded, PTL
  <2> QED BY <1>t, <1>1, <2>1 DEF EncodesClip
<1>4. Clip!Newest = IF n = 0 THEN -1 ELSE encoded[n].frame
  BY <1>t, NewestIs
<1> HIDE DEF e, n
<1>5. Clip!Newest = IF n + 1 = 1 THEN -1 ELSE e[(n + 1) - 1].frame
  <2>1. CASE n = 0
    BY <1>4, <2>1
  <2>2. CASE n # 0
    <3>1. n + 1 # 1 /\ (n + 1) - 1 = n /\ n \in 1 .. n
      BY <1>2, <2>2
    <3> QED BY <1>2, <1>4, <2>2, <3>1
  <2> QED BY <2>1, <2>2
<1>6. /\ Clip!Newest < hand.frame
      /\ \A f \in Frames : Clip!Newest < f /\ f < hand.frame => f \in Unproduced
  <2>1. n + 1 \in DOMAIN e
    BY <1>2
  <2> QED BY <1>2, <1>3, <1>5, <2>1
<1>7. Outcome = "running" /\ Outcome' = "running"
  BY <1>t DEF Outcome
<1>8. /\ FramesOf(encoded)' = Append(FramesOf(encoded), hand.frame)
      /\ RefusedOf(encoded)' \in {RefusedOf(encoded), RefusedOf(encoded) \cup {hand.frame}}
  <2>1. FramesOf(encoded)' = FramesOf(e) /\ RefusedOf(encoded)' = RefusedOf(e)
    BY <1>1 DEF e, FramesOf, RefusedOf
  <2>2. /\ FramesOf(e) = Append(FramesOf(encoded), hand.frame)
        /\ RefusedOf(e) \in {RefusedOf(encoded), RefusedOf(encoded) \cup {hand.frame}}
    BY <1>t, VideoGrows DEF e
  <2> QED BY <2>1, <2>2
<1>9. Frames = Clip!Frames /\ hand.frame \in Frames
  BY <1>t DEF Frames, Clip!Frames, Packet
<1> QED BY <1>6, <1>7, <1>8, <1>9 DEF Clip!Show

\* run() returns undisturbed with the whole clip, or the render is given up.
LEMMA FinishEnds == ASSUME Inv, [Next]_vars, Finish PROVE Clip!Complete \/ Clip!Abandon
<1>1. /\ main = "running" /\ main' \in {"returned", "raised"}
      /\ encoded' = encoded /\ processing' = processing
  BY DEF Finish, encoderVars
<1>2. Outcome = "running" /\ FramesOf(encoded)' = FramesOf(encoded) /\ RefusedOf(encoded)' = RefusedOf(encoded)
  BY <1>1 DEF Outcome, FramesOf, RefusedOf
<1>3. CASE main' = "returned" /\ processing
  <2>1. Inv' /\ (Inv => EncodesClip)'
    <3>1. (Inv => EncodesClip)'
      BY ClipEncoded, PTL
    <3> QED BY <3>1, InvStep
  <2>2. /\ \A f \in Frames \ Unproduced : \E i \in DOMAIN encoded : encoded[i].frame = f
        /\ \A i \in DOMAIN encoded : encoded[i].kind # "refused"
    BY <1>1, <1>3, <2>1 DEF EncodesClip
  <2>3. RefusedOf(encoded) = {}
    BY <2>2 DEF RefusedOf
  <2>4. \A f \in Clip!Frames \ Unproduced : \E i \in DOMAIN FramesOf(encoded) : FramesOf(encoded)[i] = f
    BY <2>2 DEF FramesOf, Frames, Clip!Frames
  <2>5. Outcome' = "complete"
    BY <1>1, <1>3 DEF Outcome
  <2> QED BY <1>2, <2>3, <2>4, <2>5 DEF Clip!Complete
<1>4. CASE ~(main' = "returned" /\ processing)
  <2>1. Outcome' = "partial"
    BY <1>1, <1>4 DEF Outcome
  <2> QED BY <1>2, <2>1 DEF Clip!Abandon
<1> QED BY <1>3, <1>4

LEMMA ClipStep == ASSUME Inv, [Next]_vars PROVE Clip!Next \/ UNCHANGED Clip!clipVars
<1> USE DEF decoderVars, ownerVars, encoderVars, callVars
<1>1. CASE Encode /\ encoded' # encoded
  <2>1. Frames = Clip!Frames
    BY DEF Frames, Clip!Frames
  <2> QED BY <1>1, <2>1, EncodeShows DEF Clip!Next
<1>2. CASE Finish
  BY <1>2, FinishEnds DEF Clip!Next
<1>3. CASE StopProcessing
  <2>1. encoded' = encoded /\ main' = main /\ processing = TRUE /\ processing' = FALSE
    BY <1>3 DEF StopProcessing, Inv, Types
  <2>2. FramesOf(encoded)' = FramesOf(encoded) /\ RefusedOf(encoded)' = RefusedOf(encoded)
    BY <2>1 DEF FramesOf, RefusedOf
  <2>3. CASE main = "returned"
    <3>1. Outcome = "complete" /\ Outcome' = "partial"
      BY <2>1, <2>3 DEF Outcome
    <3> QED BY <2>2, <3>1 DEF Clip!Next, Clip!Abandon
  <2>4. CASE main # "returned"
    <3>1. Outcome' = Outcome
      BY <2>1, <2>4 DEF Outcome
    <3> QED BY <2>2, <3>1 DEF Clip!clipVars
  <2> QED BY <2>3, <2>4
<1>4. CASE UNCHANGED <<encoded, main, processing>>
  <2>1. Outcome' = Outcome /\ FramesOf(encoded)' = FramesOf(encoded) /\ RefusedOf(encoded)' = RefusedOf(encoded)
    BY <1>4 DEF Outcome, FramesOf, RefusedOf
  <2> QED BY <2>1 DEF Clip!clipVars
<1>5. CASE Decoder \/ Call \/ UNCHANGED vars
  <2>1. UNCHANGED <<encoded, main, processing>>
    BY <1>5 DEF Decoder, DecoderPoll, AcquireLease, Decode, PutDecoded, MarkDecoded, Call, vars
  <2> QED BY <1>4, <2>1
<1>6. CASE Owner
  <2>1. UNCHANGED <<encoded, main, processing>>
    BY <1>6 DEF Owner, Take, Begin, Work, LeaveScope, Fallback, Drop, PutProcessed, MarkProcessed
  <2> QED BY <1>4, <2>1
<1>7. CASE Encoder
  <2>1. (Encode /\ encoded' # encoded) \/ UNCHANGED <<encoded, main, processing>>
    BY <1>7 DEF Encoder, Fetch, Order, Flush, Encode, Clear, Check, Unpark, Retire, LeaveEncoder
  <2> QED BY <1>1, <1>4, <2>1
<1> QED BY <1>2, <1>3, <1>5, <1>6, <1>7 DEF Next

\* The scheduler implements RenderedClip: for any clip, leases, queues, failures and calls, a step of
\* it shows the next frame that was produced, ends the render with the whole clip, gives it up, or
\* changes nothing that the caller of run() sees.
THEOREM SchedulerImplementsClip == Spec => ImplementsClip
<1>1. Init => Clip!Init
  BY DEF Init, Clip!Init, Outcome, FramesOf, RefusedOf
<1>2. Inv /\ [Next]_vars => [Clip!Next]_(Clip!clipVars)
  BY ClipStep
<1> QED BY <1>1, <1>2, Invariant, PTL DEF Spec, ImplementsClip, Clip!Spec

=============================================================================
