------------------------ MODULE SegmentWriter_proofs ------------------------
(***************************************************************************)
(* Theorems about SegmentWriter for any clip, any chunk, any settings and  *)
(* any number of runs, crashes and power losses.                           *)
(*                                                                         *)
(* The frames of a list of segments are summed by recursion.  What the sum *)
(* obeys is proved once, by induction on a set of naturals; everything     *)
(* about the writer uses those laws only.                                  *)
(***************************************************************************)
EXTENDS SegmentWriter, SequenceTheorems, WellFoundedInduction, NaturalsInduction, TLAPS

-----------------------------------------------------------------------------
(* Induction on a set of naturals.                                          *)

LEMMA NatMin ==
    ASSUME NEW T, T \subseteq Nat, T # {}
    PROVE  \E x \in T : \A y \in T : x <= y
<1> DEFINE R == OpToRel(<, Nat)
<1>1. IsWellFoundedOn(R, Nat)
  BY NatLessThanWellFounded
<1> HIDE DEF R
<1>2. PICK x \in T : \A y \in T : ~(<<y, x>> \in R)
  BY <1>1, WFMin
<1>3. ASSUME NEW y \in T PROVE x <= y
  <2>1. x \in Nat /\ y \in Nat
    OBVIOUS
  <2>2. y < x => <<y, x>> \in R
    BY <2>1 DEF R, OpToRel
  <2> QED  BY <1>2, <2>1, <2>2
<1> QED  BY <1>3

LEMMA SetInduction ==
    ASSUME NEW A, 0 \in A, \A n \in Nat : n \in A => n + 1 \in A
    PROVE  \A n \in Nat : n \in A
<1> DEFINE T == Nat \ A
<1>1. SUFFICES ASSUME T # {} PROVE FALSE
  OBVIOUS
<1>2. PICK x \in T : \A y \in T : x <= y
  BY <1>1, NatMin
<1>3. x # 0 /\ x - 1 \in Nat
  BY <1>2
<1>4. x - 1 \in A
  BY <1>2, <1>3
<1> QED  BY <1>2, <1>3, <1>4

-----------------------------------------------------------------------------
(* The frames of a list of segments.                                        *)

\* f holds the frames of the first n segments, for every n.
Sums(f, s) == /\ f \in [0 .. Len(s) -> Nat]
              /\ f[0] = 0
              /\ \A i \in 1 .. Len(s) : f[i] = f[i - 1] + s[i].frames

LEMMA FramesNatural ==
    ASSUME NEW s \in Seq(Entry)
    PROVE  Len(s) \in Nat /\ \A i \in 1 .. Len(s) : s[i] \in Entry /\ s[i].frames \in Nat \ {0}
<1>1. Len(s) \in Nat /\ \A i \in 1 .. Len(s) : s[i] \in Entry
  OBVIOUS
<1>2. \A e \in Entry : e.frames \in Nat \ {0}
  BY ConstantsAssumption DEF Entry, ConstantsAssumption
<1> QED  BY <1>1, <1>2

\* Any function that obeys the recursion holds the sums.
LEMMA SumsOf ==
    ASSUME NEW s \in Seq(Entry), NEW f,
           f = [i \in 0 .. Len(s) |-> IF i = 0 THEN 0 ELSE f[i - 1] + s[i].frames]
    PROVE  Sums(f, s)
<1>1. /\ DOMAIN f = 0 .. Len(s)
      /\ \A i \in 0 .. Len(s) : f[i] = IF i = 0 THEN 0 ELSE f[i - 1] + s[i].frames
  OBVIOUS
<1>2. Len(s) \in Nat /\ \A i \in 1 .. Len(s) : s[i].frames \in Nat
  BY FramesNatural
<1> DEFINE A == {k \in Nat : k <= Len(s) => f[k] \in Nat}
<1>3. 0 \in A
  BY <1>1, <1>2
<1>4. ASSUME NEW n \in Nat, n \in A PROVE n + 1 \in A
  <2>1. n + 1 <= Len(s) => f[n + 1] = f[n] + s[n + 1].frames /\ s[n + 1].frames \in Nat
    BY <1>1, <1>2
  <2>2. n + 1 <= Len(s) => n <= Len(s)
    BY <1>2
  <2> QED  BY <1>4, <2>1, <2>2
<1> HIDE DEF A
<1>5. \A n \in Nat : n \in A
  BY <1>3, <1>4, SetInduction
<1>6. \A i \in 0 .. Len(s) : f[i] \in Nat
  BY <1>2, <1>5 DEF A
<1>7. f \in [0 .. Len(s) -> Nat]
  <2>1. f = [i \in 0 .. Len(s) |-> f[i]]
    OBVIOUS
  <2> QED  BY <1>6, <2>1
<1> QED  BY <1>1, <1>2, <1>7 DEF Sums

LEMMA WrittenSums ==
    ASSUME NEW s \in Seq(Entry)
    PROVE  \E f : Sums(f, s) /\ Written(s) = f[Len(s)]
<1> DEFINE Obeys(f, n) == f = [i \in 0 .. n |-> IF i = 0 THEN 0 ELSE f[i - 1] + s[i].frames]
           A == {k \in Nat : \E f : Obeys(f, k)}
<1>1. 0 \in A
  <2> DEFINE f == [i \in 0 .. 0 |-> 0]
  <2>1. Obeys(f, 0)
    OBVIOUS
  <2> QED  BY <2>1
<1>2. ASSUME NEW k \in Nat, k \in A PROVE k + 1 \in A
  <2>1. PICK f : Obeys(f, k)
    BY <1>2
  <2> DEFINE g == [i \in 0 .. k + 1 |-> IF i = k + 1 THEN f[k] + s[k + 1].frames ELSE f[i]]
  <2>2. \A i \in 0 .. k : f[i] = IF i = 0 THEN 0 ELSE f[i - 1] + s[i].frames
    BY <2>1
  <2>3. ASSUME NEW i \in 0 .. k + 1 PROVE g[i] = IF i = 0 THEN 0 ELSE g[i - 1] + s[i].frames
    <3>1. CASE i = k + 1
      <4>1. g[i] = f[k] + s[k + 1].frames /\ g[i - 1] = f[k] /\ i # 0
        BY <3>1
      <4> QED  BY <3>1, <4>1
    <3>2. CASE i # k + 1
      <4>1. i \in 0 .. k /\ g[i] = f[i]
        BY <3>2
      <4>2. i # 0 => i - 1 \in 0 .. k + 1 /\ i - 1 # k + 1
        BY <4>1
      <4>3. i # 0 => g[i - 1] = f[i - 1]
        BY <4>2
      <4> QED  BY <2>2, <4>1, <4>3
    <3> QED  BY <3>1, <3>2
  <2>4. g = [i \in 0 .. k + 1 |-> g[i]]
    OBVIOUS
  <2> HIDE DEF g
  <2>5. Obeys(g, k + 1)
    BY <2>3, <2>4
  <2>6. \E h : Obeys(h, k + 1)
    BY <2>5
  <2> HIDE DEF Obeys
  <2> QED  BY <2>6
<1> HIDE DEF A
<1>3. \A k \in Nat : k \in A
  BY <1>1, <1>2, SetInduction
<1>4. \E f : Obeys(f, Len(s))
  BY <1>3 DEF A
<1> DEFINE g == CHOOSE h : h = [i \in 0 .. Len(s) |-> IF i = 0 THEN 0 ELSE h[i - 1] + s[i].frames]
<1>5. Obeys(g, Len(s))
  BY <1>4
<1>6. Written(s) = g[Len(s)]
  BY DEF Written
<1> HIDE DEF g
<1>7. Sums(g, s)
  BY <1>5, SumsOf
<1> QED  BY <1>6, <1>7

\* Two lists that agree on the frames of their first n segments agree on the sum.
LEMMA SumsAgree ==
    ASSUME NEW s \in Seq(Entry), NEW t \in Seq(Entry), NEW f, NEW g, Sums(f, s), Sums(g, t),
           NEW n \in Nat, n <= Len(s), n <= Len(t), \A i \in 1 .. n : s[i].frames = t[i].frames
    PROVE  f[n] = g[n]
<1> DEFINE A == {k \in Nat : k <= n => f[k] = g[k]}
<1>1. 0 \in A
  BY DEF Sums
<1>2. ASSUME NEW k \in Nat, k \in A PROVE k + 1 \in A
  <2>1. CASE k + 1 <= n
    <3>1. k + 1 \in 1 .. Len(s) /\ k + 1 \in 1 .. Len(t) /\ k + 1 \in 1 .. n /\ k + 1 - 1 = k
      BY <2>1
    <3>2. f[k + 1] = f[k] + s[k + 1].frames /\ g[k + 1] = g[k] + t[k + 1].frames
      BY <3>1 DEF Sums
    <3>3. f[k] = g[k]
      BY <1>2, <2>1
    <3> QED  BY <3>1, <3>2, <3>3
  <2> QED  BY <2>1
<1> HIDE DEF A
<1>3. n \in A
  BY <1>1, <1>2, SetInduction
<1> QED  BY <1>3 DEF A

LEMMA PrefixIs ==
    ASSUME NEW s \in Seq(Entry), NEW n \in 0 .. Len(s)
    PROVE  /\ SubSeq(s, 1, n) \in Seq(Entry) /\ Len(SubSeq(s, 1, n)) = n
           /\ \A i \in 1 .. n : SubSeq(s, 1, n)[i] = s[i]
BY FramesNatural, SubSeqProperties

\* The laws of the sum.
LEMMA WrittenPrefix ==
    ASSUME NEW s \in Seq(Entry)
    PROVE  \E f : Sums(f, s) /\ \A n \in 0 .. Len(s) : Written(SubSeq(s, 1, n)) = f[n]
<1>1. PICK f : Sums(f, s)
  BY WrittenSums
<1>2. ASSUME NEW n \in 0 .. Len(s) PROVE Written(SubSeq(s, 1, n)) = f[n]
  <2> DEFINE t == SubSeq(s, 1, n)
  <2>1. t \in Seq(Entry) /\ Len(t) = n /\ \A i \in 1 .. n : t[i] = s[i]
    BY PrefixIs
  <2> HIDE DEF t
  <2>2. PICK g : Sums(g, t) /\ Written(t) = g[Len(t)]
    BY <2>1, WrittenSums
  <2>3. g[n] = f[n]
    BY <1>1, <2>1, <2>2, SumsAgree
  <2> QED  BY <2>1, <2>2, <2>3 DEF t
<1> QED  BY <1>1, <1>2

LEMMA WrittenLaws ==
    ASSUME NEW s \in Seq(Entry)
    PROVE  /\ Written(s) \in Nat /\ Len(s) <= Written(s)
           /\ Written(SubSeq(s, 1, 0)) = 0
           /\ \A n \in 0 .. Len(s) : Written(SubSeq(s, 1, n)) \in Nat
           /\ \A n \in 1 .. Len(s) : Written(SubSeq(s, 1, n)) = Written(SubSeq(s, 1, n - 1)) + s[n].frames
           /\ \A n, m \in 0 .. Len(s) : n <= m => Written(SubSeq(s, 1, n)) <= Written(SubSeq(s, 1, m))
           /\ SubSeq(s, 1, Len(s)) = s
<1>1. PICK f : Sums(f, s) /\ \A n \in 0 .. Len(s) : Written(SubSeq(s, 1, n)) = f[n]
  BY WrittenPrefix
<1>2. Len(s) \in Nat /\ \A i \in 1 .. Len(s) : s[i].frames \in Nat \ {0}
  BY FramesNatural
<1>3. \A i \in 1 .. Len(s) : f[i] = f[i - 1] + s[i].frames /\ f[i - 1] \in Nat /\ f[i] \in Nat
  BY <1>1, <1>2 DEF Sums
<1>4. \A i \in 0 .. Len(s) : f[i] \in Nat
  BY <1>1 DEF Sums
<1> DEFINE A == {k \in Nat : k <= Len(s) => k <= f[k] /\ \A n \in 0 .. k : f[n] <= f[k]}
<1>5. 0 \in A
  BY <1>1, <1>4 DEF Sums
<1>6. ASSUME NEW k \in Nat, k \in A PROVE k + 1 \in A
  <2>1. CASE k + 1 <= Len(s)
    <3>1. k + 1 \in 1 .. Len(s) /\ k + 1 - 1 = k /\ k <= Len(s)
      BY <1>2, <2>1
    <3>2. f[k + 1] = f[k] + s[k + 1].frames /\ s[k + 1].frames \in Nat \ {0} /\ f[k] \in Nat
      BY <1>2, <1>3, <3>1
    <3>3. k <= f[k] /\ \A n \in 0 .. k : f[n] <= f[k]
      BY <1>6, <3>1
    <3>4. k + 1 <= f[k + 1] /\ f[k] <= f[k + 1] /\ f[k + 1] \in Nat
      BY <3>2, <3>3
    <3>5. ASSUME NEW n \in 0 .. k + 1 PROVE f[n] <= f[k + 1]
      <4>1. CASE n = k + 1
        BY <3>4, <4>1
      <4>2. CASE n # k + 1
        <5>1. n \in 0 .. k /\ n \in 0 .. Len(s)
          BY <3>1, <4>2
        <5>2. f[n] \in Nat /\ f[n] <= f[k]
          BY <1>4, <3>3, <5>1
        <5> QED  BY <3>2, <3>4, <5>2
      <4> QED  BY <4>1, <4>2
    <3> QED  BY <3>4, <3>5
  <2> QED  BY <2>1
<1> HIDE DEF A
<1>7. \A k \in Nat : k \in A
  BY <1>5, <1>6, SetInduction
<1>8. \A m \in 0 .. Len(s) : m <= f[m] /\ \A n \in 0 .. m : f[n] <= f[m]
  BY <1>2, <1>7 DEF A
<1>9. SubSeq(s, 1, Len(s)) = s
  <2> DEFINE t == SubSeq(s, 1, Len(s))
  <2>1. t \in Seq(Entry) /\ Len(t) = Len(s) /\ \A i \in 1 .. Len(s) : t[i] = s[i]
    BY <1>2, PrefixIs
  <2> HIDE DEF t
  <2>2. t = s
    BY <2>1, SeqEqual
  <2> QED  BY <2>2 DEF t
<1>10. Written(s) = f[Len(s)] /\ Len(s) \in 0 .. Len(s) /\ f[0] = 0 /\ 0 \in 0 .. Len(s)
  <2>1. Len(s) \in 0 .. Len(s) /\ 0 \in 0 .. Len(s)
    BY <1>2
  <2>2. Written(SubSeq(s, 1, Len(s))) = f[Len(s)]
    BY <1>1, <2>1
  <2> QED  BY <1>1, <1>9, <2>1, <2>2 DEF Sums
<1>11. \A n, m \in 0 .. Len(s) : n <= m => n \in 0 .. m
  BY <1>2
<1>12. \A n \in 1 .. Len(s) : n \in 0 .. Len(s) /\ n - 1 \in 0 .. Len(s)
  BY <1>2
<1> QED  BY <1>1, <1>3, <1>4, <1>8, <1>9, <1>10, <1>11, <1>12

\* The sum depends on the frames of the segments only.
LEMMA WrittenSame ==
    ASSUME NEW s \in Seq(Entry), NEW t \in Seq(Entry), NEW n \in Nat, n <= Len(s), n <= Len(t),
           \A i \in 1 .. n : s[i].frames = t[i].frames
    PROVE  Written(SubSeq(s, 1, n)) = Written(SubSeq(t, 1, n))
<1>1. PICK f : Sums(f, s) /\ \A k \in 0 .. Len(s) : Written(SubSeq(s, 1, k)) = f[k]
  BY WrittenPrefix
<1>2. PICK g : Sums(g, t) /\ \A k \in 0 .. Len(t) : Written(SubSeq(t, 1, k)) = g[k]
  BY WrittenPrefix
<1>3. f[n] = g[n]
  BY <1>1, <1>2, SumsAgree
<1>4. n \in 0 .. Len(s) /\ n \in 0 .. Len(t)
  BY FramesNatural
<1> QED  BY <1>1, <1>2, <1>3, <1>4

LEMMA WrittenAppend ==
    ASSUME NEW s \in Seq(Entry), NEW e \in Entry
    PROVE  /\ Append(s, e) \in Seq(Entry) /\ Len(Append(s, e)) = Len(s) + 1
           /\ Written(Append(s, e)) = Written(s) + e.frames
           /\ \A n \in 0 .. Len(s) : Written(SubSeq(Append(s, e), 1, n)) = Written(SubSeq(s, 1, n))
           /\ \A i \in 1 .. Len(s) : Append(s, e)[i] = s[i]
           /\ Append(s, e)[Len(s) + 1] = e
<1> DEFINE t == Append(s, e)
<1>1. /\ t \in Seq(Entry) /\ Len(t) = Len(s) + 1 /\ Len(s) \in Nat
      /\ \A i \in 1 .. Len(s) : t[i] = s[i]
      /\ t[Len(s) + 1] = e
  BY AppendProperties, FramesNatural
<1> HIDE DEF t
<1>2. ASSUME NEW n \in 0 .. Len(s) PROVE Written(SubSeq(t, 1, n)) = Written(SubSeq(s, 1, n))
  <2>1. n \in Nat /\ n <= Len(s) /\ n <= Len(t) /\ \A i \in 1 .. n : t[i].frames = s[i].frames
    BY <1>1
  <2> QED  BY <1>1, <2>1, WrittenSame
<1>3. Written(SubSeq(t, 1, Len(s))) = Written(s)
  <2>1. Len(s) \in 0 .. Len(s) /\ SubSeq(s, 1, Len(s)) = s
    BY <1>1, WrittenLaws
  <2>2. Written(SubSeq(t, 1, Len(s))) = Written(SubSeq(s, 1, Len(s)))
    BY <1>2, <2>1
  <2> QED  BY <2>1, <2>2
<1>4. Written(t) = Written(s) + e.frames
  <2>1. Len(t) \in 1 .. Len(t) /\ Len(t) - 1 = Len(s)
    BY <1>1
  <2>2. Written(SubSeq(t, 1, Len(t))) = Written(SubSeq(t, 1, Len(t) - 1)) + t[Len(t)].frames
    BY <1>1, <2>1, WrittenLaws
  <2>3. SubSeq(t, 1, Len(t)) = t
    BY <1>1, WrittenLaws
  <2> QED  BY <1>1, <1>3, <2>1, <2>2, <2>3
<1> QED  BY <1>1, <1>2, <1>4 DEF t

\* The longest prefix of good positions.
LEMMA LongestIs ==
    ASSUME NEW segs \in Seq(Entry), NEW good, good \subseteq 1 .. Len(segs)
    PROVE  \E n \in 0 .. Len(segs) :
              1 .. n \subseteq good /\ n + 1 \notin good /\ Longest(segs, good) = SubSeq(segs, 1, n)
<1> DEFINE T == {k \in Nat : k + 1 \notin good}
<1>1. Len(segs) \in T
  BY FramesNatural
<1>2. PICK n \in T : \A y \in T : n <= y
  BY <1>1, NatMin
<1>3. n \in 0 .. Len(segs)
  BY <1>1, <1>2, FramesNatural
<1>4. ASSUME NEW i \in 1 .. n PROVE i \in good
  <2>1. i - 1 \in Nat /\ i - 1 < n /\ (i - 1) + 1 = i
    BY <1>3
  <2> QED  BY <1>2, <2>1
<1> DEFINE P(m) == 1 .. m \subseteq good /\ m + 1 \notin good
           c == CHOOSE m \in 0 .. Len(segs) : P(m)
<1>5. c \in 0 .. Len(segs) /\ P(c)
  BY <1>2, <1>3, <1>4
<1>6. Longest(segs, good) = SubSeq(segs, 1, c)
  BY DEF Longest
<1> QED  BY <1>5, <1>6

-----------------------------------------------------------------------------
(* The inductive invariant.                                                 *)

Work == {"write", "trailer", "commit", "merge", "concat"}

\* A file that is still there holds as many frames as the list says, under the settings of the
\* list, and, unless a render lost some, those that follow the segments before it.
Fits(segs, s) ==
    \A i \in 1 .. Len(segs) :
        /\ segs[i].file = i - 1
        /\ files[i - 1] # None =>
              /\ files[i - 1].by = s /\ files[i - 1].count = segs[i].frames
              /\ ~lost => files[i - 1].first = Written(SubSeq(segs, 1, i - 1))

ListOK == manifest # None => Written(manifest.segs) <= Total /\ Fits(manifest.segs, manifest.by)

\* Whole(n): the first n files play.
Whole(n) == \A i \in 1 .. n : files[i - 1] # None /\ files[i - 1].whole

WriterOK == pc \in Work =>
    /\ run \in Settings /\ manifest = [by |-> run, segs |-> segments]
    /\ segIndex = Len(segments) /\ Whole(segIndex)
    /\ Written(segments) + curFrames <= pos
    /\ ~lost => pos = Written(segments) + curFrames

FileOK ==
    /\ pc = "write" => curFrames < Chunk /\ (open <=> curFrames > 0)
    /\ pc = "trailer" => open /\ curFrames > 0
    /\ pc = "commit" => ~open /\ curFrames > 0
    /\ pc \in {"off", "merge", "concat", "cleanup"} => ~open /\ curFrames = 0
    /\ pc \in {"write", "trailer", "commit"} /\ curFrames > 0 =>
          /\ files[segIndex] \in Content /\ files[segIndex].by = run
          /\ files[segIndex].first = pos - curFrames /\ files[segIndex].count = curFrames
          /\ files[segIndex].whole <=> pc = "commit"

MergeOK ==
    /\ pc = "off" <=> run = None
    /\ pc = "concat" => Parity /\ segments # <<>>
    /\ pc = "cleanup" =>
          /\ run \in Settings /\ manifest # None /\ manifest.by = run /\ Written(manifest.segs) <= pos
          /\ ~lost => IsVideo(target, run, pos) /\ (processing => pos = Total)

Inv == TypeOK /\ ListOK /\ WriterOK /\ FileOK /\ MergeOK

LEMMA ListTypes ==
    ASSUME TypeOK, ListOK, manifest # None
    PROVE  /\ manifest.segs \in Seq(Entry) /\ Len(manifest.segs) \in Nat
           /\ Len(manifest.segs) <= Written(manifest.segs) /\ Written(manifest.segs) \in 0 .. Total
           /\ \A i \in 1 .. Len(manifest.segs) : i - 1 \in Indices
           /\ \A i \in 1 .. Len(manifest.segs) : files[i - 1] # None => files[i - 1] \in Content
<1>1. manifest.segs \in Seq(Entry)
  BY DEF TypeOK
<1>2. Len(manifest.segs) \in Nat /\ Len(manifest.segs) <= Written(manifest.segs) /\ Written(manifest.segs) \in Nat
  BY <1>1, WrittenLaws, FramesNatural
<1>3. Written(manifest.segs) <= Total /\ Total \in Nat
  BY ConstantsAssumption DEF ListOK, ConstantsAssumption
<1>4. \A i \in 1 .. Len(manifest.segs) : i - 1 \in Indices
  BY <1>2, <1>3 DEF Indices
<1>5. \A i \in 1 .. Len(manifest.segs) : files[i - 1] # None => files[i - 1] \in Content
  BY <1>4 DEF TypeOK
<1> QED  BY <1>1, <1>2, <1>3, <1>4, <1>5

\* What a run resumes from: the listed segments up to the first that does not play.
Loaded(L, s) ==
    /\ L \in Seq(Entry) /\ Whole(Len(L))
    /\ \A i \in 1 .. Len(L) : L[i].file = i - 1
    /\ Len(L) > 0 => manifest # None /\ manifest.by = s
    /\ manifest # None /\ manifest.by = s =>
          /\ Len(L) <= Len(manifest.segs)
          /\ \A i \in 1 .. Len(L) : L[i].frames = manifest.segs[i].frames
          /\ Len(L) < Len(manifest.segs) => ~Plays(manifest.segs[Len(L) + 1])

LEMMA LoadIs ==
    ASSUME TypeOK, ListOK, NEW s \in Settings
    PROVE  Loaded(Load(s), s)
<1>1. CASE manifest = None \/ manifest.by # s
  <2>1. Load(s) = <<>>
    BY <1>1 DEF Load
  <2> QED  BY <1>1, <2>1 DEF Loaded, Whole
<1>2. CASE manifest # None /\ manifest.by = s
  <2> DEFINE segs == manifest.segs
             good == {i \in DOMAIN segs : Plays(segs[i])}
  <2>1. /\ segs \in Seq(Entry) /\ Len(segs) \in Nat /\ DOMAIN segs = 1 .. Len(segs)
        /\ \A i \in 1 .. Len(segs) : i - 1 \in Indices /\ (files[i - 1] # None => files[i - 1] \in Content)
    BY <1>2, ListTypes, LenProperties
  <2>2. Load(s) = Prefix(segs)
    BY <1>2 DEF Load
  <2>3. \A i \in 1 .. Len(segs) : segs[i].file = i - 1 /\ (Plays(segs[i]) <=> files[i - 1] # None /\ files[i - 1].whole)
    BY <1>2 DEF ListOK, Fits, Plays
  <2>4. \A i \in 1 .. Len(segs) : files[i - 1] # None => files[i - 1].count = segs[i].frames
    BY <1>2 DEF ListOK, Fits
  <2> HIDE DEF segs
  <2>5. PICK n \in 0 .. Len(segs) : 1 .. n \subseteq good /\ n + 1 \notin good /\ Playable(segs) = SubSeq(segs, 1, n)
    <3>1. good \subseteq 1 .. Len(segs)
      BY <2>1
    <3> HIDE DEF good
    <3>2. \E n \in 0 .. Len(segs) : 1 .. n \subseteq good /\ n + 1 \notin good /\ Longest(segs, good) = SubSeq(segs, 1, n)
      BY <2>1, <3>1, LongestIs
    <3> QED  BY <3>2 DEF Playable, good
  <2>6. DOMAIN Playable(segs) = 1 .. n
    <3>1. SubSeq(segs, 1, n) \in Seq(Entry) /\ Len(SubSeq(segs, 1, n)) = n
      BY <2>1, PrefixIs
    <3> QED  BY <2>5, <3>1, LenProperties
  <2>7. Load(s) = [i \in 1 .. n |-> Inherited(segs[i])]
    BY <2>2, <2>6 DEF Prefix
  <2>8. ASSUME NEW i \in 1 .. n
        PROVE  /\ Inherited(segs[i]) \in Entry /\ Inherited(segs[i]).file = i - 1
               /\ Inherited(segs[i]).frames = segs[i].frames
               /\ files[i - 1] # None /\ files[i - 1].whole
    <3>1. i \in 1 .. Len(segs) /\ Plays(segs[i])
      BY <2>1, <2>5
    <3>2. segs[i] \in Entry /\ segs[i].file = i - 1 /\ files[i - 1] # None /\ files[i - 1].whole
          /\ files[i - 1].count = segs[i].frames
      BY <2>1, <2>3, <2>4, <3>1
    <3> QED  BY <3>2 DEF Inherited, Entry
  <2>9. Load(s) \in Seq(Entry) /\ Len(Load(s)) = n /\ \A i \in 1 .. n : Load(s)[i] = Inherited(segs[i])
    BY <2>7, <2>8
  <2>10. n < Len(segs) => ~Plays(segs[n + 1])
    BY <2>1, <2>5
  <2> DEFINE L == Load(s)
  <2>11. /\ L \in Seq(Entry) /\ Len(L) = n /\ n <= Len(segs)
         /\ \A i \in 1 .. n : L[i].file = i - 1 /\ L[i].frames = segs[i].frames
    BY <2>1, <2>8, <2>9
  <2>12. Whole(n)
    BY <2>8 DEF Whole
  <2> HIDE DEF L
  <2>13. Loaded(L, s)
    BY <1>2, <2>10, <2>11, <2>12 DEF Loaded, segs
  <2> QED  BY <2>13 DEF L
<1> QED  BY <1>1, <1>2

-----------------------------------------------------------------------------
(* What the steps keep.                                                     *)

LEMMA Sizes == Total \in Nat \ {0} /\ Chunk \in Nat \ {0} /\ MaxRuns \in Nat /\ None \notin Settings
BY ConstantsAssumption DEF ConstantsAssumption

LEMMA WriterTypes ==
    ASSUME Inv, pc \in Work
    PROVE  /\ segments \in Seq(Entry) /\ segIndex = Len(segments) /\ segIndex \in Nat
           /\ Written(segments) \in Nat /\ segIndex <= Written(segments)
           /\ Written(segments) + curFrames <= pos /\ pos \in 0 .. Total /\ curFrames \in 0 .. Chunk
           /\ (~lost => pos = Written(segments) + curFrames)
           /\ manifest # None /\ manifest.by = run /\ manifest.segs = segments /\ run \in Settings
           /\ Fits(segments, run)
<1>1. /\ segments \in Seq(Entry) /\ segIndex = Len(segments) /\ run \in Settings
      /\ manifest = [by |-> run, segs |-> segments] /\ pos \in 0 .. Total /\ curFrames \in 0 .. Chunk
      /\ Written(segments) + curFrames <= pos /\ (~lost => pos = Written(segments) + curFrames)
  BY DEF Inv, TypeOK, WriterOK
<1>2. Written(segments) \in Nat /\ Len(segments) <= Written(segments) /\ Len(segments) \in Nat
  BY <1>1, WrittenLaws, FramesNatural
<1>3. manifest # None
  BY <1>1, NoneAssumption DEF NoneAssumption
<1>4. manifest.by = run /\ manifest.segs = segments
  BY <1>1
<1>5. Fits(segments, run)
  BY <1>3, <1>4 DEF Inv, ListOK
<1> QED  BY <1>1, <1>2, <1>3, <1>4, <1>5

\* Files that go, or lose their data, leave the list true.
LEMMA ListKept ==
    ASSUME ListOK, UNCHANGED manifest, lost => lost',
           manifest # None => \A i \in 1 .. Len(manifest.segs) : files'[i - 1] # None =>
              /\ files[i - 1] # None /\ files'[i - 1].by = files[i - 1].by
              /\ files'[i - 1].count = files[i - 1].count /\ files'[i - 1].first = files[i - 1].first
    PROVE  ListOK'
BY DEF ListOK, Fits

LEMMA SameFiles ==
    ASSUME ListOK, UNCHANGED <<manifest, lost, files>>
    PROVE  ListOK'
BY DEF ListOK, Fits

\* The end of a run leaves the disk as it is.
LEMMA EndsRun ==
    ASSUME TypeOK, Over, files' \in [Indices -> Content \cup {None}], UNCHANGED <<lost, runs>>,
           target' \in {None, Broken} \/ target' \in Seq(Content), ListOK',
           manifest' = None \/ manifest' = manifest
    PROVE  Inv'
<1>1. manifest' = None \/ (manifest'.by \in Settings /\ manifest'.segs \in Seq(Entry))
  BY DEF TypeOK
<1>0. 0 \in 0 .. Total /\ 0 \in 0 .. Chunk /\ <<>> \in Seq(Entry)
  BY Sizes
<1>2. TypeOK'
  BY <1>0, <1>1 DEF TypeOK, Over
<1>3. WriterOK' /\ FileOK' /\ MergeOK'
  BY <1>0 DEF Over, WriterOK, FileOK, MergeOK, Work
<1> QED  BY <1>2, <1>3 DEF Inv

\* A file put at the index of the writer is none of the listed ones.
LEMMA OpenFile ==
    ASSUME Inv, pc \in Work, NEW c, files' = [files EXCEPT ![segIndex] = c]
    PROVE  /\ \A i \in 1 .. Len(segments) : files'[i - 1] = files[i - 1]
           /\ segIndex \in Indices => files'[segIndex] = c
           /\ UNCHANGED manifest /\ (lost => lost') => ListOK'
           /\ UNCHANGED segIndex => Whole(segIndex)'
<1>1. segIndex = Len(segments) /\ segIndex \in Nat /\ manifest.segs = segments /\ Whole(segIndex)
  BY WriterTypes DEF Inv, WriterOK
<1>2. files \in [Indices -> Content \cup {None}]
  BY DEF Inv, TypeOK
<1>3. \A i \in 1 .. Len(segments) : i - 1 # segIndex
  BY <1>1
<1>4. \A j \in Indices : j # segIndex => files'[j] = files[j]
  BY <1>2
<1>5. \A i \in 1 .. Len(segments) : i - 1 \in Indices
  BY <1>1, WriterTypes, Sizes DEF Indices
<1>6. \A i \in 1 .. Len(segments) : files'[i - 1] = files[i - 1]
  BY <1>3, <1>4, <1>5
<1>7. ASSUME UNCHANGED manifest, lost => lost' PROVE ListOK'
  BY <1>1, <1>6, <1>7, ListKept DEF Inv
<1>8. ASSUME UNCHANGED segIndex PROVE Whole(segIndex)'
  <2>1. \A i \in 1 .. segIndex : files'[i - 1] # None /\ files'[i - 1].whole
    BY <1>1, <1>6 DEF Whole
  <2> QED  BY <1>8, <2>1 DEF Whole
<1> QED  BY <1>2, <1>6, <1>7, <1>8

\* The parts of the merge are the video.
LEMMA PartsAreVideo ==
    ASSUME Inv, pc \in {"merge", "concat"}, segments # <<>>
    PROVE  /\ Parts \in Seq(Content)
           /\ ~lost => IsVideo(Parts, run, pos)
<1> DEFINE n == Len(segments)
           v == Parts
<1>1. /\ segments \in Seq(Entry) /\ n \in Nat /\ pc \in Work /\ run \in Settings /\ segIndex = n
      /\ Written(segments) \in Nat /\ n <= Written(segments) /\ Written(segments) + curFrames <= pos
      /\ pos \in 0 .. Total /\ curFrames \in 0 .. Chunk
      /\ (~lost => pos = Written(segments) + curFrames) /\ Fits(segments, run)
  BY WriterTypes DEF Work
<1>2. n > 0
  BY <1>1, EmptySeq
<1>3. curFrames = 0 /\ Whole(n)
  BY <1>1 DEF Inv, FileOK, WriterOK
<1>4. \A i \in 1 .. n : i - 1 \in Indices
  BY <1>1, <1>3, Sizes DEF Indices
<1>5. ASSUME NEW i \in 1 .. n
      PROVE  /\ segments[i].file = i - 1 /\ files[i - 1] \in Content /\ files[i - 1].whole
             /\ files[i - 1].by = run /\ files[i - 1].count = segments[i].frames
             /\ ~lost => files[i - 1].first = Written(SubSeq(segments, 1, i - 1))
  <2>1. files[i - 1] # None /\ files[i - 1].whole
    BY <1>3 DEF Whole
  <2>2. files[i - 1] \in Content
    BY <1>4, <2>1 DEF Inv, TypeOK
  <2> QED  BY <1>1, <2>1, <2>2 DEF Fits
<1>6. v = [i \in 1 .. n |-> files[i - 1]]
  BY <1>5 DEF Parts
<1>7. v \in Seq(Content) /\ Len(v) = n /\ DOMAIN v = 1 .. n /\ \A i \in 1 .. n : v[i] = files[i - 1]
  BY <1>1, <1>5, <1>6
<1>8. ASSUME ~lost PROVE IsVideo(v, run, pos)
  <2>1. v \notin {None, Broken} /\ v # <<>>
    BY <1>2, <1>7, NoneAssumption, EmptySeq DEF NoneAssumption
  <2>2. \A i \in DOMAIN v : v[i] # None /\ v[i].by = run /\ v[i].whole
    BY <1>5, <1>7, NoneAssumption DEF NoneAssumption
  <2>3. v[1].first = 0
    <3>1. 1 \in 1 .. n /\ 1 - 1 = 0 /\ Written(SubSeq(segments, 1, 0)) = 0
      BY <1>1, <1>2, WrittenLaws
    <3> QED  BY <1>5, <1>7, <1>8, <3>1
  <2>4. ASSUME NEW i \in 1 .. n
        PROVE  v[i].first + v[i].count = Written(SubSeq(segments, 1, i))
    <3>1. v[i].first = Written(SubSeq(segments, 1, i - 1)) /\ v[i].count = segments[i].frames
      BY <1>5, <1>7, <1>8
    <3>2. Written(SubSeq(segments, 1, i)) = Written(SubSeq(segments, 1, i - 1)) + segments[i].frames
      BY <1>1, WrittenLaws
    <3> QED  BY <3>1, <3>2
  <2>5. \A i \in 1 .. Len(v) - 1 : v[i + 1].first = v[i].first + v[i].count
    <3>1. ASSUME NEW i \in 1 .. n - 1 PROVE v[i + 1].first = v[i].first + v[i].count
      <4>1. i \in 1 .. n /\ i + 1 \in 1 .. n /\ (i + 1) - 1 = i
        BY <1>1
      <4>2. v[i + 1].first = Written(SubSeq(segments, 1, i))
        BY <1>5, <1>7, <1>8, <4>1
      <4> QED  BY <2>4, <4>1, <4>2
    <3> QED  BY <1>7, <3>1
  <2>6. v[Len(v)].first + v[Len(v)].count = pos
    <3>1. n \in 1 .. n /\ SubSeq(segments, 1, n) = segments
      BY <1>1, <1>2, WrittenLaws
    <3>2. v[n].first + v[n].count = Written(segments)
      BY <2>4, <3>1
    <3> QED  BY <1>1, <1>3, <1>7, <1>8, <3>2
  <2> QED  BY <2>1, <2>2, <2>3, <2>5, <2>6 DEF IsVideo
<1> QED  BY <1>7, <1>8

LEMMA InitOK == Init => Inv
<1> SUFFICES ASSUME Init PROVE Inv  OBVIOUS
<1>1. TypeOK
  <2>1. segments \in Seq(Entry)
    BY DEF Init
  <2>2. files \in [Indices -> Content \cup {None}]
    BY DEF Init
  <2>3. 0 \in 0 .. Total /\ 0 \in 0 .. Chunk /\ 0 \in 0 .. MaxRuns
    BY Sizes
  <2> QED  BY <2>1, <2>2, <2>3 DEF Init, TypeOK
<1> QED  BY <1>1 DEF Init, Inv, ListOK, WriterOK, FileOK, MergeOK, Work

\* A run starts from the segments that play; the tail that does not is deleted.
LEMMA StartFiles ==
    ASSUME Inv, NEW s \in Settings
    PROVE  /\ DropTail(s) \in [Indices -> Content \cup {None}]
           /\ \A i \in 1 .. Len(Load(s)) : DropTail(s)[i - 1] = files[i - 1]
<1> DEFINE L == Load(s)
<1>1. Loaded(L, s) /\ TypeOK /\ ListOK
  BY LoadIs DEF Inv
<1>2. files \in [Indices -> Content \cup {None}]
  BY <1>1 DEF TypeOK
<1>3. Len(L) \in Nat
  BY <1>1, FramesNatural DEF Loaded
<1> HIDE DEF L
<1>4. CASE manifest # None /\ manifest.by = s /\ Len(L) + 1 = Len(Listed(manifest.segs))
  <2> DEFINE segs == manifest.segs
             good == {i \in DOMAIN segs : OnDisk(segs[i])}
  <2>1. segs \in Seq(Entry) /\ Len(segs) \in Nat /\ DOMAIN segs = 1 .. Len(segs)
    BY <1>1, <1>4, ListTypes, LenProperties
  <2>2. \A i \in 1 .. Len(segs) : segs[i].file = i - 1
    BY <1>1, <1>4 DEF ListOK, Fits
  <2> HIDE DEF segs
  <2>3. PICK n \in 0 .. Len(segs) : Listed(segs) = SubSeq(segs, 1, n)
    <3>1. good \subseteq 1 .. Len(segs)
      BY <2>1
    <3> HIDE DEF good
    <3>2. \E n \in 0 .. Len(segs) : Longest(segs, good) = SubSeq(segs, 1, n)
      BY <2>1, <3>1, LongestIs
    <3> QED  BY <3>2 DEF Listed, good
  <2>4. Len(Listed(segs)) = n /\ \A i \in 1 .. n : Listed(segs)[i] = segs[i]
    BY <2>1, <2>3, PrefixIs
  <2>5. n = Len(L) + 1 /\ n \in 1 .. n /\ n \in 1 .. Len(segs)
    BY <1>3, <1>4, <2>1, <2>4 DEF segs
  <2>6. Listed(segs)[Len(L) + 1].file = Len(L)
    BY <1>3, <2>2, <2>4, <2>5
  <2>7. DropTail(s) = [files EXCEPT ![Len(L)] = None]
    BY <1>4, <2>6 DEF DropTail, L, segs
  <2>8. \A i \in 1 .. Len(L) : i - 1 # Len(L)
    BY <1>3
  <2>9. \A i \in 1 .. Len(L) : i - 1 \in Indices
    <3>1. Len(L) <= Len(segs)
      BY <1>3, <2>1, <2>5
    <3> QED  BY <1>1, <1>3, <1>4, <2>1, <3>1, ListTypes DEF segs
  <2> QED  BY <1>2, <2>7, <2>8, <2>9 DEF L
<1>5. CASE ~(manifest # None /\ manifest.by = s /\ Len(L) + 1 = Len(Listed(manifest.segs)))
  <2>1. DropTail(s) = files
    BY <1>5 DEF DropTail, L
  <2> QED  BY <1>2, <2>1
<1> QED  BY <1>4, <1>5

LEMMA StartWritten ==
    ASSUME Inv, NEW s \in Settings
    PROVE  /\ Load(s) \in Seq(Entry) /\ Len(Load(s)) \in 0 .. Total
           /\ Written(Load(s)) \in 0 .. Total
           /\ \A i \in 1 .. Len(Load(s)) :
                 Written(SubSeq(Load(s), 1, i - 1)) = Written(SubSeq(manifest.segs, 1, i - 1))
<1> DEFINE L == Load(s)
<1>1. Loaded(L, s) /\ TypeOK /\ ListOK
  BY LoadIs DEF Inv
<1> HIDE DEF L
<1>2. L \in Seq(Entry) /\ Len(L) \in Nat /\ Written(L) \in Nat /\ Len(L) <= Written(L)
  BY <1>1, FramesNatural, WrittenLaws DEF Loaded
<1>3. CASE Len(L) > 0
  <2> DEFINE segs == manifest.segs
  <2>1. /\ manifest # None /\ Len(L) <= Len(segs)
        /\ \A i \in 1 .. Len(L) : L[i].frames = segs[i].frames
    BY <1>1, <1>3 DEF Loaded
  <2>2. segs \in Seq(Entry) /\ Len(segs) \in Nat /\ Written(segs) \in 0 .. Total
    BY <1>1, <2>1, ListTypes
  <2> HIDE DEF segs
  <2>3. \A n \in 0 .. Len(L) : Written(SubSeq(L, 1, n)) = Written(SubSeq(segs, 1, n))
    <3>1. ASSUME NEW n \in 0 .. Len(L) PROVE Written(SubSeq(L, 1, n)) = Written(SubSeq(segs, 1, n))
      <4>1. n \in Nat /\ n <= Len(L) /\ n <= Len(segs) /\ \A i \in 1 .. n : L[i].frames = segs[i].frames
        BY <1>2, <2>1, <2>2 DEF segs
      <4> QED  BY <1>2, <2>2, <4>1, WrittenSame
    <3> QED  BY <3>1
  <2>4. Len(L) \in 0 .. Len(segs) /\ Len(segs) \in 0 .. Len(segs) /\ Len(L) <= Len(segs) /\ Len(L) \in 0 .. Len(L)
    BY <1>2, <2>1, <2>2 DEF segs
  <2>5. Written(SubSeq(segs, 1, Len(L))) <= Written(SubSeq(segs, 1, Len(segs))) /\ SubSeq(segs, 1, Len(segs)) = segs
    BY <2>2, <2>4, WrittenLaws
  <2>6. SubSeq(L, 1, Len(L)) = L
    BY <1>2, WrittenLaws
  <2>7. Written(SubSeq(L, 1, Len(L))) = Written(SubSeq(segs, 1, Len(L)))
    BY <2>3, <2>4
  <2>8. Written(L) <= Total
    <3> DEFINE a == Written(L)
               b == Written(segs)
    <3>1. Written(SubSeq(L, 1, Len(L))) = a
      BY <2>6
    <3>2. Written(SubSeq(segs, 1, Len(segs))) = b
      BY <2>5
    <3>3. a <= b /\ a \in Nat /\ b \in 0 .. Total
      BY <1>2, <2>2, <2>5, <2>7, <3>1, <3>2
    <3> HIDE DEF a, b
    <3>4. a <= Total
      BY <3>3, Sizes
    <3> QED  BY <3>4 DEF a
  <2>9. \A i \in 1 .. Len(L) : i - 1 \in 0 .. Len(L)
    BY <1>2
  <2> QED  BY <1>2, <2>3, <2>8, <2>9, Sizes DEF L, segs
<1>4. CASE Len(L) = 0
  <2>1. SubSeq(L, 1, Len(L)) = L /\ Written(SubSeq(L, 1, 0)) = 0
    BY <1>2, WrittenLaws
  <2>2. Written(L) = 0
    BY <1>4, <2>1
  <2> QED  BY <1>2, <1>4, <2>2, Sizes DEF L
<1> QED  BY <1>2, <1>3, <1>4

LEMMA StartOK ==
    ASSUME Inv, NEW s \in Settings, Start(s)
    PROVE  Inv'
<1>0. PICK L : L = Load(s)
  OBVIOUS
<1>1. /\ L \in Seq(Entry) /\ Len(L) \in 0 .. Total /\ Written(L) \in 0 .. Total /\ Loaded(L, s)
      /\ \A i \in 1 .. Len(L) : Written(SubSeq(L, 1, i - 1)) = Written(SubSeq(manifest.segs, 1, i - 1))
  BY <1>0, StartWritten, LoadIs DEF Inv
<1>2. /\ files' \in [Indices -> Content \cup {None}]
      /\ \A i \in 1 .. Len(L) : files'[i - 1] = files[i - 1]
  BY <1>0, StartFiles DEF Start
<1>3. /\ run' = s /\ segments' = L /\ segIndex' = Len(L) /\ manifest' = [by |-> s, segs |-> L]
      /\ pos' = Written(L) /\ resumed' = Written(L) /\ processing' = TRUE
      /\ closing' = (Written(L) >= Total) /\ keep' \in BOOLEAN
      /\ pc' = (IF closing' THEN "merge" ELSE "write") /\ lost' = (lost /\ L # <<>>)
      /\ runs' = runs + 1 /\ runs < MaxRuns /\ pc = "off" /\ UNCHANGED <<target, open, curFrames>>
  BY <1>0 DEF Start, FirstIndex
<1>4. TypeOK /\ ListOK
  BY DEF Inv
<1>5. TypeOK'
  <2>1. runs' \in 0 .. MaxRuns /\ lost' \in BOOLEAN /\ closing' \in BOOLEAN
    BY <1>3, <1>4, Sizes DEF TypeOK
  <2>2. manifest'.by \in Settings /\ manifest'.segs \in Seq(Entry)
    BY <1>1, <1>3
  <2> QED  BY <1>1, <1>2, <1>3, <1>4, <2>1, <2>2 DEF TypeOK
<1>6. open = FALSE /\ curFrames = 0
  BY <1>3 DEF Inv, FileOK
<1>7. manifest'.by = s /\ manifest'.segs = L
  BY <1>3
<1>8. Fits(L, s)'
  <2>1. ASSUME NEW i \in 1 .. Len(L)
        PROVE  /\ L[i].file = i - 1 /\ files'[i - 1].by = s /\ files'[i - 1].count = L[i].frames
               /\ ~lost' => files'[i - 1].first = Written(SubSeq(L, 1, i - 1))
    <3>1. Len(L) \in Nat /\ L # <<>>
      BY <1>1, <2>1
    <3>2. /\ manifest # None /\ manifest.by = s /\ i \in 1 .. Len(manifest.segs)
          /\ L[i].file = i - 1 /\ L[i].frames = manifest.segs[i].frames /\ Whole(Len(L))
      <4>1. /\ manifest # None /\ manifest.by = s /\ Len(L) <= Len(manifest.segs)
            /\ L[i].file = i - 1 /\ L[i].frames = manifest.segs[i].frames /\ Whole(Len(L))
        BY <1>1, <2>1, <3>1 DEF Loaded
      <4>2. Len(manifest.segs) \in Nat
        BY <1>4, <4>1, ListTypes
      <4> QED  BY <3>1, <4>1, <4>2
    <3>3. files'[i - 1] = files[i - 1] /\ files[i - 1] # None
      BY <1>2, <3>2 DEF Whole
    <3>4. /\ files[i - 1].by = s /\ files[i - 1].count = manifest.segs[i].frames
          /\ ~lost => files[i - 1].first = Written(SubSeq(manifest.segs, 1, i - 1))
      BY <1>4, <3>2, <3>3 DEF ListOK, Fits
    <3>5. lost' = lost
      BY <1>3, <1>4, <3>1 DEF TypeOK
    <3>6. Written(SubSeq(L, 1, i - 1)) = Written(SubSeq(manifest.segs, 1, i - 1))
      BY <1>1
    <3> QED  BY <3>2, <3>3, <3>4, <3>5, <3>6
  <2> QED  BY <2>1 DEF Fits
<1>9. ListOK'
  <2>1. Written(L) <= Total
    BY <1>1, Sizes
  <2> QED  BY <1>7, <1>8, <2>1 DEF ListOK
<1>10. WriterOK'
  <2>1. \A i \in 1 .. Len(L) : files'[i - 1] # None /\ files'[i - 1].whole
    BY <1>1, <1>2 DEF Loaded, Whole
  <2>2. Whole(segIndex)'
    BY <1>3, <2>1 DEF Whole
  <2>3. Written(L) \in Nat /\ Written(L) + curFrames' = Written(L)
    BY <1>1, <1>3, <1>6
  <2> QED  BY <1>3, <2>2, <2>3 DEF WriterOK
<1>11. FileOK' /\ MergeOK'
  BY <1>3, <1>6, Sizes DEF FileOK, MergeOK
<1> QED  BY <1>5, <1>9, <1>10, <1>11 DEF Inv

LEMMA WriteOK ==
    ASSUME Inv, WriteFrame
    PROVE  Inv'
<1> DEFINE old == files[segIndex]
<1>1. /\ pc = "write" /\ pos < Total /\ open' = TRUE /\ curFrames' = curFrames + 1 /\ pos' = pos + 1
      /\ pc' = (IF curFrames' >= Chunk THEN "trailer" ELSE "write")
      /\ UNCHANGED <<manifest, target, run, resumed, segments, segIndex, processing, closing, keep, lost, runs>>
  BY DEF WriteFrame, optVars
<1>2. /\ pc \in Work /\ TypeOK /\ ListOK /\ WriterOK
      /\ curFrames < Chunk /\ (open <=> curFrames > 0)
      /\ (curFrames > 0 => /\ old \in Content /\ old.by = run /\ old.first = pos - curFrames
                           /\ old.count = curFrames /\ ~old.whole)
  <2>1. TypeOK /\ ListOK /\ WriterOK /\ FileOK
    BY DEF Inv
  <2> QED  BY <1>1, <2>1 DEF FileOK, Work
<1>3. /\ segments \in Seq(Entry) /\ segIndex = Len(segments) /\ segIndex \in Nat
      /\ Written(segments) \in Nat /\ segIndex <= Written(segments)
      /\ Written(segments) + curFrames <= pos /\ pos \in 0 .. Total /\ curFrames \in 0 .. Chunk
      /\ run \in Settings /\ manifest = [by |-> run, segs |-> segments] /\ open \in BOOLEAN
      /\ (~lost => pos = Written(segments) + curFrames)
  BY <1>2, WriterTypes DEF WriterOK, TypeOK
<1>4. curFrames \in Nat /\ pos \in Nat /\ segIndex \in Indices /\ pos - curFrames \in 0 .. Total - 1
      /\ curFrames + 1 \in 1 .. Total /\ pos + 1 \in 0 .. Total /\ curFrames + 1 \in 0 .. Chunk
  BY <1>1, <1>2, <1>3, Sizes DEF Indices
<1>5. PICK new \in Content :
           /\ files' = [files EXCEPT ![segIndex] = new]
           /\ new.by = run /\ new.first = pos - curFrames /\ new.count = curFrames + 1 /\ ~new.whole
  <2>1. CASE open
    <3> DEFINE new == [old EXCEPT !.count = old.count + 1]
    <3>1. files' = [files EXCEPT ![segIndex] = new]
      BY <2>1 DEF WriteFrame
    <3>2. /\ old \in Content /\ old.by = run /\ old.first = pos - curFrames
          /\ old.count = curFrames /\ ~old.whole
      BY <1>2, <2>1
    <3> HIDE DEF old
    <3>3. new \in Content /\ new.by = old.by /\ new.first = old.first /\ new.count = old.count + 1
          /\ new.whole = old.whole
      BY <1>4, <3>2 DEF Content
    <3> HIDE DEF new
    <3> QED  BY <3>1, <3>2, <3>3
  <2>2. CASE ~open
    <3> DEFINE new == [by |-> run, first |-> pos, count |-> 1, whole |-> FALSE]
    <3>1. files' = [files EXCEPT ![segIndex] = new]
      BY <2>2 DEF WriteFrame
    <3>2. curFrames = 0
      BY <1>2, <1>4, <2>2
    <3>3. new \in Content /\ new.by = run /\ new.first = pos - curFrames /\ new.count = curFrames + 1 /\ ~new.whole
      BY <1>1, <1>3, <1>4, <3>2, Sizes DEF Content
    <3> HIDE DEF new
    <3> QED  BY <3>1, <3>3
  <2> QED  BY <2>1, <2>2
<1> HIDE DEF old
<1>8. files' \in [Indices -> Content \cup {None}] /\ files'[segIndex] = new
  BY <1>2, <1>4, <1>5 DEF TypeOK
<1>9. ListOK' /\ Whole(segIndex)'
  BY <1>1, <1>2, <1>5, OpenFile
<1>10. TypeOK'
  BY <1>1, <1>2, <1>4, <1>8 DEF TypeOK
<1>11. WriterOK'
  <2>1. Written(segments) + (curFrames + 1) <= pos + 1 /\ (~lost => pos + 1 = Written(segments) + (curFrames + 1))
    BY <1>3, <1>4
  <2> QED  BY <1>1, <1>3, <1>9, <2>1 DEF WriterOK
<1>12. FileOK'
  <2>1. pc' \in {"write", "trailer"} /\ curFrames' > 0 /\ open' /\ (pc' = "write" => curFrames' < Chunk)
    BY <1>1, <1>4, Sizes
  <2>2. /\ files'[segIndex] \in Content /\ files'[segIndex].by = run
        /\ files'[segIndex].first = pos' - curFrames' /\ files'[segIndex].count = curFrames'
        /\ ~files'[segIndex].whole
    BY <1>1, <1>4, <1>5, <1>8
  <2> QED  BY <1>1, <2>1, <2>2 DEF FileOK
<1>13. MergeOK'
  BY <1>1, <1>2, <1>3, Sizes DEF MergeOK, Inv
<1> QED  BY <1>9, <1>10, <1>11, <1>12, <1>13 DEF Inv

LEMMA CommitOK ==
    ASSUME Inv, CommitSegment
    PROVE  Inv'
<1>e. PICK e : e = [file |-> segIndex, frames |-> curFrames, sha |-> TRUE]
  OBVIOUS
<1>1. /\ pc = "commit" /\ segments' = Append(segments, e) /\ manifest' = [by |-> run, segs |-> segments']
      /\ segIndex' = segIndex + 1 /\ curFrames' = 0 /\ pc' = Continue
      /\ UNCHANGED <<files, target, run, resumed, open, pos, processing, closing, keep, lost, runs>>
  BY <1>e DEF CommitSegment, optVars
<1>2. pc \in Work /\ TypeOK /\ WriterOK /\ FileOK /\ pc' \in {"write", "merge"}
  BY <1>1 DEF Inv, Work, Continue
<1>3. /\ segments \in Seq(Entry) /\ segIndex = Len(segments) /\ segIndex \in Nat
      /\ Written(segments) \in Nat /\ segIndex <= Written(segments)
      /\ Written(segments) + curFrames <= pos /\ pos \in 0 .. Total /\ curFrames \in 0 .. Chunk
      /\ run \in Settings /\ Fits(segments, run)
      /\ (~lost => pos = Written(segments) + curFrames)
  BY <1>2, WriterTypes
<1>4. /\ ~open /\ curFrames > 0
      /\ files[segIndex] \in Content /\ files[segIndex].by = run /\ files[segIndex].whole
      /\ files[segIndex].first = pos - curFrames /\ files[segIndex].count = curFrames
  BY <1>1, <1>2 DEF FileOK
<1>5. segIndex \in Indices /\ curFrames \in 1 .. Total /\ segIndex + 1 \in 0 .. Total /\ curFrames \in Nat /\ pos \in Nat
  BY <1>3, <1>4, Sizes DEF Indices
<1>6. e \in Entry /\ e.frames = curFrames /\ e.file = segIndex
  BY <1>e, <1>5 DEF Entry
<1>7. /\ segments' \in Seq(Entry) /\ Len(segments') = segIndex + 1
      /\ Written(segments') = Written(segments) + curFrames
      /\ \A n \in 0 .. Len(segments) : Written(SubSeq(segments', 1, n)) = Written(SubSeq(segments, 1, n))
      /\ \A i \in 1 .. Len(segments) : segments'[i] = segments[i]
      /\ segments'[segIndex + 1] = e
  BY <1>1, <1>3, <1>6, WrittenAppend
<1>8. SubSeq(segments, 1, segIndex) = segments /\ segIndex \in 0 .. Len(segments)
  BY <1>3, WrittenLaws
<1>9. Written(SubSeq(segments', 1, segIndex)) = Written(segments)
  <2>1. Written(SubSeq(segments', 1, segIndex)) = Written(SubSeq(segments, 1, segIndex))
    BY <1>7, <1>8
  <2> QED  BY <1>8, <2>1
<1>10. manifest' # None /\ manifest'.by = run /\ manifest'.segs = segments'
  <2>1. manifest' \in [by : Settings, segs : Seq(Entry)]
    BY <1>1, <1>3, <1>7
  <2> QED  BY <1>1, <2>1, NoneAssumption DEF NoneAssumption
<1>11. files \in [Indices -> Content \cup {None}] /\ files[segIndex] # None
  <2>1. files[segIndex] \in Content
    BY <1>4
  <2> QED  BY <1>2, <2>1, NoneAssumption DEF NoneAssumption, TypeOK
<1>12. TypeOK'
  <2>1. manifest'.by \in Settings /\ manifest'.segs \in Seq(Entry)
    BY <1>3, <1>7, <1>10
  <2>2. 0 \in 0 .. Chunk
    BY Sizes
  <2> QED  BY <1>1, <1>2, <1>5, <1>7, <2>1, <2>2 DEF TypeOK
<1>13. ASSUME NEW i \in 1 .. segIndex + 1
       PROVE  /\ segments'[i].file = i - 1
              /\ files[i - 1] # None /\ files[i - 1].whole
              /\ files[i - 1].by = run /\ files[i - 1].count = segments'[i].frames
              /\ ~lost => files[i - 1].first = Written(SubSeq(segments', 1, i - 1))
  <2>1. CASE i = segIndex + 1
    <3>1. i - 1 = segIndex
      BY <1>3, <2>1
    <3>2. files[i - 1].by = run /\ files[i - 1].count = curFrames /\ files[i - 1].whole
          /\ files[i - 1].first = pos - curFrames
      BY <1>4, <3>1
    <3>3. ~lost => pos - curFrames = Written(segments)
      BY <1>3, <1>5
    <3> QED  BY <1>6, <1>7, <1>9, <1>11, <2>1, <3>1, <3>2, <3>3
  <2>2. CASE i # segIndex + 1
    <3>1. i \in 1 .. Len(segments) /\ i - 1 \in 0 .. Len(segments)
      BY <1>3, <2>2
    <3>2. segments'[i] = segments[i] /\ Written(SubSeq(segments', 1, i - 1)) = Written(SubSeq(segments, 1, i - 1))
      BY <1>7, <3>1
    <3>3. files[i - 1] # None /\ files[i - 1].whole
      BY <1>2, <1>3, <3>1 DEF WriterOK, Whole
    <3> QED  BY <1>3, <3>1, <3>2, <3>3 DEF Fits
  <2> QED  BY <2>1, <2>2
<1>14. ListOK'
  <2>1. \A i \in 1 .. Len(segments') :
           /\ segments'[i].file = i - 1
           /\ files'[i - 1] # None =>
                 /\ files'[i - 1].by = run /\ files'[i - 1].count = segments'[i].frames
                 /\ ~lost' => files'[i - 1].first = Written(SubSeq(segments', 1, i - 1))
    BY <1>1, <1>7, <1>13
  <2>2. Written(segments') <= Total
    BY <1>3, <1>5, <1>7, Sizes
  <2> QED  BY <1>10, <2>1, <2>2 DEF ListOK, Fits
<1>15. WriterOK'
  <2>1. Whole(segIndex)'
    BY <1>1, <1>13 DEF Whole
  <2>2. /\ Written(segments') + 0 <= pos
        /\ ~lost => pos = Written(segments') + 0
    BY <1>3, <1>5, <1>7
  <2>3. segIndex' = Len(segments')
    BY <1>1, <1>7
  <2> QED  BY <1>1, <1>3, <2>1, <2>2, <2>3 DEF WriterOK
<1>16. FileOK'
  BY <1>1, <1>2, <1>4, Sizes DEF FileOK
<1>17. MergeOK'
  BY <1>1, <1>2, <1>3, Sizes DEF MergeOK
<1> QED  BY <1>12, <1>14, <1>15, <1>16, <1>17 DEF Inv

LEMMA NextOK == Inv /\ [Next]_vars => Inv'
<1> SUFFICES ASSUME Inv, [Next]_vars PROVE Inv'  OBVIOUS
<1>i. TypeOK /\ ListOK /\ WriterOK /\ FileOK /\ MergeOK
  BY DEF Inv
<1>f. files \in [Indices -> Content \cup {None}]
  BY <1>i DEF TypeOK
<1>ends. ASSUME Over, UNCHANGED <<lost, runs, manifest>>, files' \in [Indices -> Content \cup {None}],
                target' \in {None, Broken} \/ target' \in Seq(Content), ListOK'
         PROVE  Inv'
  BY <1>i, <1>ends, EndsRun
<1>gone. ASSUME NEW j, files' = [files EXCEPT ![j] = None], UNCHANGED manifest, lost => lost'
         PROVE  files' \in [Indices -> Content \cup {None}] /\ ListOK'
  <2>1. files' \in [Indices -> Content \cup {None}]
    BY <1>f, <1>gone
  <2>2. \A k \in Indices : files'[k] # None => files'[k] = files[k]
    BY <1>f, <1>gone
  <2>3. manifest # None => \A i \in 1 .. Len(manifest.segs) : i - 1 \in Indices
    BY <1>i, ListTypes
  <2>4. ListOK'
    BY <1>i, <1>gone, <2>2, <2>3, ListKept
  <2> QED  BY <2>1, <2>4
<1>1. ASSUME NEW s \in Settings, Start(s) PROVE Inv'
  BY <1>1, StartOK
<1>2. CASE WriteFrame
  BY <1>2, WriteOK
<1>3. CASE CommitSegment
  BY <1>3, CommitOK
<1>4. CASE FlushCheckpoint \/ StopRender \/ EndOfRender
  <2>1. /\ UNCHANGED <<files, manifest, target, run, resumed, segments, segIndex, open, curFrames, pos, lost, runs>>
        /\ pc \in {"write", "trailer", "commit", "merge"}
        /\ processing' \in BOOLEAN /\ keep' \in BOOLEAN /\ closing' \in BOOLEAN
        /\ \/ pc' = pc
           \/ pc = "write" /\ open /\ pc' = "trailer"
           \/ pc = "write" /\ ~open /\ pc' = "merge"
    <3>1. closing \in BOOLEAN /\ keep \in BOOLEAN /\ processing \in BOOLEAN
      BY <1>i DEF TypeOK
    <3>2. CASE FlushCheckpoint
      BY <3>1, <3>2 DEF FlushCheckpoint, diskVars, memVars, optVars
    <3>3. CASE StopRender
      BY <3>1, <3>3 DEF StopRender, diskVars, optVars
    <3>4. CASE EndOfRender
      BY <3>1, <3>4 DEF EndOfRender, Rendered, diskVars, optVars
    <3> QED  BY <1>4, <3>2, <3>3, <3>4
  <2>2. TypeOK'
    BY <1>i, <2>1 DEF TypeOK
  <2>3. ListOK'
    BY <1>i, <2>1, SameFiles
  <2>4. WriterOK'
    BY <1>i, <2>1 DEF WriterOK, Work, Whole
  <2>5. FileOK'
    <3>1. curFrames \in Nat
      BY <1>i, Sizes DEF TypeOK
    <3> QED  BY <1>i, <2>1, <3>1 DEF FileOK
  <2>6. MergeOK'
    BY <1>i, <2>1 DEF MergeOK
  <2> QED  BY <2>2, <2>3, <2>4, <2>5, <2>6 DEF Inv
<1>5. CASE ParityFails \/ NothingToMerge \/ NoSpace \/ Crash
  <2>1. Over /\ UNCHANGED <<files, manifest, target, lost, runs>>
    BY <1>5 DEF ParityFails, NothingToMerge, NoSpace, Crash, diskVars
  <2>2. ListOK'
    BY <1>i, <2>1, SameFiles
  <2> QED  BY <1>ends, <1>i, <1>f, <2>1, <2>2 DEF TypeOK
<1>6. CASE Abort \/ TrailerFails
  <2>1. /\ Over /\ UNCHANGED <<manifest, target, lost, runs>>
        /\ files' = [files EXCEPT ![segIndex] = None] \/ files' = files
    BY <1>6 DEF Abort, TrailerFails
  <2>2. files' \in [Indices -> Content \cup {None}] /\ ListOK'
    <3>1. CASE files' = files
      BY <1>f, <1>i, <2>1, <3>1, SameFiles
    <3>2. CASE files' = [files EXCEPT ![segIndex] = None]
      BY <1>gone, <2>1, <3>2
    <3> QED  BY <2>1, <3>1, <3>2
  <2> QED  BY <1>ends, <1>i, <2>1, <2>2 DEF TypeOK
<1>7. CASE PowerLoss
  <2>1. /\ Over /\ UNCHANGED <<manifest, target, lost, runs>>
        /\ \E i \in Indices : files[i] # None /\ files' = [files EXCEPT ![i].whole = FALSE]
    BY <1>7 DEF PowerLoss
  <2>2. PICK j \in Indices : files[j] # None /\ files' = [files EXCEPT ![j].whole = FALSE]
    BY <2>1
  <2>3. files[j] \in Content
    BY <1>f, <2>2
  <2>4. /\ files' \in [Indices -> Content \cup {None}]
        /\ \A k \in Indices : files'[k] # None =>
              /\ files[k] # None /\ files'[k].by = files[k].by
              /\ files'[k].count = files[k].count /\ files'[k].first = files[k].first
    BY <1>f, <2>2, <2>3 DEF Content
  <2>5. manifest # None => \A i \in 1 .. Len(manifest.segs) : i - 1 \in Indices
    BY <1>i, ListTypes
  <2>6. ListOK'
    BY <1>i, <2>1, <2>4, <2>5, ListKept
  <2> QED  BY <1>ends, <1>i, <2>1, <2>4, <2>6 DEF TypeOK
<1>8. CASE Trailer
  <2>1. /\ pc = "trailer" /\ files' = [files EXCEPT ![segIndex].whole = TRUE] /\ open' = FALSE /\ pc' = "commit"
        /\ UNCHANGED <<manifest, target, run, resumed, segments, segIndex, curFrames, pos, processing, closing, keep, lost, runs>>
    BY <1>8 DEF Trailer, optVars
  <2>2. /\ pc \in Work /\ files[segIndex] \in Content /\ files[segIndex].by = run
        /\ files[segIndex].first = pos - curFrames /\ files[segIndex].count = curFrames /\ curFrames > 0
    BY <1>i, <2>1 DEF FileOK, Work
  <2>3. PICK new \in Content : /\ files' = [files EXCEPT ![segIndex] = new] /\ new.by = run
                               /\ new.first = pos - curFrames /\ new.count = curFrames /\ new.whole
    <3> DEFINE old == files[segIndex]
               new == [old EXCEPT !.whole = TRUE]
    <3>1. files' = [files EXCEPT ![segIndex] = new]
      BY <2>1
    <3>2. old \in Content /\ old.by = run /\ old.first = pos - curFrames /\ old.count = curFrames
      BY <2>2
    <3> HIDE DEF old
    <3>3. new \in Content /\ new.by = old.by /\ new.first = old.first /\ new.count = old.count /\ new.whole
      BY <3>2 DEF Content
    <3> HIDE DEF new
    <3> QED  BY <3>1, <3>2, <3>3
  <2>4. /\ segIndex \in Nat /\ segIndex <= Written(segments) /\ Written(segments) \in Nat
        /\ Written(segments) + curFrames <= pos /\ pos \in 0 .. Total /\ curFrames \in 0 .. Chunk
    BY <1>i, <2>2, WriterTypes
  <2>5. segIndex \in Indices
    BY <2>2, <2>4, Sizes DEF Indices
  <2>6. files' \in [Indices -> Content \cup {None}] /\ files'[segIndex] = new
    BY <1>f, <2>3, <2>5
  <2>7. ListOK' /\ Whole(segIndex)'
    BY <2>1, <2>2, <2>3, OpenFile
  <2>8. TypeOK'
    BY <1>i, <2>1, <2>6 DEF TypeOK
  <2>9. WriterOK'
    BY <1>i, <2>1, <2>2, <2>7 DEF WriterOK
  <2>10. FileOK'
    BY <2>1, <2>2, <2>3, <2>6 DEF FileOK
  <2>11. MergeOK'
    BY <1>i, <2>1 DEF MergeOK
  <2> QED  BY <2>7, <2>8, <2>9, <2>10, <2>11 DEF Inv
<1>9. CASE DropEmpty
  <2>1. /\ pc = "trailer" /\ files' = [files EXCEPT ![segIndex] = None] /\ open' = FALSE
        /\ curFrames' = 0 /\ lost' = TRUE /\ pc' \in {"write", "merge"}
        /\ UNCHANGED <<manifest, target, run, resumed, segments, segIndex, pos, processing, closing, keep, runs>>
    BY <1>9 DEF DropEmpty, Continue, optVars
  <2>2. pc \in Work /\ curFrames > 0
    BY <1>i, <2>1 DEF FileOK, Work
  <2>3. files' \in [Indices -> Content \cup {None}]
    BY <1>gone, <2>1
  <2>4. ListOK' /\ Whole(segIndex)'
    BY <2>1, <2>2, OpenFile
  <2>5. TypeOK'
    <3>1. 0 \in 0 .. Chunk
      BY Sizes
    <3> QED  BY <1>i, <2>1, <2>3, <3>1 DEF TypeOK
  <2>6. WriterOK'
    <3>1. /\ Written(segments) \in Nat /\ Written(segments) + curFrames <= pos
          /\ pos \in 0 .. Total /\ curFrames \in 0 .. Chunk
      BY <1>i, <2>2, WriterTypes
    <3>2. Written(segments) + 0 <= pos
      BY <2>2, <3>1, Sizes
    <3> QED  BY <1>i, <2>1, <2>2, <2>4, <3>2 DEF WriterOK
  <2>7. FileOK' /\ MergeOK'
    BY <1>i, <2>1, Sizes DEF FileOK, MergeOK
  <2> QED  BY <2>4, <2>5, <2>6, <2>7 DEF Inv
<1>10. CASE BeginConcat
  <2>1. /\ pc = "merge" /\ segments # <<>> /\ Parity /\ target' = Broken /\ pc' = "concat"
        /\ UNCHANGED <<files, manifest, run, resumed, segments, segIndex, open, curFrames, pos, processing, closing, keep, lost, runs>>
    BY <1>10 DEF BeginConcat, memVars, optVars
  <2>2. TypeOK'
    BY <1>i, <2>1 DEF TypeOK
  <2>3. ListOK'
    BY <1>i, <2>1, SameFiles
  <2>4. WriterOK'
    BY <1>i, <2>1 DEF WriterOK, Work, Whole
  <2>5. Parity'
    BY <2>1 DEF Parity, TotalEncoded
  <2>6. FileOK' /\ MergeOK'
    BY <1>i, <2>1, <2>5 DEF FileOK, MergeOK
  <2> QED  BY <2>2, <2>3, <2>4, <2>6 DEF Inv
<1>11. ASSUME pc \in {"merge", "concat"}, segments # <<>>, Parity, target' = Parts, pc' = "cleanup",
              files' \in [Indices -> Content \cup {None}], ListOK',
              UNCHANGED <<manifest, run, resumed, segments, segIndex, open, curFrames, pos, processing, closing, keep, lost, runs>>
       PROVE  Inv'
  <2>1. Parts \in Seq(Content) /\ (~lost => IsVideo(Parts, run, pos))
    BY <1>11, PartsAreVideo
  <2>2. TypeOK'
    BY <1>i, <1>11, <2>1 DEF TypeOK
  <2>3. WriterOK'
    BY <1>11 DEF WriterOK, Work
  <2>4. /\ run \in Settings /\ manifest # None /\ manifest.by = run /\ manifest.segs = segments
        /\ Written(segments) \in Nat /\ Written(segments) + curFrames <= pos
        /\ (~lost => pos = Written(segments) + curFrames) /\ curFrames \in 0 .. Chunk /\ pos \in 0 .. Total
    BY <1>11, WriterTypes DEF Work
  <2>5. curFrames = 0
    BY <1>i, <1>11 DEF FileOK
  <2>6. Written(segments) <= pos /\ (~lost /\ processing => pos = Total)
    BY <1>11, <2>4, <2>5, Sizes DEF Parity, TotalEncoded
  <2>7. MergeOK'
    <3>1. ~lost' => IsVideo(target', run', pos')
      BY <1>11, <2>1
    <3> QED  BY <1>11, <2>4, <2>6, <3>1, Sizes DEF MergeOK
  <2>8. FileOK'
    BY <1>i, <1>11 DEF FileOK
  <2> QED  BY <1>11, <2>2, <2>3, <2>7, <2>8 DEF Inv
<1>12. CASE Promote
  <2>1. /\ pc = "merge" /\ segments # <<>> /\ Parity /\ target' = Parts /\ pc' = "cleanup"
        /\ files' = [files EXCEPT ![segments[1].file] = None]
        /\ UNCHANGED <<manifest, run, resumed, segments, segIndex, open, curFrames, pos, processing, closing, keep, lost, runs>>
    BY <1>12 DEF Promote, memVars, optVars
  <2>2. files' \in [Indices -> Content \cup {None}] /\ ListOK'
    BY <1>gone, <2>1
  <2> QED  BY <1>11, <2>1, <2>2
<1>13. CASE EndConcat
  <2>1. pc = "concat" /\ target' = Parts /\ UNCHANGED <<files, manifest, lost, runs>>
    BY <1>13 DEF EndConcat
  <2>2. segments # <<>> /\ Parity
    BY <1>i, <2>1 DEF MergeOK
  <2>3. ListOK' /\ files' \in [Indices -> Content \cup {None}]
    BY <1>i, <1>f, <2>1, SameFiles
  <2>4. CASE KeepsParts
    <3>1. Over
      BY <1>13, <2>4 DEF EndConcat
    <3>2. Parts \in Seq(Content)
      BY <2>1, <2>2, PartsAreVideo
    <3> QED  BY <1>ends, <2>1, <2>3, <3>1, <3>2
  <2>5. CASE ~KeepsParts
    <3>1. pc' = "cleanup" /\ UNCHANGED <<run, resumed, segments, segIndex, open, curFrames, pos, processing, closing, keep>>
      BY <1>13, <2>5 DEF EndConcat, memVars, optVars
    <3> QED  BY <1>11, <2>1, <2>2, <2>3, <3>1
  <2> QED  BY <2>4, <2>5
<1>14. CASE MergeFails
  <2>1. Over /\ target' = None /\ UNCHANGED <<files, manifest, lost, runs>>
    BY <1>14 DEF MergeFails
  <2>2. ListOK'
    BY <1>i, <2>1, SameFiles
  <2> QED  BY <1>ends, <1>f, <2>1, <2>2
<1>15. CASE CleanupSegment
  <2>1. /\ pc = "cleanup" /\ segments # <<>> /\ pc' = pc /\ segments' = Tail(segments)
        /\ files' = [files EXCEPT ![Head(segments).file] = None]
        /\ UNCHANGED <<manifest, target, run, resumed, segIndex, open, curFrames, pos, processing, closing, keep, lost, runs>>
    BY <1>15 DEF CleanupSegment, optVars
  <2>2. files' \in [Indices -> Content \cup {None}] /\ ListOK'
    BY <1>gone, <2>1
  <2>3. segments' \in Seq(Entry)
    BY <1>i, <2>1, HeadTailProperties DEF TypeOK
  <2>4. TypeOK'
    BY <1>i, <2>1, <2>2, <2>3 DEF TypeOK
  <2>5. WriterOK' /\ FileOK' /\ MergeOK'
    BY <1>i, <2>1 DEF WriterOK, Work, FileOK, MergeOK
  <2> QED  BY <2>2, <2>4, <2>5 DEF Inv
<1>16. CASE CleanupManifest
  <2>1. Over /\ manifest' = None /\ UNCHANGED <<files, target, lost, runs>>
    BY <1>16 DEF CleanupManifest
  <2>2. ListOK'
    BY <2>1 DEF ListOK
  <2>3. target' \in {None, Broken} \/ target' \in Seq(Content)
    BY <1>i, <2>1 DEF TypeOK
  <2> QED  BY <1>f, <1>i, <2>1, <2>2, <2>3, EndsRun
<1>17. CASE UNCHANGED vars
  <2>1. UNCHANGED <<files, manifest, target, run, resumed, segments, segIndex, open, curFrames, pos, processing, closing, keep, pc, lost, runs>>
    BY <1>17 DEF vars, diskVars, memVars, optVars
  <2>2. TypeOK'
    BY <1>i, <2>1 DEF TypeOK
  <2>3. ListOK'
    BY <1>i, <2>1, SameFiles
  <2>4. WriterOK' /\ FileOK' /\ MergeOK'
    BY <1>i, <2>1 DEF WriterOK, Whole, FileOK, MergeOK, Parity, TotalEncoded
  <2> QED  BY <2>2, <2>3, <2>4 DEF Inv
<1> QED
  BY <1>1, <1>2, <1>3, <1>4, <1>5, <1>6, <1>7, <1>8, <1>9, <1>10, <1>12, <1>13, <1>14, <1>15, <1>16, <1>17
  DEF Next

\* The files are the files the manifest lists, and the listed ones hold what it says.
THEOREM FilesTrue == Spec => []FilesAccounted
<1>1. ASSUME Inv PROVE FilesAccounted
  <2>1. TypeOK /\ ListOK
    BY <1>1 DEF Inv
  <2>2. ASSUME manifest # None, ~lost, NEW i \in DOMAIN manifest.segs, Plays(manifest.segs[i])
        PROVE  files[manifest.segs[i].file] =
                  [by |-> manifest.by, count |-> manifest.segs[i].frames, whole |-> TRUE,
                   first |-> Written(SubSeq(manifest.segs, 1, i - 1))]
    <3>1. i \in 1 .. Len(manifest.segs) /\ i - 1 \in Indices
      BY <2>1, <2>2, ListTypes, LenProperties
    <3>2. manifest.segs[i].file = i - 1
      BY <2>1, <2>2, <3>1 DEF ListOK, Fits
    <3>3. files[i - 1] # None /\ files[i - 1].whole
      BY <2>2, <3>2 DEF Plays
    <3>4. /\ files[i - 1].by = manifest.by /\ files[i - 1].count = manifest.segs[i].frames
          /\ files[i - 1].first = Written(SubSeq(manifest.segs, 1, i - 1))
      BY <2>1, <2>2, <3>1, <3>3 DEF ListOK, Fits
    <3>5. files[i - 1] \in Content
      BY <2>1, <3>1, <3>3 DEF TypeOK
    <3> DEFINE c == files[i - 1]
    <3>6. c = [by |-> c.by, first |-> c.first, count |-> c.count, whole |-> c.whole] /\ c.whole = TRUE
      BY <3>3, <3>5 DEF Content
    <3> QED  BY <3>2, <3>4, <3>6
  <2>3. ManifestIsTrue
    BY <2>2 DEF ManifestIsTrue
  <2> QED  BY <2>1, <2>3 DEF FilesAccounted
<1> QED  BY InitOK, NextOK, <1>1, PTL DEF Spec

\* The parts are removed only once the video holds every frame that was encoded, in order.
THEOREM WholeVideo == Spec => []VideoInOrder
<1>1. Inv => VideoInOrder
  BY DEF Inv, MergeOK, VideoInOrder
<1> QED  BY InitOK, NextOK, <1>1, PTL DEF Spec

-----------------------------------------------------------------------------
(* Committed frames survive.                                                *)

\* n is how many of the listed segments a run would resume from.
ResumesFrom(n) ==
    /\ n \in 0 .. Len(manifest.segs) /\ Whole(n)
    /\ n < Len(manifest.segs) => ~(files[n] # None /\ files[n].whole)
    /\ Resumable = Written(SubSeq(manifest.segs, 1, n))

LEMMA ResumableIs ==
    Inv => /\ Resumable \in Nat
           /\ manifest = None => Resumable = 0
           /\ manifest # None => \E n : ResumesFrom(n)
<1> SUFFICES ASSUME Inv
             PROVE  /\ Resumable \in Nat
                    /\ manifest = None => Resumable = 0
                    /\ manifest # None => \E n : ResumesFrom(n)
  OBVIOUS
<1>1. CASE manifest = None
  BY <1>1 DEF Resumable
<1>2. CASE manifest # None
  <2> DEFINE segs == manifest.segs
             L == Load(manifest.by)
             n == Len(L)
  <2>1. manifest.by \in Settings /\ TypeOK /\ ListOK
    BY <1>2 DEF Inv, TypeOK
  <2>2. Loaded(L, manifest.by) /\ Resumable = Written(L)
    BY <1>2, <2>1, LoadIs DEF Resumable
  <2>3. segs \in Seq(Entry) /\ Len(segs) \in Nat
    BY <1>2, <2>1, ListTypes
  <2> HIDE DEF L
  <2>4. /\ L \in Seq(Entry) /\ Whole(n) /\ n <= Len(segs)
        /\ \A i \in 1 .. n : L[i].frames = segs[i].frames
        /\ n < Len(segs) => ~Plays(segs[n + 1])
    BY <1>2, <2>2 DEF Loaded
  <2>5. n \in Nat /\ SubSeq(L, 1, n) = L /\ Written(L) \in Nat
    BY <2>4, FramesNatural, WrittenLaws
  <2> HIDE DEF segs
  <2>6. Written(SubSeq(L, 1, n)) = Written(SubSeq(segs, 1, n))
    BY <2>3, <2>4, <2>5, WrittenSame
  <2>7. Resumable = Written(SubSeq(segs, 1, n))
    <3>1. Written(SubSeq(L, 1, n)) = Written(L)
      BY <2>5
    <3> QED  BY <2>2, <2>6, <3>1
  <2>8. n < Len(segs) => ~(files[n] # None /\ files[n].whole)
    <3>1. ASSUME n < Len(segs) PROVE ~(files[n] # None /\ files[n].whole)
      <4>1. n + 1 \in 1 .. Len(segs) /\ (n + 1) - 1 = n
        BY <2>3, <2>5, <3>1
      <4>2. segs[n + 1].file = n
        BY <1>2, <2>1, <4>1 DEF ListOK, Fits, segs
      <4> QED  BY <2>4, <3>1, <4>2 DEF Plays
    <3> QED  BY <3>1
  <2> HIDE DEF n
  <2>9. ResumesFrom(n)
    BY <2>3, <2>4, <2>5, <2>7, <2>8 DEF ResumesFrom, segs
  <2>10. Resumable \in Nat
    BY <2>2, <2>5
  <2> QED  BY <1>2, <2>9, <2>10
<1> QED  BY <1>1, <1>2

LEMMA ResumableSome == Inv => (manifest # None => \E k : ResumesFrom(k))
BY ResumableIs

LEMMA ResumableNat == Inv => Resumable \in Nat
BY ResumableIs

\* If the segments a run would resume from stay listed and stay whole, none of their frames goes.
LEMMA Survives ==
    ASSUME Inv, Inv', manifest # None, manifest' # None, NEW n, ResumesFrom(n),
           n <= Len(manifest'.segs),
           \A i \in 1 .. n : /\ manifest'.segs[i].frames = manifest.segs[i].frames
                             /\ files'[i - 1] # None /\ files'[i - 1].whole
    PROVE  Resumable' >= Resumable
<1> DEFINE old == manifest.segs
           new == manifest'.segs
<1>1. old \in Seq(Entry) /\ new \in Seq(Entry)
  BY DEF Inv, TypeOK
<1>2. (manifest # None => \E k : ResumesFrom(k))'
  <2>1. Inv' => (manifest # None => \E k : ResumesFrom(k))'
    BY ResumableSome, PTL
  <2> QED  BY <2>1
<1>3. PICK m : ResumesFrom(m)'
  BY <1>2
<1>4. /\ m \in 0 .. Len(new) /\ (m < Len(new) => ~(files'[m] # None /\ files'[m].whole))
      /\ Resumable' = Written(SubSeq(new, 1, m))
  BY <1>3 DEF ResumesFrom
<1>5. n \in 0 .. Len(old) /\ Resumable = Written(SubSeq(old, 1, n))
  BY DEF ResumesFrom
<1> HIDE DEF old, new
<1>6. Len(old) \in Nat /\ Len(new) \in Nat /\ n \in 0 .. Len(new)
  BY <1>1, <1>5, FramesNatural DEF new
<1>7. n <= m
  <2>1. ASSUME m < n PROVE FALSE
    <3>1. m + 1 \in 1 .. n /\ (m + 1) - 1 = m /\ m < Len(new)
      BY <1>4, <1>6, <2>1
    <3> QED  BY <1>4, <3>1
  <2> QED  BY <1>4, <1>6, <2>1
<1>8. Written(SubSeq(new, 1, n)) <= Written(SubSeq(new, 1, m))
  BY <1>1, <1>4, <1>6, <1>7, WrittenLaws
<1>9. Written(SubSeq(old, 1, n)) = Written(SubSeq(new, 1, n))
  <2>1. n \in Nat /\ n <= Len(old) /\ n <= Len(new) /\ \A i \in 1 .. n : old[i].frames = new[i].frames
    BY <1>5, <1>6 DEF old, new
  <2> QED  BY <1>1, <2>1, WrittenSame
<1> DEFINE a == Written(SubSeq(old, 1, n))
           b == Written(SubSeq(new, 1, n))
           c == Written(SubSeq(new, 1, m))
<1>10. a = b /\ b <= c /\ a \in Nat /\ c \in Nat /\ Resumable' = c /\ Resumable = a
  BY <1>1, <1>4, <1>5, <1>6, <1>8, <1>9, WrittenLaws
<1> HIDE DEF a, b, c
<1> QED  BY <1>10

LEMMA KeepsStep == Inv /\ Inv' /\ [Next]_vars => [KeepsCommitted]_vars
<1> SUFFICES ASSUME Inv, Inv', Next PROVE KeepsCommitted
  BY DEF vars
<1> USE DEF KeepsCommitted
<1>i. TypeOK /\ ListOK /\ WriterOK /\ FileOK /\ MergeOK
  BY DEF Inv
<1>p. Resumable' \in Nat
  <2>1. Inv' => (Resumable \in Nat)'
    BY ResumableNat, PTL
  <2> QED  BY <2>1
<1>0. CASE manifest = None
  <2>1. Resumable = 0
    BY <1>0, ResumableIs
  <2> QED  BY <1>p, <2>1
<1> SUFFICES ASSUME manifest # None, ~lost PROVE KeepsCommitted
  BY <1>0
<1>n. PICK n : ResumesFrom(n)
  BY ResumableIs
<1>t. /\ manifest.segs \in Seq(Entry) /\ Len(manifest.segs) \in Nat /\ n \in 0 .. Len(manifest.segs)
      /\ Written(manifest.segs) \in 0 .. Total /\ Whole(n)
      /\ \A i \in 1 .. Len(manifest.segs) : i - 1 \in Indices
  BY <1>i, <1>n, ListTypes DEF ResumesFrom
<1>most. Resumable \in Nat /\ Resumable <= Written(manifest.segs)
  <2> DEFINE segs == manifest.segs
  <2>1. Resumable = Written(SubSeq(segs, 1, n))
    BY <1>n DEF ResumesFrom
  <2>2. segs \in Seq(Entry) /\ n \in 0 .. Len(segs) /\ Len(segs) \in 0 .. Len(segs) /\ n <= Len(segs)
    BY <1>t
  <2> HIDE DEF segs
  <2>3. /\ Written(SubSeq(segs, 1, n)) <= Written(SubSeq(segs, 1, Len(segs)))
        /\ SubSeq(segs, 1, Len(segs)) = segs /\ Written(SubSeq(segs, 1, n)) \in Nat
    BY <2>2, WrittenLaws
  <2>4. Written(SubSeq(segs, 1, Len(segs))) = Written(segs)
    BY <2>3
  <2> QED  BY <2>1, <2>3, <2>4 DEF segs
<1>kept. ASSUME manifest' = manifest, \A i \in 1 .. n : files'[i - 1] = files[i - 1]
         PROVE  Resumable' >= Resumable
  BY <1>kept, <1>n, <1>t, Survives DEF Whole
<1>open. ASSUME pc \in Work, NEW c, files' = [files EXCEPT ![segIndex] = c], manifest' = manifest
         PROVE  Resumable' >= Resumable
  <2>1. \A i \in 1 .. Len(segments) : files'[i - 1] = files[i - 1]
    BY <1>open, OpenFile
  <2>2. manifest.segs = segments
    BY <1>open, WriterTypes
  <2>3. \A i \in 1 .. n : i \in 1 .. Len(segments)
    BY <1>t, <2>2
  <2> QED  BY <1>kept, <1>open, <2>1, <2>3
<1>holds. ASSUME IsVideo(target', manifest.by, pos), Written(manifest.segs) <= pos
          PROVE  Holds(target', manifest.by, Resumable)
  <2>1. pos \in 0 .. Total
    BY <1>i DEF TypeOK
  <2>2. pos \in Resumable .. Total
    BY <1>holds, <1>most, <1>t, <2>1, Sizes
  <2> QED  BY <1>holds, <2>2 DEF Holds
<1>1. ASSUME NEW s \in Settings, Start(s) PROVE KeepsCommitted
  <2>1. run = None /\ run' = s /\ s # None
    BY <1>1, <1>i, Sizes DEF Start, MergeOK
  <2>2. CASE s # manifest.by
    BY <2>1, <2>2
  <2>3. CASE s = manifest.by
    <3>1. PICK L : L = Load(s)
      OBVIOUS
    <3>2. Loaded(L, s)
      BY <1>i, <3>1, LoadIs
    <3>3. manifest' = [by |-> s, segs |-> L] /\ \A i \in 1 .. Len(L) : files'[i - 1] = files[i - 1]
      BY <1>1, <3>1, StartFiles DEF Start
    <3>4. /\ L \in Seq(Entry) /\ Whole(Len(L)) /\ Len(L) <= Len(manifest.segs)
          /\ \A i \in 1 .. Len(L) : L[i].frames = manifest.segs[i].frames
          /\ Len(L) < Len(manifest.segs) => ~Plays(manifest.segs[Len(L) + 1])
      BY <2>3, <3>2 DEF Loaded
    <3>5. Len(L) \in Nat
      BY <3>4, FramesNatural
    <3>6. n <= Len(L)
      <4>1. ASSUME Len(L) < n PROVE FALSE
        <5>1. /\ Len(L) < Len(manifest.segs) /\ Len(L) + 1 \in 1 .. Len(manifest.segs)
              /\ Len(L) + 1 \in 1 .. n /\ (Len(L) + 1) - 1 = Len(L)
          BY <1>t, <3>5, <4>1
        <5>2. files[Len(L)] # None /\ files[Len(L)].whole
          BY <1>t, <5>1 DEF Whole
        <5>3. manifest.segs[Len(L) + 1].file = Len(L)
          BY <1>i, <5>1 DEF ListOK, Fits
        <5> QED  BY <3>4, <5>1, <5>2, <5>3 DEF Plays
      <4> QED  BY <1>t, <3>5, <4>1
    <3>7. manifest' # None /\ manifest'.segs = L
      <4>1. manifest' \in [by : Settings, segs : Seq(Entry)]
        BY <3>3, <3>4
      <4> QED  BY <3>3, <4>1, NoneAssumption DEF NoneAssumption
    <3>8. \A i \in 1 .. n : /\ manifest'.segs[i].frames = manifest.segs[i].frames
                            /\ files'[i - 1] # None /\ files'[i - 1].whole
      <4>1. \A i \in 1 .. n : i \in 1 .. Len(L)
        BY <1>t, <3>5, <3>6
      <4> QED  BY <1>t, <3>3, <3>4, <3>7, <4>1 DEF Whole
    <3> QED  BY <1>n, <3>6, <3>7, <3>8, Survives
  <2> QED  BY <2>2, <2>3
<1>2. CASE FlushCheckpoint \/ StopRender \/ EndOfRender \/ ParityFails \/ NothingToMerge \/ NoSpace \/ Crash
           \/ BeginConcat \/ EndConcat \/ MergeFails
  <2>1. UNCHANGED <<files, manifest>>
    BY <1>2 DEF FlushCheckpoint, StopRender, EndOfRender, ParityFails, NothingToMerge, NoSpace, Crash,
                BeginConcat, EndConcat, MergeFails, diskVars
  <2> QED  BY <1>kept, <2>1
<1>3. CASE WriteFrame \/ Trailer \/ DropEmpty \/ Abort \/ TrailerFails
  <2>1. pc \in Work /\ manifest' = manifest
    BY <1>3 DEF WriteFrame, Trailer, DropEmpty, Abort, TrailerFails, Work
  <2>2. files' = files \/ \E c : files' = [files EXCEPT ![segIndex] = c]
    <3>1. CASE WriteFrame
      <4>1. CASE open
        BY <3>1, <4>1 DEF WriteFrame
      <4>2. CASE ~open
        BY <3>1, <4>2 DEF WriteFrame
      <4> QED  BY <4>1, <4>2
    <3>2. CASE Trailer
      BY <3>2 DEF Trailer
    <3>3. CASE DropEmpty \/ Abort \/ TrailerFails
      BY <3>3 DEF DropEmpty, Abort, TrailerFails
    <3> QED  BY <1>3, <3>1, <3>2, <3>3
  <2> QED  BY <1>kept, <1>open, <2>1, <2>2
<1>4. CASE CommitSegment
  <2>1. PICK e : e = [file |-> segIndex, frames |-> curFrames, sha |-> TRUE]
    OBVIOUS
  <2>2. /\ pc = "commit" /\ segments' = Append(segments, e) /\ manifest' = [by |-> run, segs |-> segments']
        /\ UNCHANGED files
    BY <1>4, <2>1 DEF CommitSegment
  <2>3. manifest.segs = segments /\ segments \in Seq(Entry) /\ segments' \in Seq(Entry) /\ run \in Settings
    BY <2>2, WriterTypes DEF Work, Inv, TypeOK
  <2>4. manifest' # None /\ manifest'.segs = segments'
    <3>1. manifest' \in [by : Settings, segs : Seq(Entry)]
      BY <2>2, <2>3
    <3> QED  BY <2>2, <3>1, NoneAssumption DEF NoneAssumption
  <2>5. Len(segments') = Len(segments) + 1 /\ \A i \in 1 .. Len(segments) : segments'[i] = segments[i]
    BY <2>2, <2>3, AppendProperties
  <2>6. n <= Len(segments') /\ \A i \in 1 .. n : i \in 1 .. Len(segments)
    BY <1>t, <2>3, <2>5
  <2>7. \A i \in 1 .. n : /\ manifest'.segs[i].frames = manifest.segs[i].frames
                          /\ files'[i - 1] # None /\ files'[i - 1].whole
    BY <1>t, <2>2, <2>3, <2>4, <2>5, <2>6 DEF Whole
  <2> QED  BY <1>n, <2>4, <2>6, <2>7, Survives
<1>5. CASE Promote
  <2>1. pc = "merge" /\ segments # <<>> /\ target' = Parts
    BY <1>5 DEF Promote
  <2>2. IsVideo(Parts, run, pos)
    BY <2>1, PartsAreVideo
  <2>3. /\ manifest.by = run /\ manifest.segs = segments /\ Written(segments) \in Nat
        /\ Written(segments) + curFrames <= pos /\ curFrames \in 0 .. Chunk /\ pos \in 0 .. Total
    BY <2>1, WriterTypes DEF Work
  <2>4. Written(manifest.segs) <= pos
    BY <2>3, Sizes
  <2> QED  BY <1>holds, <2>1, <2>2, <2>3, <2>4
<1>6. CASE CleanupSegment \/ CleanupManifest
  <2>1. pc = "cleanup" /\ target' = target
    BY <1>6 DEF CleanupSegment, CleanupManifest
  <2>2. manifest.by = run /\ Written(manifest.segs) <= pos /\ IsVideo(target, run, pos)
    BY <1>i, <2>1 DEF MergeOK
  <2> QED  BY <1>holds, <2>1, <2>2
<1>7. CASE PowerLoss
  <2>1. PICK i \in Indices : files[i] # None /\ files[i].whole /\ files' = [files EXCEPT ![i].whole = FALSE]
    BY <1>7 DEF PowerLoss
  <2>2. files[i] \in Content /\ files \in [Indices -> Content \cup {None}]
    BY <1>i, <2>1 DEF TypeOK
  <2>3. files'[i] \in Content /\ ~files'[i].whole
    BY <2>1, <2>2 DEF Content
  <2>4. files'[i] # None /\ pc' = "off"
    BY <1>7, <2>3, NoneAssumption DEF NoneAssumption, PowerLoss, Over
  <2> QED  BY <2>1, <2>3, <2>4 DEF LosesData
<1> QED
  BY <1>1, <1>2, <1>3, <1>4, <1>5, <1>6, <1>7 DEF Next

\* What a crash would leave to resume never shrinks, but for the reasons the property names.
THEOREM FramesSurvive == Spec => CommittedSurvive
BY InitOK, NextOK, KeepsStep, PTL DEF Spec, CommittedSurvive

=============================================================================
