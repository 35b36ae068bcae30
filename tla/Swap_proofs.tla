----------------------------- MODULE Swap_proofs -----------------------------
(***************************************************************************)
(* What the swap processor promises: its batcher (SwapBatcher), for any    *)
(* number of workers, faces and tiles, any ceiling, and a stop at any      *)
(* moment; and its session pools (SwapFallback), for any number of workers *)
(* and of sessions, however often and by however many the fallback is      *)
(* taken.  The two share no state, and each has a specification of its own *)
(***************************************************************************)
EXTENDS SwapBatcher, SwapFallback, SequenceTheorems, FiniteSetTheorems, FunctionTheorems, TLAPS

-----------------------------------------------------------------------------
(* The batcher.                                                             *)

\* What a step relies on besides the types: there is a batch where one is run, each answer that
\* is due is its request's own or an error, and the queue is closed once it was drained.
Inv ==
    /\ TypeOK
    /\ maxBatch \in 1 .. Ceiling
    /\ thread.at \in {"guard", "run"} => thread.batch # <<>>
    /\ thread.at = "deliver" => thread.due # <<>>
    /\ Len(thread.batch) <= Ceiling
    /\ \A i \in DOMAIN thread.due : thread.due[i][2] \in {thread.due[i][1], Failed}
    /\ owner.at # "rendering" => stopped
    /\ owner.at = "leftover run" => owner.left # <<>>
    /\ AnswersMatch
    /\ NothingLeftBehind

-----------------------------------------------------------------------------
LEMMA RequestOf ==
    ASSUME NEW w \in Workers, NEW n, NEW t
    PROVE  <<w, n, t>> \in Requests <=> n \in 1 .. Rounds[w] /\ t \in 1 .. Tiles
BY DEF Requests

\* The governor's two choices are steps of its list.
LEMMA GovernorSteps ==
    ASSUME maxBatch \in Nat
    PROVE  /\ LET lower == {s \in BatchSteps : s < maxBatch} IN lower # {} => Max(lower) \in Nat
           /\ LET higher == {s \in BatchSteps : s > maxBatch} IN higher # {} => Min(higher) \in Nat
<1> DEFINE lower == {s \in BatchSteps : s < maxBatch}
           higher == {s \in BatchSteps : s > maxBatch}
<1>1. lower # {} => \E x \in lower : \A y \in lower : x >= y
  BY DEF BatchSteps
<1>2. higher # {} => \E x \in higher : \A y \in higher : x <= y
  BY DEF BatchSteps
<1>3. lower \subseteq Nat /\ higher \subseteq Nat
  BY DEF BatchSteps
<1> QED  BY <1>1, <1>2, <1>3 DEF Max, Min

LEMMA InitInv == Init => Inv
<1> SUFFICES ASSUME Init PROVE Inv  OBVIOUS
<1> USE SizesAssumption DEF Init
<1>1. \A w \in Workers : Current(w) \in Requests
  BY RequestOf DEF Current
<1>2. ans \in [Requests -> Answers]
  BY DEF Answers
<1>3. workers \in [Workers -> Places]
  BY DEF Places
<1>4. maxBatch \in Nat /\ queue \in Seq(Requests)
  OBVIOUS
<1>5. thread \in Threads /\ owner \in Stops
  BY DEF Threads, Stops
<1>6. TypeOK
  BY <1>1, <1>2, <1>3, <1>4, <1>5 DEF TypeOK
<1> QED  BY <1>6 DEF Inv, AnswersMatch, NothingLeftBehind

\* A worker stays on a face and a tile it has.
LEMMA WorkerMoves ==
    ASSUME TypeOK, NEW w \in Workers
    PROVE  /\ \A at \in {"submit", "inline", "inline run", "wait"}, t \in 1 .. Tiles :
                 Go(w, at, t) => /\ workers' \in [Workers -> Places]
                                 /\ \A v \in Workers : Current(v)' \in Requests
           /\ NextRound(w) => /\ workers' \in [Workers -> Places]
                              /\ \A v \in Workers : Current(v)' \in Requests
           /\ Handed(w) => \E at \in {"submit", "wait"}, t \in 1 .. Tiles : Go(w, at, t)
<1> USE SizesAssumption
<1>1. \A v \in Workers : workers[v].round \in 1 .. Rounds[v] /\ workers[v].tile \in 1 .. Tiles
  BY RequestOf DEF TypeOK, Current, Places
<1>2. ASSUME NEW at \in {"submit", "inline", "inline run", "wait"}, NEW t \in 1 .. Tiles, Go(w, at, t)
      PROVE  /\ workers' \in [Workers -> Places]
             /\ \A v \in Workers : Current(v)' \in Requests
  <2>1. \A v \in Workers : workers'[v].round \in 1 .. Rounds[v] /\ workers'[v].tile \in 1 .. Tiles
    BY <1>1, <1>2 DEF Go, TypeOK, Places
  <2>2. \A v \in Workers : Current(v)' \in Requests
    BY <2>1, RequestOf DEF Current
  <2> QED  BY <1>2, <2>2 DEF Go, TypeOK, Places
<1>3. ASSUME NextRound(w)
      PROVE  /\ workers' \in [Workers -> Places]
             /\ \A v \in Workers : Current(v)' \in Requests
  <2>1. PICK next \in Places :
           workers' = [workers EXCEPT ![w] = next] /\ next.round \in 1 .. Rounds[w]
    <3>1. CASE workers[w].round = Rounds[w]
      <4> DEFINE next == [workers[w] EXCEPT !.at = "done"]
      <4>1. workers' = [workers EXCEPT ![w] = next]
        BY <1>3, <3>1 DEF NextRound
      <4>2. next \in Places /\ next.round = workers[w].round
        BY DEF TypeOK, Places
      <4> HIDE DEF next
      <4> QED  BY <1>1, <4>1, <4>2
    <3>2. CASE workers[w].round # Rounds[w]
      <4> DEFINE next == [at |-> "next", round |-> workers[w].round + 1, tile |-> 1]
      <4>1. workers' = [workers EXCEPT ![w] = next]
        BY <1>3, <3>2 DEF NextRound
      <4>2. next \in Places /\ next.round \in 1 .. Rounds[w]
        BY <1>1, <3>2 DEF Places
      <4> HIDE DEF next
      <4> QED  BY <4>1, <4>2
    <3> QED  BY <3>1, <3>2
  <2>2. \A v \in Workers : workers'[v].round \in 1 .. Rounds[v] /\ workers'[v].tile \in 1 .. Tiles
    BY <1>1, <2>1 DEF TypeOK, Places
  <2>3. \A v \in Workers : Current(v)' \in Requests
    BY <2>2, RequestOf DEF Current
  <2> QED  BY <2>1, <2>3 DEF TypeOK
<1>4. Handed(w) => \E at \in {"submit", "wait"}, t \in 1 .. Tiles : Go(w, at, t)
  BY <1>1 DEF Handed
<1> QED  BY <1>2, <1>3, <1>4

\* A batch is a part of the queue, and what is cut off leaves the rest.
LEMMA CutQueue ==
    ASSUME TypeOK, maxBatch \in 1 .. Ceiling, queue # <<>>
    PROVE  /\ SubSeq(queue, 1, Cut) \in Seq(Requests) /\ SubSeq(queue, 1, Cut) # <<>>
           /\ Len(SubSeq(queue, 1, Cut)) <= Ceiling
           /\ SubSeq(queue, Cut + 1, Len(queue)) \in Seq(Requests)
<1>1. queue \in Seq(Requests) /\ Len(queue) \in Nat \ {0}
  BY EmptySeq DEF TypeOK
<1>2. Cut \in 1 .. Len(queue) /\ Cut <= Ceiling
  BY <1>1, SizesAssumption DEF Cut
<1>3. \A i \in 1 .. Len(queue) : queue[i] \in Requests
  BY <1>1, ElementOfSeq
<1>4. SubSeq(queue, 1, Cut) \in Seq(Requests) /\ Len(SubSeq(queue, 1, Cut)) = Cut
  BY <1>2, <1>3, SubSeqProperties
<1>5. SubSeq(queue, Cut + 1, Len(queue)) \in Seq(Requests)
  BY <1>1, <1>2, <1>3, SubSeqProperties
<1> QED  BY <1>2, <1>4, <1>5, EmptySeq

\* Whatever the model run yields, every request of the batch is due its own output or an error.
LEMMA OutcomeFits ==
    ASSUME NEW batch \in Seq(Requests), batch # <<>>, NEW outs \in RunFn(batch)
    PROVE  /\ Outcome(batch, outs) \in Seq(Requests \X Answers) /\ Outcome(batch, outs) # <<>>
           /\ \A i \in DOMAIN Outcome(batch, outs) :
                 Outcome(batch, outs)[i][2] \in {Outcome(batch, outs)[i][1], Failed}
<1>1. Len(outs) = Len(batch) => outs = batch
  BY DEF RunFn
<1>2. \A i \in DOMAIN batch : batch[i] \in Requests
  OBVIOUS
<1>3. Outcome(batch, outs) = [i \in 1 .. Len(batch) |->
                               <<batch[i], IF Len(outs) = Len(batch) THEN batch[i] ELSE Failed>>]
  BY <1>1 DEF Outcome
<1>4. \A i \in 1 .. Len(batch) :
         <<batch[i], IF Len(outs) = Len(batch) THEN batch[i] ELSE Failed>> \in Requests \X Answers
  BY <1>2 DEF Answers
<1> QED  BY <1>3, <1>4

\* The first answer that is due and the others keep what holds of each.
LEMMA DueShrinks ==
    ASSUME NEW due \in Seq(Requests \X Answers), due # <<>>,
           \A i \in DOMAIN due : due[i][2] \in {due[i][1], Failed}
    PROVE  /\ Head(due)[1] \in Requests /\ Head(due)[2] \in {Head(due)[1], Failed}
           /\ Tail(due) \in Seq(Requests \X Answers)
           /\ Len(due) # 1 => Tail(due) # <<>>
           /\ \A i \in DOMAIN Tail(due) : Tail(due)[i][2] \in {Tail(due)[i][1], Failed}
<1>1. Len(due) \in Nat \ {0} /\ DOMAIN due = 1 .. Len(due)
  BY EmptySeq, LenProperties
<1>2. /\ Tail(due) \in Seq(Requests \X Answers) /\ Len(Tail(due)) = Len(due) - 1
      /\ \A i \in 1 .. Len(Tail(due)) : Tail(due)[i] = due[i + 1]
  BY HeadTailProperties
<1>3. DOMAIN Tail(due) = 1 .. Len(due) - 1
  BY <1>2, LenProperties
<1>4. Head(due) = due[1] /\ due[1] \in Requests \X Answers
  BY <1>1, ElementOfSeq
<1>5. Len(due) # 1 => Tail(due) # <<>>
  BY <1>1, <1>2, EmptySeq
<1>6. \A i \in DOMAIN Tail(due) : Tail(due)[i][2] \in {Tail(due)[i][1], Failed}
  BY <1>1, <1>2, <1>3
<1> QED  BY <1>1, <1>2, <1>4, <1>5, <1>6

LEMMA SizesNatural == \A n \in 1 .. Ceiling : n \in Nat
BY SizesAssumption

\* A step that answers a request with its own output or an error keeps the answers.
LEMMA AnswerSet ==
    ASSUME ans \in [Requests -> Answers], AnswersMatch,
           NEW r \in Requests, NEW v \in {r, Waiting, Failed}, ans' = [ans EXCEPT ![r] = v]
    PROVE  ans' \in [Requests -> Answers] /\ AnswersMatch'
BY DEF AnswersMatch, Answers

LEMMA NextInv == Inv /\ [Next]_vars => Inv'
<1> SUFFICES ASSUME Inv, [Next]_vars PROVE Inv'  OBVIOUS
<1>q. queue \in Seq(Requests) /\ maxBatch \in 1 .. Ceiling /\ stopped \in BOOLEAN
  BY DEF Inv, TypeOK
<1>t. /\ thread \in Threads /\ Len(thread.batch) <= Ceiling
      /\ thread.at \in {"guard", "run"} => thread.batch # <<>>
      /\ thread.at = "deliver" => thread.due # <<>>
      /\ \A i \in DOMAIN thread.due : thread.due[i][2] \in {thread.due[i][1], Failed}
  BY DEF Inv, TypeOK
<1>w. workers \in [Workers -> Places] /\ \A w \in Workers : Current(w) \in Requests
  BY DEF Inv, TypeOK
<1>o. /\ owner \in Stops /\ (owner.at # "rendering" => stopped) /\ NothingLeftBehind
      /\ (owner.at = "leftover run" => owner.left # <<>>)
  BY DEF Inv, TypeOK
<1>a. ans \in [Requests -> Answers] /\ AnswersMatch
  BY DEF Inv, TypeOK
<1>i. inside \subseteq Workers \cup {Batcher, Owner}
  BY DEF Inv, TypeOK
<1> DEFINE Q == queue' \in Seq(Requests) /\ maxBatch' \in 1 .. Ceiling /\ stopped' \in BOOLEAN
           T == /\ thread' \in Threads /\ Len(thread'.batch) <= Ceiling
                /\ thread'.at \in {"guard", "run"} => thread'.batch # <<>>
                /\ thread'.at = "deliver" => thread'.due # <<>>
                /\ \A i \in DOMAIN thread'.due : thread'.due[i][2] \in {thread'.due[i][1], Failed}
           W == workers' \in [Workers -> Places] /\ \A w \in Workers : Current(w)' \in Requests
           O == /\ owner' \in Stops /\ (owner'.at # "rendering" => stopped') /\ NothingLeftBehind'
                /\ (owner'.at = "leftover run" => owner'.left # <<>>)
           A == ans' \in [Requests -> Answers] /\ AnswersMatch'
           I == inside' \subseteq Workers \cup {Batcher, Owner}
<1>z. Q /\ T /\ W /\ O /\ A /\ I => Inv'
  <2> SUFFICES ASSUME Q, T, W, O, A, I PROVE Inv'  OBVIOUS
  <2>1. maxBatch' \in Nat
    BY SizesNatural
  <2>2. TypeOK'
    BY <2>1 DEF TypeOK
  <2> QED  BY <2>2 DEF Inv
<1>same. /\ UNCHANGED <<queue, maxBatch, stopped>> => Q
         /\ UNCHANGED thread => T
         /\ UNCHANGED workers => W
         /\ UNCHANGED <<owner, queue, stopped>> => O
         /\ UNCHANGED ans => A
         /\ UNCHANGED inside => I
  BY <1>q, <1>t, <1>w, <1>o, <1>a, <1>i DEF Current, NothingLeftBehind, AnswersMatch
<1>wake. thread' = Woken(thread) => T
  BY <1>t DEF Woken, Threads
<1>move. ASSUME NEW w \in Workers,
                \/ NextRound(w) \/ Handed(w)
                \/ \E at \in {"submit", "inline", "inline run", "wait"}, t \in 1 .. Tiles : Go(w, at, t)
         PROVE  W
  BY <1>move, WorkerMoves DEF Inv
<1>tile. ASSUME NEW w \in Workers PROVE workers[w].tile \in 1 .. Tiles
  BY <1>w DEF Places
<1> HIDE DEF Q, T, W, O, A, I
<1>1. ASSUME NEW w \in Workers, BeginRound(w) \/ SubmitToNobody(w) \/ Collect(w) PROVE Inv'
  <2>1. 1 \in 1 .. Tiles /\ (workers[w].tile # Tiles => workers[w].tile + 1 \in 1 .. Tiles)
    BY <1>tile, SizesAssumption
  <2>2. W
    BY <1>1, <1>move, <2>1 DEF BeginRound, SubmitToNobody, Collect
  <2> QED  BY <1>1, <1>z, <1>same, <2>2 DEF BeginRound, SubmitToNobody, Collect
<1>2. ASSUME NEW w \in Workers, Submit(w) PROVE Inv'
  <2>1. W
    BY <1>2, <1>move DEF Submit
  <2>2. Q /\ T
    BY <1>2, <1>q, <1>w, <1>wake, AppendProperties DEF Submit, Submitted, Q
  <2>3. A
    BY <1>2, <1>a, <1>w, AnswerSet DEF Submit, A
  <2>4. O
    BY <1>2, <1>o DEF Submit, O, NothingLeftBehind, Stops
  <2> QED  BY <1>2, <1>z, <1>same, <2>1, <2>2, <2>3, <2>4 DEF Submit
<1>3. ASSUME NEW w \in Workers, SubmitLate(w) PROVE Inv'
  <2>1. W
    BY <1>3, <1>move, <1>tile DEF SubmitLate
  <2>2. A
    BY <1>3, <1>a, <1>w, AnswerSet DEF SubmitLate, A
  <2> QED  BY <1>3, <1>z, <1>same, <2>1, <2>2 DEF SubmitLate
<1>4. ASSUME NEW w \in Workers, InlineEnter(w) PROVE Inv'
  <2>1. W
    BY <1>4, <1>move, <1>tile DEF InlineEnter
  <2>2. I
    BY <1>4, <1>i DEF InlineEnter, Enter, I
  <2> QED  BY <1>4, <1>z, <1>same, <2>1, <2>2 DEF InlineEnter
<1>5. ASSUME NEW w \in Workers, InlineEnd(w) PROVE Inv'
  <2>1. W
    BY <1>5, <1>move DEF InlineEnd
  <2>2. PICK v \in {Current(w), Waiting, Failed} : ans' = [ans EXCEPT ![Current(w)] = v]
    BY <1>5 DEF InlineEnd, Answered
  <2>3. A
    BY <1>a, <1>w, <2>2, AnswerSet DEF A
  <2>4. I
    BY <1>5, <1>i DEF InlineEnd, Exit, I
  <2> QED  BY <1>5, <1>z, <1>same, <2>1, <2>3, <2>4 DEF InlineEnd
<1>6. CASE Sleep
  <2>1. T
    BY <1>6, <1>t DEF Sleep, T, Threads
  <2> QED  BY <1>6, <1>z, <1>same, <2>1 DEF Sleep
<1>7. CASE TakeBatch
  <2>1. TypeOK /\ queue # <<>>
    BY <1>7 DEF TakeBatch, Inv
  <2>2. T
    BY <1>7, <1>q, <1>t, <2>1, CutQueue DEF TakeBatch, T, Threads
  <2>3. Q
    BY <1>7, <1>q, <2>1, CutQueue DEF TakeBatch, Q
  <2>4. O
    BY <1>7, <1>o DEF TakeBatch, O, NothingLeftBehind
  <2> QED  BY <1>7, <1>z, <1>same, <2>2, <2>3, <2>4 DEF TakeBatch
<1>8. CASE BatchEnter
  <2>1. T
    BY <1>8, <1>t DEF BatchEnter, T, Threads
  <2>2. I
    BY <1>8, <1>i DEF BatchEnter, Enter, I
  <2> QED  BY <1>8, <1>z, <1>same, <2>1, <2>2 DEF BatchEnter
<1>9. CASE RunBatch
  <2>1. PICK outs \in RunFn(thread.batch) :
           thread' = [at |-> "deliver", batch |-> <<>>, due |-> Outcome(thread.batch, outs)]
    BY <1>9 DEF RunBatch
  <2>2. thread.batch \in Seq(Requests) /\ thread.batch # <<>>
    BY <1>9, <1>t DEF RunBatch, Threads
  <2> DEFINE due == Outcome(thread.batch, outs)
  <2>3. due \in Seq(Requests \X Answers) /\ due # <<>> /\ \A i \in DOMAIN due : due[i][2] \in {due[i][1], Failed}
    BY <2>2, OutcomeFits
  <2> HIDE DEF due
  <2>4. thread' = [at |-> "deliver", batch |-> <<>>, due |-> due]
    BY <2>1 DEF due
  <2>5. T
    BY <2>3, <2>4, EmptySeq, SizesAssumption DEF T, Threads
  <2>6. I
    BY <1>9, <1>i DEF RunBatch, Exit, I
  <2> QED  BY <1>9, <1>z, <1>same, <2>5, <2>6 DEF RunBatch
<1>10. CASE Deliver
  <2> DEFINE due == thread.due
  <2>1. due \in Seq(Requests \X Answers) /\ due # <<>> /\ \A i \in DOMAIN due : due[i][2] \in {due[i][1], Failed}
    BY <1>10, <1>t DEF Deliver, Threads
  <2>2. thread' = [thread EXCEPT !.due = Tail(due), !.at = IF Len(due) = 1 THEN "awake" ELSE "deliver"]
    BY <1>10, <1>t DEF Deliver, Threads
  <2>3. ans' = [ans EXCEPT ![Head(due)[1]] = Head(due)[2]]
    BY <1>10 DEF Deliver
  <2> HIDE DEF due
  <2>4. T
    BY <1>t, <2>1, <2>2, DueShrinks DEF T, Threads
  <2>5. A
    BY <1>a, <2>1, <2>3, DueShrinks, AnswerSet DEF A
  <2> QED  BY <1>10, <1>z, <1>same, <2>4, <2>5 DEF Deliver
<1>11. ASSUME NEW n \in Nat, SetMaxBatch(n) PROVE Inv'
  <2>1. Q
    BY <1>11, <1>q, SizesAssumption DEF SetMaxBatch, Q
  <2>2. O
    BY <1>11, <1>same DEF SetMaxBatch
  <2> QED  BY <1>11, <1>z, <1>same, <1>wake, <2>1, <2>2 DEF SetMaxBatch
<1>12. CASE Governor
  <2>1. maxBatch \in Nat /\ Ceiling \in Nat
    BY <1>q, SizesAssumption
  <2> QED  BY <1>11, <1>12, <2>1, GovernorSteps DEF Governor, StepDown, Restore
<1>13. CASE Stop
  <2>1. Q /\ O
    BY <1>13, <1>q, <1>o DEF Stop, Q, O, Stops, NothingLeftBehind
  <2> QED  BY <1>13, <1>z, <1>same, <1>wake, <2>1 DEF Stop
<1>14. CASE Drain
  <2>1. Q /\ O
    BY <1>14, <1>q, <1>o, EmptySeq DEF Drain, Q, O, Stops, NothingLeftBehind
  <2> QED  BY <1>14, <1>z, <1>same, <2>1 DEF Drain
<1>15. CASE LeftEnter
  <2>1. O /\ I
    BY <1>15, <1>o, <1>i DEF LeftEnter, Enter, O, I, Stops, NothingLeftBehind
  <2> QED  BY <1>15, <1>z, <1>same, <2>1 DEF LeftEnter
<1>16. CASE LeftEnd
  <2> DEFINE left == owner.left
  <2>1. left \in Seq(Requests) /\ left # <<>>
    BY <1>16, <1>o DEF LeftEnd, Stops
  <2>2. Head(left) \in Requests /\ Tail(left) \in Seq(Requests)
    BY <2>1, HeadTailProperties
  <2>3. A
    BY <1>16, <1>a, <2>2, AnswerSet DEF LeftEnd, Answered, A
  <2>4. O /\ I
    BY <1>16, <1>o, <1>i, <2>2 DEF LeftEnd, Exit, O, I, Stops, NothingLeftBehind
  <2> QED  BY <1>16, <1>z, <1>same, <2>3, <2>4 DEF LeftEnd
<1>17. CASE Forget
  <2>1. O
    BY <1>17, <1>o DEF Forget, O, Stops, NothingLeftBehind
  <2> QED  BY <1>17, <1>z, <1>same, <2>1 DEF Forget
<1>18. CASE UNCHANGED vars
  BY <1>18, <1>z, <1>same DEF vars
<1> QED
  BY <1>1, <1>2, <1>3, <1>4, <1>5, <1>6, <1>7, <1>8, <1>9, <1>10, <1>12, <1>13, <1>14, <1>15, <1>16,
     <1>17, <1>18 DEF Next, Worker, Thread, StopSteps

\* Every variable keeps its shape.
THEOREM TypeCorrect == Spec => []TypeOK
<1>1. Inv => TypeOK
  BY DEF Inv
<1> QED  BY InitInv, NextInv, <1>1, PTL DEF Spec

\* Every request is answered with the output of its own crop, or with an error.
THEOREM OwnAnswers == Spec => []AnswersMatch
<1>1. Inv => AnswersMatch
  BY DEF Inv
<1> QED  BY InitInv, NextInv, <1>1, PTL DEF Spec

\* No batch outgrows the engine, however the governor moves the size.
THEOREM BatchFits == Spec => []BatchFitsProfile
<1>1. ASSUME Inv PROVE BatchFitsProfile
  <2>1. maxBatch \in 1 .. Ceiling /\ Len(thread.batch) <= Ceiling
    BY <1>1 DEF Inv
  <2> QED  BY <2>1, SizesAssumption DEF BatchFitsProfile
<1> QED  BY InitInv, NextInv, <1>1, PTL DEF Spec

\* Nothing reaches the queue once it was drained.
THEOREM QueueClosed == Spec => []NothingLeftBehind
<1>1. Inv => NothingLeftBehind
  BY DEF Inv
<1> QED  BY InitInv, NextInv, <1>1, PTL DEF Spec

-----------------------------------------------------------------------------
(* A request is in one place.  How often it stands in a sequence:           *)

Occ(s, r) == Cardinality({i \in DOMAIN s : s[i] = r})

LEMMA OccNat ==
    ASSUME NEW s, Len(s) \in Nat, DOMAIN s = 1 .. Len(s), NEW r
    PROVE  Occ(s, r) \in Nat
<1> DEFINE A == {i \in 1 .. Len(s) : s[i] = r}
<1>0. IsFiniteSet(1 .. Len(s)) /\ A \in SUBSET (1 .. Len(s))
  BY FS_Interval
<1>1. IsFiniteSet(A)
  BY <1>0, FS_Subset
<1>2. Occ(s, r) = Cardinality(A)
  BY DEF Occ
<1> QED  BY <1>1, <1>2, FS_CardinalityType

\* Two sequences, one behind the other.
Glued(s, t, u) == /\ Len(u) = Len(s) + Len(t)
                  /\ \A i \in 1 .. Len(s) : u[i] = s[i]
                  /\ \A j \in 1 .. Len(t) : u[Len(s) + j] = t[j]

LEMMA OccSplit ==
    \A S : \A s, t, u \in Seq(S) : Glued(s, t, u) =>
        \A r : Occ(s, r) \in Nat /\ Occ(t, r) \in Nat /\ Occ(u, r) = Occ(s, r) + Occ(t, r)
<1> SUFFICES ASSUME NEW S, NEW s \in Seq(S), NEW t \in Seq(S), NEW u \in Seq(S),
                    Glued(s, t, u), NEW r
             PROVE  Occ(s, r) \in Nat /\ Occ(t, r) \in Nat /\ Occ(u, r) = Occ(s, r) + Occ(t, r)
  OBVIOUS
<1> DEFINE n == Len(s)
           m == Len(t)
           A == {i \in 1 .. n : s[i] = r}
           B == {i \in 1 .. m : t[i] = r}
           C == {i \in 1 .. n + m : u[i] = r}
<1>a. n \in Nat /\ m \in Nat
  OBVIOUS
<1>b. /\ A \in SUBSET (1 .. n) /\ B \in SUBSET (1 .. m) /\ C \in SUBSET (1 .. n + m)
      /\ \A i \in 1 .. n : i \in C <=> i \in A
      /\ \A j \in 1 .. m : n + j \in C <=> j \in B
  BY <1>a DEF Glued
<1>c. Occ(s, r) = Cardinality(A) /\ Occ(t, r) = Cardinality(B) /\ Occ(u, r) = Cardinality(C)
  <2>1. DOMAIN s = 1 .. n /\ DOMAIN t = 1 .. m /\ DOMAIN u = 1 .. n + m
    BY LenProperties DEF Glued
  <2> QED  BY <2>1 DEF Occ
<1> HIDE DEF n, m, A, B, C
<1>0. IsFiniteSet(1 .. n) /\ IsFiniteSet(1 .. m)
  BY <1>a, FS_Interval
<1>1. IsFiniteSet(A) /\ IsFiniteSet(B)
  BY <1>0, <1>b, FS_Subset
<1> DEFINE D == {c \in C : c > n}
           f == [j \in B |-> n + j]
<1>2. f \in [B -> D] /\ \A j \in B : f[j] = n + j
  BY <1>a, <1>b
<1>3. \A d \in D : d - n \in 1 .. m /\ n + (d - n) = d
  BY <1>a, <1>b
<1>4. \A d \in D : d - n \in B /\ f[d - n] = d
  BY <1>a, <1>b, <1>2, <1>3
<1>5. \A j, k \in B : f[j] = f[k] => j = k
  BY <1>a, <1>b, <1>2
<1>6. f \in Bijection(B, D)
  BY <1>2, <1>4, <1>5, Fun_IsBij
<1>7. IsFiniteSet(D) /\ Cardinality(D) = Cardinality(B)
  BY <1>1, <1>6, FS_Bijection DEF ExistsBijection
<1>8. C = A \cup D /\ A \cap D = {}
  <2>1. ASSUME NEW c \in C PROVE c \in A \/ c \in D
    <3>1. c \in 1 .. n \/ c > n
      BY <1>a, <1>b
    <3> QED  BY <3>1, <1>b
  <2>2. A \subseteq C /\ D \subseteq C
    BY <1>a, <1>b
  <2>3. \A a \in A : a \notin D
    BY <1>a, <1>b
  <2> QED  BY <2>1, <2>2, <2>3
<1>9. Cardinality(A) \in Nat /\ Cardinality(B) \in Nat /\ Cardinality({}) = 0
  BY <1>1, FS_CardinalityType, FS_EmptySet
<1> HIDE DEF D, f
<1>10. Cardinality(A \cup D) = Cardinality(A) + Cardinality(D) - Cardinality(A \cap D)
  BY <1>1, <1>7, FS_Union
<1>11. Cardinality(A \cup D) = Cardinality(C) /\ Cardinality(A \cap D) = 0
  BY <1>8, <1>9
<1> DEFINE ca == Cardinality(A)
           cb == Cardinality(B)
           cc == Cardinality(C)
<1>12. ca \in Nat /\ cb \in Nat /\ cc = ca + cb - 0
  BY <1>7, <1>9, <1>10, <1>11
<1>13. Occ(s, r) = ca /\ Occ(t, r) = cb /\ Occ(u, r) = cc
  BY <1>c
<1> HIDE DEF ca, cb, cc
<1> QED  BY <1>12, <1>13

LEMMA OccOne == \A x, r : Occ(<<>>, r) = 0 /\ Occ(<<x>>, r) = IF x = r THEN 1 ELSE 0
<1> SUFFICES ASSUME NEW x, NEW r PROVE Occ(<<>>, r) = 0 /\ Occ(<<x>>, r) = IF x = r THEN 1 ELSE 0
  OBVIOUS
<1>1. {i \in DOMAIN <<>> : <<>>[i] = r} = {}
  OBVIOUS
<1>2. {i \in DOMAIN <<x>> : <<x>>[i] = r} = IF x = r THEN {1} ELSE {}
  OBVIOUS
<1> QED  BY <1>1, <1>2, FS_EmptySet, FS_Singleton DEF Occ

LEMMA OccEdits ==
    ASSUME NEW S, NEW s \in Seq(S), NEW r
    PROVE  /\ \A t \in Seq(S) : Occ(s \o t, r) = Occ(s, r) + Occ(t, r)
           /\ \A x \in S : Occ(Append(s, x), r) = Occ(s, r) + (IF x = r THEN 1 ELSE 0)
           /\ s # <<>> => Occ(s, r) = (IF Head(s) = r THEN 1 ELSE 0) + Occ(Tail(s), r)
           /\ \A n \in 0 .. Len(s) :
                 Occ(s, r) = Occ(SubSeq(s, 1, n), r) + Occ(SubSeq(s, n + 1, Len(s)), r)
<1>0. \A a, b, c \in Seq(S) : Glued(a, b, c) => Occ(c, r) = Occ(a, r) + Occ(b, r)
  BY OccSplit
<1>1. ASSUME NEW t \in Seq(S) PROVE Occ(s \o t, r) = Occ(s, r) + Occ(t, r)
  <2>1. s \o t \in Seq(S) /\ Glued(s, t, s \o t)
    BY DEF Glued
  <2> QED  BY <2>1, <1>0
<1>2. ASSUME NEW x \in S PROVE Occ(Append(s, x), r) = Occ(s, r) + (IF x = r THEN 1 ELSE 0)
  <2> DEFINE h == <<x>>
  <2>1. Append(s, x) \in Seq(S) /\ h \in Seq(S) /\ Glued(s, h, Append(s, x))
    BY DEF Glued
  <2> HIDE DEF h
  <2>2. Occ(Append(s, x), r) = Occ(s, r) + Occ(h, r)
    BY <2>1, <1>0
  <2> QED  BY <2>2, OccOne DEF h
<1>3. ASSUME s # <<>> PROVE Occ(s, r) = (IF Head(s) = r THEN 1 ELSE 0) + Occ(Tail(s), r)
  <2> DEFINE h == <<Head(s)>>
  <2>1. Tail(s) \in Seq(S) /\ h \in Seq(S) /\ Glued(h, Tail(s), s)
    BY <1>3, HeadTailProperties DEF Glued
  <2> HIDE DEF h
  <2>2. Occ(s, r) = Occ(h, r) + Occ(Tail(s), r)
    BY <2>1, <1>0
  <2> QED  BY <2>2, OccOne DEF h
<1>4. ASSUME NEW n \in 0 .. Len(s)
      PROVE  Occ(s, r) = Occ(SubSeq(s, 1, n), r) + Occ(SubSeq(s, n + 1, Len(s)), r)
  <2> DEFINE a == SubSeq(s, 1, n)
             b == SubSeq(s, n + 1, Len(s))
  <2>1. Len(s) \in Nat /\ \A i \in 1 .. Len(s) : s[i] \in S
    OBVIOUS
  <2>2. a \in Seq(S) /\ Len(a) = n /\ \A i \in 1 .. n : a[i] = s[i]
    BY <2>1, SubSeqProperties
  <2>3. b \in Seq(S) /\ Len(b) = Len(s) - n /\ \A i \in 1 .. Len(s) - n : b[i] = s[n + i]
    BY <2>1, SubSeqProperties
  <2> HIDE DEF a, b
  <2>4. Glued(a, b, s)
    BY <2>1, <2>2, <2>3 DEF Glued
  <2> QED  BY <2>2, <2>3, <2>4, <1>0 DEF a, b
<1> QED  BY <1>1, <1>2, <1>3, <1>4

\* The requests of the answers that are due.
Names(due) == [i \in DOMAIN due |-> due[i][1]]

LEMMA NamesOf ==
    ASSUME NEW due \in Seq(Requests \X Answers)
    PROVE  /\ Names(due) \in Seq(Requests)
           /\ due # <<>> => /\ Names(due) # <<>> /\ Head(Names(due)) = Head(due)[1]
                            /\ Tail(Names(due)) = Names(Tail(due))
<1>1. DOMAIN due = 1 .. Len(due) /\ Len(due) \in Nat /\ \A i \in 1 .. Len(due) : due[i] \in Requests \X Answers
  OBVIOUS
<1>2. Names(due) = [i \in 1 .. Len(due) |-> due[i][1]]
  BY <1>1 DEF Names
<1>3. Names(due) \in Seq(Requests) /\ Len(Names(due)) = Len(due)
  BY <1>1, <1>2
<1>4. ASSUME due # <<>>
      PROVE  /\ Names(due) # <<>> /\ Head(Names(due)) = Head(due)[1]
             /\ Tail(Names(due)) = Names(Tail(due))
  <2>1. Len(due) > 0
    BY <1>1, <1>4, EmptySeq
  <2>2. /\ Tail(due) \in Seq(Requests \X Answers) /\ Len(Tail(due)) = Len(due) - 1
        /\ \A i \in 1 .. Len(due) - 1 : Tail(due)[i] = due[i + 1]
    BY <1>4, HeadTailProperties
  <2>3. Names(due) # <<>>
    BY <1>3, <2>1, EmptySeq
  <2>4. /\ Tail(Names(due)) \in Seq(Requests) /\ Len(Tail(Names(due))) = Len(due) - 1
        /\ \A i \in 1 .. Len(due) - 1 : Tail(Names(due))[i] = Names(due)[i + 1]
    BY <1>3, <2>3, HeadTailProperties
  <2>5. DOMAIN Tail(due) = 1 .. Len(due) - 1
    BY <2>2, LenProperties
  <2>6. Names(Tail(due)) = [i \in 1 .. Len(due) - 1 |-> due[i + 1][1]]
    BY <2>2, <2>5 DEF Names
  <2>7. Tail(Names(due)) = [i \in 1 .. Len(due) - 1 |-> Tail(Names(due))[i]]
    <3> DEFINE rest == Tail(Names(due))
    <3>1. rest \in Seq(Requests) /\ Len(rest) = Len(due) - 1
      BY <2>4
    <3> HIDE DEF rest
    <3>2. rest = [i \in 1 .. Len(rest) |-> rest[i]]
      BY <3>1
    <3> QED  BY <3>1, <3>2 DEF rest
  <2>8. \A i \in 1 .. Len(due) - 1 : Tail(Names(due))[i] = due[i + 1][1]
    BY <1>1, <1>2, <2>4
  <2>9. Tail(Names(due)) = Names(Tail(due))
    BY <2>6, <2>7, <2>8
  <2>10. Head(Names(due)) = Head(due)[1]
    BY <1>1, <1>2, <2>1
  <2> QED  BY <2>3, <2>9, <2>10
<1> QED  BY <1>3, <1>4

LEMMA NamesOfOutcome ==
    ASSUME NEW batch \in Seq(Requests), NEW outs
    PROVE  Names(Outcome(batch, outs)) = batch
<1> DEFINE due == Outcome(batch, outs)
<1>1. DOMAIN due = DOMAIN batch /\ \A i \in DOMAIN batch : due[i][1] = batch[i]
  BY DEF Outcome
<1>2. batch = [i \in DOMAIN batch |-> batch[i]]
  OBVIOUS
<1> QED  BY <1>1, <1>2 DEF Names

\* How many places a request is in, and how many it should be in.
Held(r) == Occ(queue, r) + Occ(thread.batch, r) + Occ(Names(thread.due), r) + Occ(owner.left, r)
             + (IF Inline(r) THEN 1 ELSE 0)
Owing(r) == IF ans[r] = Waiting THEN 1 ELSE 0

\* The requests a worker has still to hand in, which nobody has seen yet.
Ahead(w, n, t) ==
    \/ n > workers[w].round
    \/ /\ n = workers[w].round
       /\ \/ workers[w].at = "next"
          \/ workers[w].at = "submit" /\ t >= workers[w].tile
          \/ workers[w].at \in {"inline", "inline run"} /\ t > workers[w].tile
Fresh == \A w \in Workers : \A n \in 1 .. Rounds[w], t \in 1 .. Tiles :
            Ahead(w, n, t) => ans[<<w, n, t>>] = NotAsked

\* A thread has in hand only what its place allows.
Hands ==
    /\ thread.at \notin {"guard", "run"} => thread.batch = <<>>
    /\ thread.at # "deliver" => thread.due = <<>>
    /\ owner.at \notin {"leftover", "leftover run"} => owner.left = <<>>

OneInv == Inv /\ Fresh /\ Hands /\ \A r \in Requests : Held(r) = Owing(r)

\* The property counts the same places in one sequence.
LEMMA OnePlaceMeans ==
    ASSUME TypeOK
    PROVE  InOnePlace <=> \A r \in Requests : Held(r) = Owing(r)
<1> DEFINE a == queue \o thread.batch
           b == a \o Names(thread.due)
<1>1. queue \in Seq(Requests) /\ thread.batch \in Seq(Requests) /\ thread.due \in Seq(Requests \X Answers)
      /\ owner.left \in Seq(Requests)
  BY DEF TypeOK, Threads, Stops
<1>2. Names(thread.due) \in Seq(Requests)
  BY <1>1, NamesOf
<1>3. a \in Seq(Requests) /\ b \in Seq(Requests)
  BY <1>1, <1>2
<1>4. InHand = b \o owner.left
  BY DEF InHand, Names
<1>5. \A r : Occ(a, r) = Occ(queue, r) + Occ(thread.batch, r)
  BY <1>1, OccEdits
<1> HIDE DEF a
<1>6. \A r : Occ(b, r) = Occ(a, r) + Occ(Names(thread.due), r)
  BY <1>2, <1>3, OccEdits
<1> HIDE DEF b
<1>7. \A r : Occ(InHand, r) = Occ(b, r) + Occ(owner.left, r)
  BY <1>1, <1>3, <1>4, OccEdits
<1>8. InOnePlace <=> \A r \in Requests : Occ(InHand, r) + (IF Inline(r) THEN 1 ELSE 0) = Owing(r)
  BY DEF InOnePlace, Occ, Owing
<1>9. \A r : Held(r) = Occ(InHand, r) + (IF Inline(r) THEN 1 ELSE 0)
  BY <1>5, <1>6, <1>7 DEF Held
<1> QED  BY <1>8, <1>9

LEMMA Counts ==
    ASSUME TypeOK
    PROVE  /\ Names(thread.due) \in Seq(Requests)
           /\ \A r : /\ Occ(queue, r) \in Nat /\ Occ(thread.batch, r) \in Nat
                     /\ Occ(Names(thread.due), r) \in Nat /\ Occ(owner.left, r) \in Nat
<1>1. queue \in Seq(Requests) /\ thread.batch \in Seq(Requests) /\ thread.due \in Seq(Requests \X Answers)
      /\ owner.left \in Seq(Requests)
  BY DEF TypeOK, Threads, Stops
<1>2. Names(thread.due) \in Seq(Requests)
  BY <1>1, NamesOf
<1>3. ASSUME NEW s \in Seq(Requests) PROVE \A r : Occ(s, r) \in Nat
  BY OccNat, LenProperties
<1> QED  BY <1>1, <1>2, <1>3

\* A request is told from the marks of a handle, and from the requests of other workers.
LEMMA RequestsDiffer ==
    /\ \A r \in Requests : r # Waiting
    /\ NotAsked # Waiting /\ Failed # Waiting
    /\ \A v, w : v # w => Current(v) # Current(w)
<1>1. \A r \in Requests : r # Waiting
  <2> SUFFICES ASSUME NEW r \in Requests PROVE r # Waiting  OBVIOUS
  <2>1. PICK w \in Workers : \E n \in 1 .. Rounds[w], t \in 1 .. Tiles : r = <<w, n, t>>
    BY DEF Requests
  <2>2. Len(r) = 3 /\ Len(Waiting) = 1
    BY <2>1 DEF Waiting
  <2> QED  BY <2>2
<1>2. NotAsked # Waiting /\ Failed # Waiting
  BY DEF NotAsked, Waiting, Failed
<1>3. \A v, w : v # w => Current(v) # Current(w)
  BY DEF Current
<1> QED  BY <1>1, <1>2, <1>3

\* Where a worker goes.
LEMMA WorkerGoes ==
    ASSUME TypeOK, NEW w \in Workers
    PROVE  /\ \A at, t : Go(w, at, t) =>
                 /\ workers'[w].at = at /\ workers'[w].tile = t
                 /\ workers'[w].round = workers[w].round
                 /\ \A v \in Workers \ {w} : workers'[v] = workers[v]
           /\ NextRound(w) =>
                 /\ \/ workers'[w].at = "done" /\ workers'[w].round = workers[w].round
                    \/ workers'[w].at = "next" /\ workers'[w].round = workers[w].round + 1
                 /\ \A v \in Workers \ {w} : workers'[v] = workers[v]
           /\ Handed(w) => \/ Go(w, "wait", 1)
                           \/ workers[w].tile # Tiles /\ Go(w, "submit", workers[w].tile + 1)
<1>1. workers[w] \in Places /\ workers \in [Workers -> Places]
  BY DEF TypeOK
<1>2. \A at, t : Go(w, at, t) =>
                 /\ workers'[w].at = at /\ workers'[w].tile = t
                 /\ workers'[w].round = workers[w].round
                 /\ \A v \in Workers \ {w} : workers'[v] = workers[v]
  BY <1>1 DEF Go, Places
<1>3. ASSUME NextRound(w)
      PROVE  /\ \/ workers'[w].at = "done" /\ workers'[w].round = workers[w].round
                \/ workers'[w].at = "next" /\ workers'[w].round = workers[w].round + 1
             /\ \A v \in Workers \ {w} : workers'[v] = workers[v]
  <2>1. CASE workers[w].round = Rounds[w]
    <3>1. workers' = [workers EXCEPT ![w] = [workers[w] EXCEPT !.at = "done"]]
      BY <1>3, <2>1 DEF NextRound
    <3> QED  BY <1>1, <3>1 DEF Places
  <2>2. CASE workers[w].round # Rounds[w]
    <3>1. workers' = [workers EXCEPT ![w] = [at |-> "next", round |-> workers[w].round + 1, tile |-> 1]]
      BY <1>3, <2>2 DEF NextRound
    <3> QED  BY <1>1, <3>1
  <2> QED  BY <2>1, <2>2
<1>4. Handed(w) => \/ Go(w, "wait", 1)
                   \/ workers[w].tile # Tiles /\ Go(w, "submit", workers[w].tile + 1)
  BY DEF Handed
<1> QED  BY <1>2, <1>3, <1>4

\* What a step of one worker does to the requests that run inline.
LEMMA InlineMoves ==
    ASSUME NEW w \in Workers, \A v \in Workers \ {w} : workers'[v] = workers[v]
    PROVE  /\ workers[w].at \notin {"inline", "inline run"} /\ workers'[w].at \notin {"inline", "inline run"}
                => \A r : Inline(r)' <=> Inline(r)
           /\ workers[w].at \notin {"inline", "inline run"} /\ workers'[w].at \in {"inline", "inline run"}
                => \A r : Inline(r)' <=> Inline(r) \/ r = Current(w)'
           /\ workers[w].at \in {"inline", "inline run"} /\ workers'[w].at \notin {"inline", "inline run"}
                => Inline(Current(w)) /\ \A r : Inline(r)' <=> Inline(r) /\ r # Current(w)
           /\ workers[w].at \in {"inline", "inline run"} /\ workers'[w].at \in {"inline", "inline run"}
              /\ Current(w)' = Current(w) => \A r : Inline(r)' <=> Inline(r)
<1> DEFINE in == {"inline", "inline run"}
<1>1. \A r : Inline(r) <=> \/ workers[w].at \in in /\ Current(w) = r
                           \/ \E v \in Workers \ {w} : workers[v].at \in in /\ Current(v) = r
  BY DEF Inline
<1>2. \A v \in Workers \ {w} : Current(v)' = Current(v)
  BY DEF Current
<1>3. \A r : Inline(r)' <=> \/ workers'[w].at \in in /\ Current(w)' = r
                            \/ \E v \in Workers \ {w} : workers[v].at \in in /\ Current(v) = r
  <2>1. \A r : Inline(r)' <=> \E v \in Workers : workers'[v].at \in in /\ Current(v)' = r
    BY DEF Inline
  <2> QED  BY <1>2, <2>1
<1>4. \A v \in Workers \ {w} : Current(v) # Current(w)
  BY RequestsDiffer
<1> HIDE DEF in
<1> QED  BY <1>1, <1>3, <1>4 DEF in

\* An answer to a request that waits leaves the requests ahead alone.
LEMMA FreshAnswered ==
    ASSUME Fresh, ans \in [Requests -> Answers], UNCHANGED workers, NEW q \in Requests,
           ans[q] = Waiting, NEW a, ans' = [ans EXCEPT ![q] = a]
    PROVE  Fresh'
<1>1. ASSUME NEW w \in Workers, NEW n \in 1 .. Rounds[w], NEW t \in 1 .. Tiles, Ahead(w, n, t)'
      PROVE  ans'[<<w, n, t>>] = NotAsked
  <2>1. ans[<<w, n, t>>] = NotAsked /\ <<w, n, t>> \in Requests
    BY <1>1, RequestOf DEF Fresh, Ahead
  <2>2. <<w, n, t>> # q
    BY <2>1, RequestsDiffer
  <2> QED  BY <2>1, <2>2
<1> QED  BY <1>1 DEF Fresh

\* A worker's step leaves nothing ahead that was not, and answers nothing that still is.
LEMMA FreshMoves ==
    ASSUME Fresh, TypeOK, NEW w \in Workers,
           \A v \in Workers \ {w} : workers'[v] = workers[v],
           \A n \in 1 .. Rounds[w], t \in 1 .. Tiles :
              Ahead(w, n, t)' => Ahead(w, n, t) /\ ans'[<<w, n, t>>] = ans[<<w, n, t>>],
           \A r \in Requests : r # Current(w) => ans'[r] = ans[r]
    PROVE  Fresh'
<1>1. ASSUME NEW v \in Workers, NEW n \in 1 .. Rounds[v], NEW t \in 1 .. Tiles, Ahead(v, n, t)'
      PROVE  ans'[<<v, n, t>>] = NotAsked
  <2>1. CASE v = w
    BY <1>1, <2>1 DEF Fresh
  <2>2. CASE v # w
    <3>1. Ahead(v, n, t) /\ <<v, n, t>> \in Requests
      BY <1>1, <2>2, RequestOf DEF Ahead
    <3>2. <<v, n, t>> # Current(w)
      BY <2>2 DEF Current
    <3> QED  BY <3>1, <3>2 DEF Fresh
  <2> QED  BY <2>1, <2>2
<1> QED  BY <1>1 DEF Fresh

\* What is still ahead after a worker's step.
LEMMA AheadMoves ==
    ASSUME TypeOK, NEW w \in Workers, workers[w].round \in Nat, NEW n \in Nat, NEW t \in Nat, Ahead(w, n, t)'
    PROVE  /\ NextRound(w) => n > workers[w].round
           /\ \A k : Go(w, "wait", k) => n > workers[w].round
           /\ \A k : Go(w, "submit", k) => n > workers[w].round \/ (n = workers[w].round /\ t >= k)
<1>1. ASSUME NextRound(w) PROVE n > workers[w].round
  <2>1. \/ workers'[w].at = "done" /\ workers'[w].round = workers[w].round
        \/ workers'[w].at = "next" /\ workers'[w].round = workers[w].round + 1
    BY <1>1, WorkerGoes
  <2>2. n > workers'[w].round \/ (n = workers'[w].round /\ workers'[w].at # "done")
    BY DEF Ahead
  <2> QED  BY <2>1, <2>2
<1>2. ASSUME NEW k, Go(w, "wait", k) PROVE n > workers[w].round
  <2>1. workers'[w].at = "wait" /\ workers'[w].round = workers[w].round
    BY <1>2, WorkerGoes
  <2> QED  BY <2>1 DEF Ahead
<1>3. ASSUME NEW k, Go(w, "submit", k) PROVE n > workers[w].round \/ (n = workers[w].round /\ t >= k)
  <2>1. workers'[w].at = "submit" /\ workers'[w].round = workers[w].round /\ workers'[w].tile = k
    BY <1>3, WorkerGoes
  <2> QED  BY <2>1 DEF Ahead
<1> QED  BY <1>1, <1>2, <1>3

LEMMA InitOne == Init => OneInv
<1> SUFFICES ASSUME Init PROVE OneInv  OBVIOUS
<1>1. Inv
  BY InitInv
<1>2. Fresh
  BY RequestOf DEF Init, Fresh
<1>3. Hands
  BY DEF Init, Hands
<1>4. ASSUME NEW r \in Requests PROVE Held(r) = Owing(r)
  <2>1. Names(<<>>) = <<>>
    BY DEF Names
  <2>2. ~Inline(r)
    BY DEF Init, Inline
  <2>3. ans[r] # Waiting
    BY RequestsDiffer DEF Init
  <2>4. Occ(queue, r) = 0 /\ Occ(thread.batch, r) = 0 /\ Occ(Names(thread.due), r) = 0 /\ Occ(owner.left, r) = 0
    BY <2>1, OccOne DEF Init
  <2> QED  BY <2>2, <2>3, <2>4 DEF Held, Owing
<1> QED  BY <1>1, <1>2, <1>3, <1>4 DEF OneInv

LEMMA NextOne == OneInv /\ [Next]_vars => OneInv'
<1> SUFFICES ASSUME OneInv, [Next]_vars PROVE OneInv'  OBVIOUS
<1>inv. Inv /\ TypeOK /\ Inv'
  BY NextInv DEF OneInv, Inv
<1>ty. /\ queue \in Seq(Requests) /\ thread \in Threads /\ owner \in Stops
       /\ workers \in [Workers -> Places] /\ ans \in [Requests -> Answers]
       /\ \A w \in Workers : Current(w) \in Requests
  BY <1>inv DEF TypeOK
<1>n. \A r : /\ Occ(queue, r) \in Nat /\ Occ(thread.batch, r) \in Nat
             /\ Occ(Names(thread.due), r) \in Nat /\ Occ(owner.left, r) \in Nat
  BY <1>inv, Counts
<1>m. \A r : Held(r) \in Nat /\ Owing(r) \in {0, 1}
  BY <1>n DEF Held, Owing
<1>f. Fresh
  BY DEF OneInv
<1>h. Hands
  BY DEF OneInv
<1>b. \A r \in Requests : Held(r) = Owing(r)
  BY DEF OneInv
<1> DEFINE B == \A r \in Requests : Held(r)' = Owing(r)'
<1>z. Fresh' /\ Hands' /\ B => OneInv'
  BY <1>inv DEF OneInv
<1>fresh. UNCHANGED <<workers, ans>> => Fresh'
  BY <1>f DEF Fresh, Ahead
<1>inl. UNCHANGED workers => \A r : Inline(r)' <=> Inline(r)
  BY DEF Inline, Current
<1>hands. UNCHANGED <<thread, owner>> => Hands'
  BY <1>h DEF Hands
<1>owing. UNCHANGED ans => \A r : Owing(r)' = Owing(r)
  BY DEF Owing
<1>held. /\ UNCHANGED queue => \A r : Occ(queue, r)' = Occ(queue, r)
         /\ UNCHANGED owner => \A r : Occ(owner.left, r)' = Occ(owner.left, r)
         /\ thread'.batch = thread.batch => \A r : Occ(thread.batch, r)' = Occ(thread.batch, r)
         /\ thread'.due = thread.due => \A r : Occ(Names(thread.due), r)' = Occ(Names(thread.due), r)
  OBVIOUS
<1>same. UNCHANGED <<queue, thread, owner>> /\ (\A r : Inline(r)' <=> Inline(r))
            /\ (\A r : Owing(r)' = Owing(r)) => B
  BY <1>b, <1>held DEF Held
<1>wake. thread' = Woken(thread) =>
            /\ thread'.batch = thread.batch /\ thread'.due = thread.due
            /\ UNCHANGED owner => Hands'
  BY <1>ty, <1>h DEF Woken, Threads, Hands
<1> HIDE DEF B
<1>tile. \A w \in Workers : workers[w].tile \in 1 .. Tiles /\ workers[w].round \in 1 .. Rounds[w]
  <2>1. \A w \in Workers : Current(w) \in Requests /\ workers[w] \in Places
    BY <1>ty
  <2> QED  BY <2>1, RequestOf DEF Current, Places
<1>pos. Tiles \in Nat /\ \A w \in Workers : Rounds[w] \in Nat
  BY SizesAssumption
<1>1. ASSUME NEW w \in Workers, BeginRound(w) \/ SubmitToNobody(w) \/ Collect(w) PROVE OneInv'
  <2>1. \/ workers[w].at = "next" /\ Go(w, "submit", 1)
        \/ workers[w].at \in {"next", "submit", "wait"} /\ NextRound(w)
        \/ workers[w].at = "wait" /\ Go(w, "wait", workers[w].tile + 1)
    BY <1>1 DEF BeginRound, SubmitToNobody, Collect
  <2>2. UNCHANGED <<queue, thread, owner, ans>>
    BY <1>1 DEF BeginRound, SubmitToNobody, Collect
  <2>3. /\ \A v \in Workers \ {w} : workers'[v] = workers[v]
        /\ workers[w].at \notin {"inline", "inline run"} /\ workers'[w].at \notin {"inline", "inline run"}
    BY <1>inv, <2>1, WorkerGoes
  <2>4. B
    BY <1>owing, <1>same, <2>2, <2>3, InlineMoves
  <2>5. ASSUME NEW n \in 1 .. Rounds[w], NEW t \in 1 .. Tiles, Ahead(w, n, t)' PROVE Ahead(w, n, t)
    <3>1. workers[w].round \in Nat /\ n \in Nat /\ t \in Nat
      BY <1>tile, <1>pos
    <3>2. n > workers[w].round \/ (n = workers[w].round /\ workers[w].at = "next")
      BY <1>inv, <2>1, <2>5, <3>1, AheadMoves
    <3> QED  BY <3>2 DEF Ahead
  <2>6. Fresh'
    BY <1>f, <1>inv, <2>2, <2>3, <2>5, FreshMoves
  <2> QED  BY <1>hands, <1>z, <2>2, <2>4, <2>6
<1>2. ASSUME NEW w \in Workers, workers[w].at = "submit"
      PROVE  Current(w) \in Requests /\ ans[Current(w)] = NotAsked /\ ans[Current(w)] # Waiting
  <2>1. Ahead(w, workers[w].round, workers[w].tile)
    BY <1>2, <1>tile DEF Ahead
  <2> QED  BY <1>f, <1>ty, <1>tile, <2>1, RequestsDiffer DEF Fresh, Current
<1>3. ASSUME NEW w \in Workers, Submit(w) PROVE OneInv'
  <2> DEFINE c == Current(w)
  <2>1. /\ workers[w].at = "submit" /\ Handed(w) /\ UNCHANGED owner
        /\ queue' = Append(queue, c) /\ thread' = Woken(thread) /\ ans' = [ans EXCEPT ![c] = Waiting]
    BY <1>3 DEF Submit, Submitted
  <2>2. c \in Requests /\ ans[c] # Waiting
    BY <1>2, <2>1
  <2>3. \/ Go(w, "wait", 1)
        \/ workers[w].tile # Tiles /\ Go(w, "submit", workers[w].tile + 1)
    BY <1>inv, <2>1, WorkerGoes
  <2>4. /\ \A v \in Workers \ {w} : workers'[v] = workers[v]
        /\ workers[w].at \notin {"inline", "inline run"} /\ workers'[w].at \notin {"inline", "inline run"}
    BY <1>inv, <2>1, <2>3, WorkerGoes
  <2>5. \A r : Inline(r)' <=> Inline(r)
    BY <2>4, InlineMoves
  <2> HIDE DEF c
  <2>6. \A r : Occ(queue', r) = Occ(queue, r) + (IF c = r THEN 1 ELSE 0)
    BY <1>ty, <2>1, <2>2, OccEdits
  <2>7. \A r \in Requests : Owing(r)' = IF c = r THEN 1 ELSE Owing(r)
    BY <1>ty, <2>1, <2>2 DEF Owing
  <2>8. Held(c) = 0
    BY <1>b, <2>2 DEF Owing
  <2>9. \A r : Held(r)' = Held(r) + (IF c = r THEN 1 ELSE 0)
    BY <1>n, <1>held, <1>wake, <2>1, <2>5, <2>6 DEF Held
  <2>10. B
    BY <1>b, <1>m, <2>7, <2>8, <2>9 DEF B
  <2>11. ASSUME NEW n \in 1 .. Rounds[w], NEW t \in 1 .. Tiles, Ahead(w, n, t)'
         PROVE  Ahead(w, n, t) /\ <<w, n, t>> # c
    <3>1. workers[w].round \in Nat /\ workers[w].tile \in Nat /\ n \in Nat /\ t \in Nat
      BY <1>tile, <1>pos
    <3>2. n > workers[w].round \/ (n = workers[w].round /\ t >= workers[w].tile + 1)
      BY <1>inv, <2>11, <2>3, <3>1, AheadMoves
    <3>3. n # workers[w].round \/ t # workers[w].tile
      BY <3>1, <3>2
    <3>4. Ahead(w, n, t)
      <4>1. n > workers[w].round \/ (n = workers[w].round /\ t >= workers[w].tile /\ t > workers[w].tile)
        BY <3>1, <3>2
      <4> QED  BY <2>1, <4>1 DEF Ahead
    <3> QED  BY <3>3, <3>4 DEF c, Current
  <2>12. \A r \in Requests : r # c => ans'[r] = ans[r]
    BY <1>ty, <2>1
  <2>13. \A n \in 1 .. Rounds[w], t \in 1 .. Tiles :
            Ahead(w, n, t)' => Ahead(w, n, t) /\ ans'[<<w, n, t>>] = ans[<<w, n, t>>]
    BY <2>11, <2>12, RequestOf
  <2>14. Fresh'
    BY <1>f, <1>inv, <2>4, <2>12, <2>13, FreshMoves DEF c
  <2> QED  BY <1>z, <1>wake, <2>1, <2>10, <2>14
<1>4. ASSUME NEW w \in Workers, SubmitLate(w) PROVE OneInv'
  <2> DEFINE c == Current(w)
  <2>1. /\ workers[w].at = "submit" /\ Go(w, "inline", workers[w].tile)
        /\ UNCHANGED <<queue, thread, owner>> /\ ans' = [ans EXCEPT ![c] = Waiting]
    BY <1>4 DEF SubmitLate
  <2>2. c \in Requests /\ ans[c] # Waiting
    BY <1>2, <2>1
  <2>3. /\ \A v \in Workers \ {w} : workers'[v] = workers[v]
        /\ workers[w].at \notin {"inline", "inline run"} /\ workers'[w].at \in {"inline", "inline run"}
        /\ workers'[w].at = "inline"
        /\ workers'[w].round = workers[w].round /\ workers'[w].tile = workers[w].tile
    BY <1>inv, <2>1, WorkerGoes
  <2>4. Current(w)' = c
    BY <2>3 DEF Current
  <2>5. \A r : Inline(r)' <=> Inline(r) \/ r = c
    BY <2>3, <2>4, InlineMoves
  <2> HIDE DEF c
  <2>6. \A r \in Requests : Owing(r)' = IF c = r THEN 1 ELSE Owing(r)
    BY <1>ty, <2>1, <2>2 DEF Owing
  <2>7. Held(c) = 0
    BY <1>b, <2>2 DEF Owing
  <2>8. ~Inline(c)
    BY <1>n, <2>7 DEF Held
  <2>9. \A r : Held(r)' = Held(r) + (IF c = r THEN 1 ELSE 0)
    BY <1>n, <1>held, <2>1, <2>5, <2>8 DEF Held
  <2>10. B
    BY <1>b, <1>m, <2>6, <2>7, <2>9 DEF B
  <2>11. \A n \in 1 .. Rounds[w], t \in 1 .. Tiles : Ahead(w, n, t)' => Ahead(w, n, t) /\ <<w, n, t>> # c
    BY <1>tile, <1>pos, <2>1, <2>3 DEF Ahead, c, Current
  <2>12. \A r \in Requests : r # c => ans'[r] = ans[r]
    BY <1>ty, <2>1
  <2>13. \A n \in 1 .. Rounds[w], t \in 1 .. Tiles :
            Ahead(w, n, t)' => Ahead(w, n, t) /\ ans'[<<w, n, t>>] = ans[<<w, n, t>>]
    BY <2>11, <2>12, RequestOf
  <2>14. Fresh'
    BY <1>f, <1>inv, <2>3, <2>12, <2>13, FreshMoves DEF c
  <2> QED  BY <1>hands, <1>z, <2>1, <2>10, <2>14
<1>5. ASSUME NEW w \in Workers, InlineEnter(w) PROVE OneInv'
  <2>1. workers[w].at = "inline" /\ Go(w, "inline run", workers[w].tile) /\ UNCHANGED <<queue, thread, owner, ans>>
    BY <1>5 DEF InlineEnter
  <2>2. /\ \A v \in Workers \ {w} : workers'[v] = workers[v]
        /\ workers'[w].at = "inline run"
        /\ workers'[w].round = workers[w].round /\ workers'[w].tile = workers[w].tile
    BY <1>inv, <2>1, WorkerGoes
  <2>3. Current(w)' = Current(w)
    BY <2>2 DEF Current
  <2>4. B
    BY <1>owing, <1>same, <2>1, <2>2, <2>3, InlineMoves
  <2>5. \A n \in 1 .. Rounds[w], t \in 1 .. Tiles : Ahead(w, n, t)' => Ahead(w, n, t)
    BY <2>1, <2>2 DEF Ahead
  <2>6. Fresh'
    BY <1>f, <1>inv, <2>1, <2>2, <2>5, FreshMoves
  <2> QED  BY <1>hands, <1>z, <2>1, <2>4, <2>6
<1>6. ASSUME NEW w \in Workers, InlineEnd(w) PROVE OneInv'
  <2> DEFINE c == Current(w)
  <2>1. workers[w].at = "inline run" /\ Handed(w) /\ UNCHANGED <<queue, thread, owner>>
    BY <1>6 DEF InlineEnd
  <2>2. PICK a \in {c, Failed} : ans' = [ans EXCEPT ![c] = a]
    BY <1>6 DEF InlineEnd, Answered
  <2>3. c \in Requests /\ a # Waiting
    BY <1>ty, RequestsDiffer
  <2>4. \/ Go(w, "wait", 1)
        \/ workers[w].tile # Tiles /\ Go(w, "submit", workers[w].tile + 1)
    BY <1>inv, <2>1, WorkerGoes
  <2>5. /\ \A v \in Workers \ {w} : workers'[v] = workers[v]
        /\ workers[w].at \in {"inline", "inline run"} /\ workers'[w].at \notin {"inline", "inline run"}
    <3>1. /\ \A v \in Workers \ {w} : workers'[v] = workers[v]
          /\ workers'[w].at \in {"wait", "submit"}
      BY <1>inv, <2>4, WorkerGoes
    <3> QED  BY <2>1, <3>1
  <2>6. Inline(c) /\ \A r : Inline(r)' <=> Inline(r) /\ r # c
    BY <2>5, InlineMoves
  <2> HIDE DEF c
  <2>7. \A r \in Requests : Owing(r)' = IF c = r THEN 0 ELSE Owing(r)
    BY <1>ty, <2>2, <2>3 DEF Owing
  <2>8. \A r : Held(r)' = Held(r) - (IF c = r THEN 1 ELSE 0)
    <3>1. ASSUME NEW r PROVE Held(r)' = Held(r) - (IF c = r THEN 1 ELSE 0)
      <4>1. CASE c = r
        <5>1. Inline(r) /\ ~Inline(r)'
          BY <2>6, <4>1
        <5>2. Held(r) = Occ(queue, r) + Occ(thread.batch, r) + Occ(Names(thread.due), r) + Occ(owner.left, r) + 1
          BY <5>1 DEF Held
        <5>3. Held(r)' = Occ(queue, r) + Occ(thread.batch, r) + Occ(Names(thread.due), r) + Occ(owner.left, r) + 0
          BY <1>held, <2>1, <5>1 DEF Held
        <5> QED  BY <1>n, <4>1, <5>2, <5>3
      <4>2. CASE c # r
        <5>1. Inline(r)' <=> Inline(r)
          BY <2>6, <4>2
        <5>2. Held(r)' = Held(r)
          BY <1>held, <2>1, <5>1 DEF Held
        <5> QED  BY <1>m, <4>2, <5>2
      <4> QED  BY <4>1, <4>2
    <3> QED  BY <3>1
  <2>9. Held(c) = 1
    BY <1>b, <1>n, <2>3, <2>6 DEF Held, Owing
  <2>10. B
    BY <1>b, <1>m, <2>7, <2>8, <2>9 DEF B, Owing
  <2>11. ASSUME NEW n \in 1 .. Rounds[w], NEW t \in 1 .. Tiles, Ahead(w, n, t)'
         PROVE  Ahead(w, n, t) /\ <<w, n, t>> # c
    <3>1. workers[w].round \in Nat /\ workers[w].tile \in Nat /\ n \in Nat /\ t \in Nat
      BY <1>tile, <1>pos
    <3>2. n > workers[w].round \/ (n = workers[w].round /\ t >= workers[w].tile + 1)
      BY <1>inv, <2>11, <2>4, <3>1, AheadMoves
    <3>3. n # workers[w].round \/ t # workers[w].tile
      BY <3>1, <3>2
    <3>4. Ahead(w, n, t)
      <4>1. n > workers[w].round \/ (n = workers[w].round /\ t >= workers[w].tile /\ t > workers[w].tile)
        BY <3>1, <3>2
      <4> QED  BY <2>1, <4>1 DEF Ahead
    <3> QED  BY <3>3, <3>4 DEF c, Current
  <2>12. \A r \in Requests : r # c => ans'[r] = ans[r]
    BY <1>ty, <2>2
  <2>13. \A n \in 1 .. Rounds[w], t \in 1 .. Tiles :
            Ahead(w, n, t)' => Ahead(w, n, t) /\ ans'[<<w, n, t>>] = ans[<<w, n, t>>]
    BY <2>11, <2>12, RequestOf
  <2>14. Fresh'
    BY <1>f, <1>inv, <2>5, <2>12, <2>13, FreshMoves DEF c
  <2> QED  BY <1>hands, <1>z, <2>1, <2>10, <2>14
<1>7. CASE Sleep
  <2>1. /\ thread'.batch = thread.batch /\ thread'.due = thread.due
        /\ UNCHANGED <<queue, workers, owner, ans>>
    BY <1>7, <1>ty DEF Sleep, Threads
  <2>2. B
    BY <1>b, <1>held, <1>inl, <1>owing, <2>1 DEF B, Held
  <2>3. Hands'
    BY <1>7, <1>h, <1>ty, <2>1 DEF Sleep, Threads, Hands
  <2> QED  BY <1>fresh, <1>z, <2>1, <2>2, <2>3
<1>8. CASE TakeBatch
  <2>1. /\ thread.at = "awake" /\ queue # <<>>
        /\ thread'.at = "guard" /\ thread'.due = thread.due
        /\ thread'.batch = SubSeq(queue, 1, Cut) /\ queue' = SubSeq(queue, Cut + 1, Len(queue))
        /\ UNCHANGED <<workers, owner, ans>>
    BY <1>8, <1>ty DEF TakeBatch, Threads
  <2>2. Cut \in 0 .. Len(queue)
    <3>1. maxBatch \in Nat /\ Len(queue) \in Nat
      BY <1>inv, <1>ty, LenProperties DEF TypeOK
    <3> QED  BY <3>1 DEF Cut
  <2>3. \A r : Occ(queue, r) = Occ(thread'.batch, r) + Occ(queue', r)
    BY <1>ty, <2>1, <2>2, OccEdits
  <2>4. \A r : Occ(thread.batch, r) = 0
    BY <1>h, <2>1, OccOne DEF Hands
  <2>5. \A r : Occ(queue', r) \in Nat /\ Occ(thread'.batch, r) \in Nat
    <3>1. TypeOK'
      BY <1>inv DEF Inv
    <3>2. queue' \in Seq(Requests) /\ thread'.batch \in Seq(Requests)
      BY <3>1 DEF TypeOK, Threads
    <3> QED  BY <3>2, OccNat, LenProperties
  <2>6. \A r : Held(r)' = Held(r)
    <3>1. ASSUME NEW r PROVE Held(r)' = Held(r)
      <4> DEFINE x == IF Inline(r) THEN 1 ELSE 0
                 d == Occ(Names(thread.due), r)
                 l == Occ(owner.left, r)
      <4>1. Held(r) = Occ(thread'.batch, r) + Occ(queue', r) + 0 + d + l + x
        BY <2>3, <2>4 DEF Held
      <4>2. Held(r)' = Occ(queue', r) + Occ(thread'.batch, r) + d + l + x
        BY <1>held, <1>inl, <2>1 DEF Held
      <4>3. d \in Nat /\ l \in Nat /\ x \in Nat
        BY <1>n
      <4> HIDE DEF d, l, x
      <4> QED  BY <2>5, <4>1, <4>2, <4>3
    <3> QED  BY <3>1
  <2>7. B
    BY <1>b, <1>owing, <2>1, <2>6 DEF B
  <2>8. Hands'
    BY <1>h, <2>1 DEF Hands
  <2> QED  BY <1>fresh, <1>z, <2>1, <2>7, <2>8
<1>9. CASE BatchEnter
  <2>1. /\ thread.at = "guard" /\ thread'.at = "run"
        /\ thread'.batch = thread.batch /\ thread'.due = thread.due
        /\ UNCHANGED <<queue, workers, owner, ans>>
    BY <1>9, <1>ty DEF BatchEnter, Threads
  <2>2. B
    BY <1>b, <1>held, <1>inl, <1>owing, <2>1 DEF B, Held
  <2>3. Hands'
    BY <1>h, <2>1 DEF Hands
  <2> QED  BY <1>fresh, <1>z, <2>1, <2>2, <2>3
<1>10. CASE RunBatch
  <2>1. PICK outs \in RunFn(thread.batch) :
           thread' = [at |-> "deliver", batch |-> <<>>, due |-> Outcome(thread.batch, outs)]
    BY <1>10 DEF RunBatch
  <2>2. thread.at = "run" /\ UNCHANGED <<queue, workers, owner, ans>>
    BY <1>10 DEF RunBatch
  <2>3. Names(thread'.due) = thread.batch
    BY <1>ty, <2>1, NamesOfOutcome DEF Threads
  <2>4. Names(thread.due) = <<>>
    <3>1. Names(<<>>) = <<>>
      BY DEF Names
    <3> QED  BY <1>h, <2>2, <3>1 DEF Hands
  <2>5. \A r : /\ Occ(Names(thread'.due), r) = Occ(thread.batch, r)
               /\ Occ(thread'.batch, r) = 0 /\ Occ(Names(thread.due), r) = 0
    BY <2>1, <2>3, <2>4, OccOne
  <2>6. \A r : Held(r)' = Held(r)
    BY <1>n, <1>held, <1>inl, <2>2, <2>5 DEF Held
  <2>7. B
    BY <1>b, <1>owing, <2>2, <2>6 DEF B
  <2>8. Hands'
    BY <1>h, <2>1, <2>2 DEF Hands
  <2> QED  BY <1>fresh, <1>z, <2>2, <2>7, <2>8
<1>11. CASE Deliver
  <2> DEFINE due == thread.due
             q == Head(due)[1]
             a == Head(due)[2]
  <2>1. due \in Seq(Requests \X Answers) /\ due # <<>> /\ \A i \in DOMAIN due : due[i][2] \in {due[i][1], Failed}
    BY <1>11, <1>inv DEF Deliver, Inv, TypeOK, Threads
  <2>2. /\ thread.at = "deliver" /\ thread'.batch = thread.batch /\ thread'.due = Tail(due)
        /\ thread'.at = (IF Len(due) = 1 THEN "awake" ELSE "deliver")
        /\ ans' = [ans EXCEPT ![q] = a] /\ UNCHANGED <<queue, workers, owner>>
    BY <1>11, <1>ty DEF Deliver, Threads
  <2> HIDE DEF due
  <2>3. q \in Requests /\ a \in {q, Failed}
    BY <2>1, DueShrinks
  <2>4. /\ Names(due) \in Seq(Requests) /\ Names(due) # <<>> /\ Head(Names(due)) = q
        /\ Tail(Names(due)) = Names(thread'.due)
    BY <2>1, <2>2, NamesOf
  <2> HIDE DEF q, a
  <2>5. \A r : Occ(Names(due), r) = (IF q = r THEN 1 ELSE 0) + Occ(Names(thread'.due), r)
    <3> DEFINE names == Names(due)
    <3>1. names \in Seq(Requests) /\ names # <<>>
      BY <2>4
    <3> HIDE DEF names
    <3>2. \A r : Occ(names, r) = (IF Head(names) = r THEN 1 ELSE 0) + Occ(Tail(names), r)
      BY <3>1, OccEdits
    <3> QED  BY <2>4, <3>2 DEF names
  <2>6. \A r : Occ(Names(thread'.due), r) \in Nat /\ Occ(Names(due), r) = Occ(Names(thread.due), r)
    <3>1. thread'.due \in Seq(Requests \X Answers)
      BY <2>1, <2>2, DueShrinks
    <3>2. Names(thread'.due) \in Seq(Requests)
      BY <3>1, NamesOf
    <3> QED  BY <3>2, OccNat, LenProperties DEF due
  <2>7. \A r : Held(r) = Held(r)' + (IF q = r THEN 1 ELSE 0)
    BY <1>n, <1>held, <1>inl, <2>2, <2>5, <2>6 DEF Held
  <2>8. \A r : Held(r)' \in Nat
    BY <1>n, <1>held, <1>inl, <2>2, <2>6 DEF Held
  <2>9. Owing(q) = 1
    BY <1>b, <1>m, <2>3, <2>7, <2>8
  <2>10. ans[q] = Waiting /\ a # Waiting
    BY <2>3, <2>9, RequestsDiffer DEF Owing
  <2>11. \A r \in Requests : Owing(r)' = IF q = r THEN 0 ELSE Owing(r)
    BY <1>ty, <2>2, <2>3, <2>10 DEF Owing
  <2>12. B
    BY <1>b, <1>m, <2>7, <2>8, <2>9, <2>11 DEF B
  <2>13. Fresh'
    BY <1>f, <1>ty, <2>2, <2>3, <2>10, FreshAnswered
  <2>14. Len(due) = 1 => thread'.due = <<>>
    BY <2>1, <2>2, HeadTailProperties, EmptySeq
  <2>15. Hands'
    BY <1>h, <2>2, <2>14 DEF Hands
  <2> QED  BY <1>z, <2>12, <2>13, <2>15
<1>12. CASE Governor \/ UNCHANGED vars
  <2>1. \/ thread' = Woken(thread) /\ UNCHANGED <<queue, workers, owner, ans>>
        \/ UNCHANGED <<queue, thread, workers, owner, ans>>
    BY <1>12 DEF Governor, StepDown, Restore, SetMaxBatch, vars
  <2>2. thread'.batch = thread.batch /\ thread'.due = thread.due /\ Hands'
    BY <1>wake, <1>hands, <2>1
  <2>3. B
    BY <1>b, <1>held, <1>inl, <1>owing, <2>1, <2>2 DEF B, Held
  <2> QED  BY <1>fresh, <1>z, <2>1, <2>2, <2>3
<1>13. CASE Stop \/ Forget \/ LeftEnter
  <2>1. /\ owner'.left = owner.left /\ UNCHANGED <<queue, workers, ans>>
        /\ thread'.batch = thread.batch /\ thread'.due = thread.due
    BY <1>13, <1>ty, <1>wake DEF Stop, Forget, LeftEnter, Stops
  <2>2. B
    BY <1>b, <1>held, <1>inl, <1>owing, <2>1 DEF B, Held
  <2>3. Hands'
    <3>1. thread' = Woken(thread) \/ UNCHANGED thread
      BY <1>13 DEF Stop, Forget, LeftEnter
    <3>2. /\ thread'.at \notin {"guard", "run"} => thread'.batch = <<>>
          /\ thread'.at # "deliver" => thread'.due = <<>>
      BY <1>h, <1>ty, <3>1 DEF Hands, Woken, Threads
    <3>3. owner'.at \notin {"leftover", "leftover run"} => owner'.left = <<>>
      BY <1>13, <1>h, <1>ty, <2>1 DEF Stop, Forget, LeftEnter, Stops, Hands
    <3> QED  BY <3>2, <3>3 DEF Hands
  <2> QED  BY <1>fresh, <1>z, <2>1, <2>2, <2>3
<1>14. CASE Drain
  <2>1. /\ owner.at = "join" /\ owner'.at = "leftover" /\ owner'.left = queue /\ queue' = <<>>
        /\ UNCHANGED <<thread, workers, ans>>
    BY <1>14 DEF Drain
  <2>2. \A r : Occ(owner.left, r) = 0 /\ Occ(queue', r) = 0 /\ Occ(owner'.left, r) = Occ(queue, r)
    BY <1>h, <2>1, OccOne DEF Hands
  <2>3. \A r : Held(r)' = Held(r)
    BY <1>n, <1>held, <1>inl, <2>1, <2>2 DEF Held
  <2>4. B
    BY <1>b, <1>owing, <2>1, <2>3 DEF B
  <2>5. Hands'
    BY <1>h, <2>1 DEF Hands
  <2> QED  BY <1>fresh, <1>z, <2>1, <2>4, <2>5
<1>15. CASE LeftEnd
  <2> DEFINE q == Head(owner.left)
  <2>1. PICK a \in {q, Failed} : ans' = [ans EXCEPT ![q] = a]
    BY <1>15 DEF LeftEnd, Answered
  <2>2. /\ owner'.at = "leftover" /\ owner'.left = Tail(owner.left) /\ UNCHANGED <<queue, thread, workers>>
    BY <1>15 DEF LeftEnd
  <2>3. owner.left \in Seq(Requests) /\ owner.left # <<>>
    BY <1>15, <1>ty, <1>inv DEF LeftEnd, Inv, Stops
  <2>4. q \in Requests /\ Tail(owner.left) \in Seq(Requests)
    BY <2>3, HeadTailProperties
  <2>5. \A r : Occ(owner.left, r) = (IF q = r THEN 1 ELSE 0) + Occ(owner'.left, r)
    BY <2>2, <2>3, OccEdits
  <2> HIDE DEF q
  <2>6. \A r : Occ(owner'.left, r) \in Nat
    BY <2>2, <2>4, OccNat, LenProperties
  <2>7. \A r : Held(r) = Held(r)' + (IF q = r THEN 1 ELSE 0)
    BY <1>n, <1>held, <1>inl, <2>2, <2>5, <2>6 DEF Held
  <2>8. \A r : Held(r)' \in Nat
    BY <1>n, <1>held, <1>inl, <2>2, <2>6 DEF Held
  <2>9. Owing(q) = 1
    BY <1>b, <1>m, <2>4, <2>7, <2>8
  <2>10. ans[q] = Waiting /\ a # Waiting
    BY <2>4, <2>9, RequestsDiffer DEF Owing
  <2>11. \A r \in Requests : Owing(r)' = IF q = r THEN 0 ELSE Owing(r)
    BY <1>ty, <2>1, <2>4, <2>10 DEF Owing
  <2>12. B
    BY <1>b, <1>m, <2>7, <2>8, <2>9, <2>11 DEF B
  <2>13. Fresh'
    BY <1>f, <1>ty, <2>1, <2>2, <2>4, <2>10, FreshAnswered
  <2>14. Hands'
    BY <1>h, <2>2 DEF Hands
  <2> QED  BY <1>z, <2>12, <2>13, <2>14
<1> QED
  BY <1>1, <1>3, <1>4, <1>5, <1>6, <1>7, <1>8, <1>9, <1>10, <1>11, <1>12, <1>13, <1>14, <1>15
  DEF Next, Worker, Thread, StopSteps

\* A request without an answer is in exactly one place, an answered one in none.
THEOREM OnePlace == Spec => []InOnePlace
<1>1. OneInv => InOnePlace
  BY OnePlaceMeans DEF OneInv, Inv
<1> QED  BY InitOne, NextOne, <1>1, PTL DEF Spec

-----------------------------------------------------------------------------
(* The session pools and the fallback.                                      *)

\* Where nothing is known yet of the count of leases.
LeasePools == [size : 0 .. Size, free : SUBSET (1 .. Size), active : Int,
               closing : BOOLEAN, trt : SUBSET (1 .. Size)]

\* Who is at a pool has one, and a pool is closed only after self.pool has left it for good:
\* a pool that is published later has a number nobody holds.
Shape ==
    /\ pools \in Seq(LeasePools) /\ pool \in 0 .. Len(pools)
    /\ onTrt \in BOOLEAN /\ disabled \in BOOLEAN /\ pressure \in BOOLEAN
    /\ caller \in [Callers -> CallerRec] /\ \A t \in Callers : caller[t].ref <= Len(pools)
    /\ \A t \in Callers : caller[t].at \in {"lease", "asleep", "run", "wait"} => caller[t].ref # 0
    /\ \A t \in Callers : caller[t].at = "run" => caller[t].item # 0
    /\ \A t \in Callers : caller[t].at \in {"release", "wait"} => caller[t].ref = 0 \/ caller[t].ref # pool
    /\ PublishedIsOpen

-----------------------------------------------------------------------------
(* What the helpers of the pool do to a record.                             *)

LEMMA PoolEdits ==
    ASSUME NEW q \in LeasePools, NEW i \in 1 .. Size
    PROVE  /\ Lent(q, i) \in LeasePools /\ Returned(q, i) \in LeasePools
           /\ Closed(q) \in LeasePools /\ Emptied(q) \in LeasePools
<1> DEFINE less == q.free \ {i}
           more == q.free \cup {i}
           up == q.active + 1
           down == q.active - 1
           none == {}
<1>1. less \in SUBSET (1 .. Size) /\ more \in SUBSET (1 .. Size) /\ none \in SUBSET (1 .. Size)
  BY DEF LeasePools
<1>2. up \in Int /\ down \in Int /\ 0 \in 0 .. Size
  BY PoolAssumption DEF LeasePools
<1>3. /\ Lent(q, i) = [q EXCEPT !.free = less, !.active = up]
      /\ Returned(q, i) = [q EXCEPT !.free = more, !.active = down]
      /\ Emptied(q) = [q EXCEPT !.size = 0, !.free = none]
  BY DEF Lent, Returned, Emptied
<1> HIDE DEF less, more, up, down, none
<1>4. Lent(q, i) \in LeasePools
  BY <1>1, <1>2, <1>3 DEF LeasePools
<1>5. Returned(q, i) \in LeasePools
  BY <1>1, <1>2, <1>3 DEF LeasePools
<1>6. Emptied(q) \in LeasePools
  BY <1>1, <1>2, <1>3 DEF LeasePools
<1>7. Closed(q) \in LeasePools
  BY DEF LeasePools, Closed
<1> QED  BY <1>4, <1>5, <1>6, <1>7

\* The fields, for proofs that leave the records closed.
LEMMA PoolFields ==
    ASSUME NEW q \in LeasePools, NEW i
    PROVE  /\ Lent(q, i).size = q.size /\ Lent(q, i).closing = q.closing
           /\ Lent(q, i).free = q.free \ {i} /\ Lent(q, i).active = q.active + 1
           /\ Returned(q, i).size = q.size /\ Returned(q, i).closing = q.closing
           /\ Returned(q, i).free = q.free \cup {i} /\ Returned(q, i).active = q.active - 1
           /\ Closed(q).size = q.size /\ Closed(q).free = q.free /\ Closed(q).active = q.active
           /\ Emptied(q).size = 0 /\ Emptied(q).closing = q.closing
           /\ Emptied(q).free = {} /\ Emptied(q).active = q.active
BY DEF LeasePools, Lent, Returned, Closed, Emptied

LEMMA MovedFields ==
    ASSUME caller \in [Callers -> CallerRec], NEW t \in Callers, NEW step \in Steps,
           NEW ref \in Nat, NEW item \in 0 .. Size
    PROVE  /\ Moved(t, step, ref, item) \in [Callers -> CallerRec]
           /\ \A u \in Callers :
                 /\ Moved(t, step, ref, item)[u].at = IF u = t THEN step ELSE caller[u].at
                 /\ Moved(t, step, ref, item)[u].ref = IF u = t THEN ref ELSE caller[u].ref
                 /\ Moved(t, step, ref, item)[u].item = IF u = t THEN item ELSE caller[u].item
<1> DEFINE next == [caller[t] EXCEPT !.at = step, !.ref = ref, !.item = item]
<1>1. Moved(t, step, ref, item) = [caller EXCEPT ![t] = next]
  BY DEF Moved
<1>2. next \in CallerRec /\ next.at = step /\ next.ref = ref /\ next.item = item
  BY DEF CallerRec
<1> HIDE DEF next
<1> QED  BY <1>1, <1>2

-----------------------------------------------------------------------------
(* Shape.                                                                   *)

LEMMA InitShape == PoolInit => Shape
<1> SUFFICES ASSUME PoolInit PROVE Shape  OBVIOUS
<1> USE PoolAssumption DEF PoolInit, NewPool
<1>0. NewPool(Size, 1 .. Size) \in LeasePools
  BY DEF LeasePools
<1>1. pools \in Seq(LeasePools) /\ Len(pools) = 1 /\ pools[1].closing = FALSE
  BY <1>0
<1>2. caller \in [Callers -> CallerRec]
  BY DEF CallerRec, Steps
<1>3. \A t \in Callers : caller[t].ref = 0 /\ caller[t].at = "idle"
  OBVIOUS
<1>4. pool = 1 /\ onTrt \in BOOLEAN /\ disabled \in BOOLEAN /\ pressure \in BOOLEAN
  OBVIOUS
<1> QED  BY ONLY <1>1, <1>2, <1>3, <1>4 DEF Shape, PublishedIsOpen

\* Waking sleepers moves them to the next turn of their loop and touches nothing else.
LEMMA NotifiedMoves ==
    ASSUME NEW p, NEW f \in [Callers -> CallerRec]
    PROVE  /\ Notified(p, f) \in [Callers -> CallerRec]
           /\ \A u \in Callers :
                 /\ Notified(p, f)[u].ref = f[u].ref /\ Notified(p, f)[u].item = f[u].item
                 /\ \/ Notified(p, f)[u].at = f[u].at
                    \/ f[u].at = "asleep" /\ Notified(p, f)[u].at = "lease"
BY DEF Notified, CallerRec, Steps

\* A worker that walks on without touching a pool, to a step that needs none.
LEMMA WalkShape ==
    ASSUME Shape, NEW t \in Callers, UNCHANGED <<pools, pool>>,
           onTrt' \in BOOLEAN, disabled' \in BOOLEAN, pressure' \in BOOLEAN,
           NEW next \in CallerRec, caller' = [caller EXCEPT ![t] = next],
           next.ref <= Len(pools),
           next.at # "run", next.at \in {"lease", "asleep", "wait"} => next.ref # 0,
           next.at \in {"release", "wait"} => next.ref = 0 \/ next.ref # pool
    PROVE  Shape'
<1>1. caller' \in [Callers -> CallerRec]
  BY DEF Shape
<1>2. \A u \in Callers : caller'[u] = IF u = t THEN next ELSE caller[u]
  BY DEF Shape
<1> QED  BY <1>1, <1>2 DEF Shape, PublishedIsOpen

LEMMA CallShape ==
    ASSUME Shape, NEW t \in Callers,
           Begin(t) \/ Check(t) \/ Get(t) \/ Direct(t) \/ TryFallback(t) \/ Raised(t)
    PROVE  Shape'
<1> USE DEF To, At, Fail
<1>0. caller[t] \in CallerRec /\ caller[t].ref <= Len(pools) /\ Len(pools) \in Nat
      /\ pool \in Nat /\ pool <= Len(pools) /\ onTrt \in BOOLEAN /\ disabled \in BOOLEAN /\ pressure \in BOOLEAN
  BY DEF Shape
<1>1. CASE Begin(t)
  <2>1. PICK single \in BOOLEAN :
           caller' = [caller EXCEPT ![t] = [at |-> "check", calls |-> @.calls + 1, single |-> single,
                                            clean |-> Settled, again |-> FALSE, ref |-> 0, item |-> 0]]
    BY <1>1 DEF Begin
  <2> DEFINE next == [at |-> "check", calls |-> caller[t].calls + 1, single |-> single,
                      clean |-> Settled, again |-> FALSE, ref |-> 0, item |-> 0]
  <2>2. caller' = [caller EXCEPT ![t] = next]
    BY <2>1
  <2>3. Settled \in BOOLEAN
    BY DEF Settled
  <2>4. next \in CallerRec /\ next.at = "check" /\ next.ref = 0
    BY <1>0, <1>1, <2>3, PoolAssumption DEF Begin, CallerRec, Steps
  <2> HIDE DEF next
  <2>5. UNCHANGED <<pools, pool, onTrt, disabled, pressure>>
    BY <1>1 DEF Begin
  <2>6. next.ref <= Len(pools)
    BY <1>0, <2>4
  <2> QED  BY ONLY Shape, t \in Callers, <1>0, <2>2, <2>4, <2>5, <2>6, WalkShape
<1>2. ASSUME NEW step \in Steps \ {"lease", "asleep", "run", "wait", "release"}, To(t, step),
             UNCHANGED <<pools, pool, onTrt, disabled, pressure>>
      PROVE  Shape'
  <2> DEFINE next == [caller[t] EXCEPT !.at = step]
  <2>1. caller' = [caller EXCEPT ![t] = next]
    BY <1>2
  <2>2. next \in CallerRec /\ next.at = step /\ next.ref = caller[t].ref
    BY <1>0 DEF CallerRec
  <2> HIDE DEF next
  <2> QED  BY <1>0, <1>2, <2>1, <2>2, WalkShape
<1>3. CASE Check(t) \/ TryFallback(t) \/ Raised(t)
  BY <1>2, <1>3 DEF Check, TryFallback, Raised, Steps
<1>4. CASE Direct(t)
  BY <1>2, <1>4 DEF Direct, Outcomes, Ended, Steps
<1>5. CASE Get(t)
  <2>1. CASE pool = 0
    BY <1>2, <1>5, <2>1 DEF Get, Steps
  <2>2. CASE pool # 0
    <3> DEFINE next == [caller[t] EXCEPT !.at = "lease", !.ref = pool]
    <3>1. caller' = [caller EXCEPT ![t] = next]
      BY <1>5, <2>2 DEF Get
    <3>2. next \in CallerRec /\ next.at = "lease" /\ next.ref = pool
      BY <1>0 DEF CallerRec, Steps
    <3> HIDE DEF next
    <3> QED  BY <1>0, <1>5, <2>2, <3>1, <3>2, WalkShape DEF Get
  <2> QED  BY <2>1, <2>2
<1> QED  BY <1>1, <1>3, <1>4, <1>5

LEMMA RebuildShape ==
    ASSUME Shape, NEW t \in Callers,
           Build(t) \/ Look(t) \/ Take(t) \/ Unset(t) \/ Publish(t) \/ Mark(t)
    PROVE  Shape'
<1> USE DEF To, At
<1>0. caller[t] \in CallerRec /\ caller[t].ref <= Len(pools) /\ Len(pools) \in Nat
      /\ pool \in Nat /\ pool <= Len(pools) /\ onTrt \in BOOLEAN /\ disabled \in BOOLEAN /\ pressure \in BOOLEAN
  BY DEF Shape
<1>1. ASSUME NEW step \in Steps \ {"lease", "asleep", "run", "wait", "release"}, To(t, step),
             UNCHANGED <<pools, pool>>,
             onTrt' \in BOOLEAN, disabled' \in BOOLEAN, pressure' \in BOOLEAN
      PROVE  Shape'
  <2> DEFINE next == [caller[t] EXCEPT !.at = step]
  <2>1. caller' = [caller EXCEPT ![t] = next]
    BY <1>1
  <2>2. next \in CallerRec /\ next.at = step /\ next.ref = caller[t].ref
    BY <1>0 DEF CallerRec
  <2> HIDE DEF next
  <2> QED  BY <1>0, <1>1, <2>1, <2>2, WalkShape
<1>2. CASE Build(t)
  BY <1>0, <1>1, <1>2 DEF Build, Steps
<1>3. CASE Look(t)
  BY <1>0, <1>1, <1>3 DEF Look, Steps
<1>4. CASE Take(t)
  <2> DEFINE next == [caller[t] EXCEPT !.at = "unset", !.ref = pool]
  <2>1. caller' = [caller EXCEPT ![t] = next]
    BY <1>4 DEF Take
  <2>2. next \in CallerRec /\ next.at = "unset" /\ next.ref = pool
    BY <1>0 DEF CallerRec, Steps
  <2> HIDE DEF next
  <2> QED  BY <1>0, <1>4, <2>1, <2>2, WalkShape DEF Take
<1>5. CASE Mark(t)
  <2> DEFINE next == [caller[t] EXCEPT !.at = "check", !.again = TRUE]
  <2>1. caller' = [caller EXCEPT ![t] = next]
    BY <1>5 DEF Mark
  <2>2. next \in CallerRec /\ next.at = "check" /\ next.ref = caller[t].ref
    BY <1>0 DEF CallerRec, Steps
  <2> HIDE DEF next
  <2> QED  BY <1>0, <1>5, <2>1, <2>2, WalkShape DEF Mark
<1>6. CASE Unset(t)
  <2>1. pool' = 0 /\ caller' = [caller EXCEPT ![t].at = "release"] /\ UNCHANGED <<pools, onTrt, disabled, pressure>>
    BY <1>6 DEF Unset
  <2>2. caller' \in [Callers -> CallerRec]
        /\ \A u \in Callers : /\ caller'[u].ref = caller[u].ref /\ caller'[u].item = caller[u].item
                              /\ caller'[u].at = IF u = t THEN "release" ELSE caller[u].at
    BY <2>1 DEF Shape, CallerRec, Steps
  <2> QED  BY <1>0, <2>1, <2>2 DEF Shape, PublishedIsOpen
<1>7. CASE Publish(t)
  <2>1. CASE UNCHANGED <<pools, pool>>
    BY <1>0, <1>1, <1>7, <2>1, PoolAssumption DEF Publish, Shape, Steps
  <2>2. CASE ~UNCHANGED <<pools, pool>>
    <3>1. PICK n \in 1 .. Size : pools' = Append(pools, NewPool(n, IF onTrt THEN {1} ELSE {}))
      BY <1>7, <2>2 DEF Publish
    <3>2. pool' = Len(pools) + 1 /\ caller' = [caller EXCEPT ![t].at = "mark"] /\ UNCHANGED <<onTrt, disabled, pressure>>
      BY <1>7, <2>2 DEF Publish
    <3> DEFINE new == NewPool(n, IF onTrt THEN {1} ELSE {})
    <3>3. new \in LeasePools /\ new.closing = FALSE
      BY PoolAssumption DEF NewPool, LeasePools
    <3>4. pools' = Append(pools, new)
      BY <3>1
    <3> HIDE DEF new
    <3>5. pools' \in Seq(LeasePools) /\ Len(pools') = Len(pools) + 1 /\ pools'[Len(pools) + 1] = new
      BY <3>3, <3>4, AppendProperties DEF Shape
    <3>6. caller' \in [Callers -> CallerRec]
          /\ \A u \in Callers : /\ caller'[u].ref = caller[u].ref /\ caller'[u].item = caller[u].item
                                /\ caller'[u].at = IF u = t THEN "mark" ELSE caller[u].at
      BY <3>2 DEF Shape, CallerRec, Steps
    <3>7. \A u \in Callers : caller[u].ref \in Nat /\ caller[u].ref <= Len(pools)
      BY DEF Shape, CallerRec
    <3> QED  BY <1>0, <3>2, <3>3, <3>5, <3>6, <3>7 DEF Shape, PublishedIsOpen
  <2> QED  BY <2>1, <2>2
<1> QED  BY <1>2, <1>3, <1>4, <1>5, <1>6, <1>7

\* A step at the worker's pool, which keeps it open unless its worker is releasing it.
LEMMA PoolShape ==
    ASSUME Shape, NEW t \in Callers, caller[t].ref # 0,
           UNCHANGED <<pool, onTrt, disabled, pressure>>,
           NEW q \in LeasePools, pools' = [pools EXCEPT ![caller[t].ref] = q],
           q.closing => pools[caller[t].ref].closing \/ caller[t].ref # pool,
           NEW f \in [Callers -> CallerRec],
           \A u \in Callers \ {t} : f[u].at = caller[u].at /\ f[u].ref = caller[u].ref /\ f[u].item = caller[u].item,
           f[t].ref \in {0, caller[t].ref},
           f[t].at \in {"lease", "asleep", "run", "wait"} => f[t].ref # 0,
           f[t].at = "run" => f[t].item # 0,
           f[t].at \in {"release", "wait"} => f[t].ref = 0 \/ f[t].ref # pool,
           caller' \in {f, Notified(caller[t].ref, f)}
    PROVE  Shape'
<1> DEFINE r == caller[t].ref
<1>1. r \in 1 .. Len(pools)
  BY DEF Shape, CallerRec
<1>2. pools \in Seq(LeasePools) /\ pool \in 0 .. Len(pools)
  BY DEF Shape
<1>3. pools' \in Seq(LeasePools) /\ Len(pools') = Len(pools)
      /\ \A i \in 1 .. Len(pools) : pools'[i] = IF i = r THEN q ELSE pools[i]
  BY <1>1, <1>2, ExceptSeq
<1>4. caller' \in [Callers -> CallerRec]
      /\ \A u \in Callers : /\ caller'[u].ref = f[u].ref /\ caller'[u].item = f[u].item
                            /\ \/ caller'[u].at = f[u].at
                               \/ f[u].at = "asleep" /\ caller'[u].at = "lease"
  <2>1. Notified(r, f) \in [Callers -> CallerRec]
    BY NotifiedMoves
  <2>2. \A u \in Callers : /\ Notified(r, f)[u].ref = f[u].ref /\ Notified(r, f)[u].item = f[u].item
                           /\ \/ Notified(r, f)[u].at = f[u].at
                              \/ f[u].at = "asleep" /\ Notified(r, f)[u].at = "lease"
    BY NotifiedMoves
  <2> QED  BY <2>1, <2>2
<1>5. 0 <= Len(pools) /\ r <= Len(pools) /\ \A u \in Callers : caller[u].ref <= Len(pools)
  BY <1>1, <1>2 DEF Shape
<1>6. \A u \in Callers :
          /\ caller[u].at \in {"lease", "asleep", "run", "wait"} => caller[u].ref # 0
          /\ caller[u].at = "run" => caller[u].item # 0
          /\ caller[u].at \in {"release", "wait"} => caller[u].ref = 0 \/ caller[u].ref # pool
  BY DEF Shape
<1>7. \A u \in Callers : /\ caller'[u].ref <= Len(pools)
                         /\ caller'[u].at \in {"lease", "asleep", "run", "wait"} => caller'[u].ref # 0
                         /\ caller'[u].at = "run" => caller'[u].item # 0
                         /\ caller'[u].at \in {"release", "wait"} => caller'[u].ref = 0 \/ caller'[u].ref # pool
  BY <1>4, <1>5, <1>6
<1>8. PublishedIsOpen'
  BY <1>1, <1>2, <1>3 DEF Shape, PublishedIsOpen
<1> QED  BY <1>2, <1>3, <1>4, <1>7, <1>8 DEF Shape

\* The five ways of a step at a pool, and the refusals, which are walks.
Refused(t) == caller[t].at # "run" /\ UNCHANGED pools /\ \E step \in {"failed", "raised"} : To(t, step)

Leased(t, i) ==
    LET p == caller[t].ref IN
    /\ At(t, "lease") /\ i \in pools[p].free
    /\ pools' = [pools EXCEPT ![p] = Lent(@, i)]
    /\ caller' = Notified(p, Moved(t, "run", p, i))

PutToSleep(t) ==
    LET p == caller[t].ref IN
    /\ At(t, "lease") /\ UNCHANGED pools
    /\ caller' = [Notified(p, caller) EXCEPT ![t].at = "asleep"]

GivenBack(t, step) ==
    LET p == caller[t].ref IN
    /\ At(t, "run")
    /\ pools' = [pools EXCEPT ![p] = Returned(@, caller[t].item)]
    /\ caller' = Notified(p, Moved(t, step, 0, 0))

Shut(t) ==
    LET p == caller[t].ref IN
    /\ At(t, "release") /\ p # 0
    /\ pools' = [pools EXCEPT ![p] = Closed(@)]
    /\ To(t, "wait")

Drained(t) ==
    LET p == caller[t].ref IN
    /\ At(t, "wait") /\ Idle(p)
    /\ pools' = [pools EXCEPT ![p] = Emptied(@)]
    /\ caller' = Notified(p, Moved(t, "publish", 0, 0))

Ends == {"idle", "failed", "raised"}

LEMMA PoolSteps ==
    ASSUME NEW t \in Callers, Lease(t) \/ Run(t) \/ Release(t) \/ Wait(t)
    PROVE  /\ UNCHANGED <<pool, onTrt, disabled, pressure>>
           /\ \/ Refused(t)
              \/ \E i : Leased(t, i)
              \/ PutToSleep(t)
              \/ \E step \in Ends : GivenBack(t, step)
              \/ Shut(t)
              \/ Drained(t)
<1>1. CASE Lease(t)
  <2> DEFINE p == caller[t].ref
  <2>1. CASE pools[p].closing
    BY <1>1, <2>1 DEF Lease, At, Fail, To, Refused
  <2>2. CASE ~pools[p].closing /\ pools[p].active < Limit(p)
    BY <1>1, <2>2 DEF Lease, Leased
  <2>3. CASE ~pools[p].closing /\ ~(pools[p].active < Limit(p))
    BY <1>1, <2>3 DEF Lease, PutToSleep
  <2> QED  BY <1>1, <2>1, <2>2, <2>3 DEF Lease
<1>2. CASE Run(t)
  <2>1. PICK o \in {"idle", "failed"} : caller' = Notified(caller[t].ref, Moved(t, Ended(t, o), 0, 0))
    BY <1>2 DEF Run, Outcomes
  <2>2. Ended(t, o) \in Ends
    BY DEF Ended, Ends
  <2>3. GivenBack(t, Ended(t, o))
    BY <1>2, <2>1 DEF Run, GivenBack
  <2> QED  BY <1>2, <2>2, <2>3 DEF Run
<1>3. CASE Release(t)
  BY <1>3 DEF Release, At, Shut, Refused
<1>4. CASE Wait(t)
  BY <1>4 DEF Wait, Drained
<1> QED  BY <1>1, <1>2, <1>3, <1>4

LEMMA PoolStepShape ==
    ASSUME Shape, NEW t \in Callers, Lease(t) \/ Run(t) \/ Release(t) \/ Wait(t)
    PROVE  Shape'
<1> DEFINE p == caller[t].ref
<1>0. caller \in [Callers -> CallerRec] /\ caller[t] \in CallerRec /\ p \in Nat /\ p <= Len(pools)
      /\ onTrt \in BOOLEAN /\ disabled \in BOOLEAN /\ pressure \in BOOLEAN
  BY DEF Shape, CallerRec
<1>1. p # 0 => pools[p] \in LeasePools
  BY <1>0, ElementOfSeq DEF Shape
<1>2. UNCHANGED <<pool, onTrt, disabled, pressure>>
  BY PoolSteps
<1>3. "run" \in Steps /\ "wait" \in Steps /\ "publish" \in Steps /\ Ends \subseteq Steps /\ 0 \in 0 .. Size /\ 0 \in Nat
  BY PoolAssumption DEF Ends, Steps
<1>4. CASE Refused(t)
  <2>1. PICK step \in {"failed", "raised"} : To(t, step) /\ UNCHANGED pools
    BY <1>4 DEF Refused
  <2> DEFINE next == [caller[t] EXCEPT !.at = step]
  <2>2. caller' = [caller EXCEPT ![t] = next]
    BY <2>1 DEF To
  <2>3. next \in CallerRec /\ next.at = step /\ next.ref = p
    BY <1>0 DEF CallerRec, Steps
  <2> HIDE DEF next
  <2> QED  BY <1>0, <1>2, <2>1, <2>2, <2>3, WalkShape
<1>5. ASSUME NEW i, Leased(t, i)  PROVE Shape'
  <2> DEFINE q == Lent(pools[p], i)
             f == Moved(t, "run", p, i)
  <2>1. caller' = Notified(p, f) /\ pools' = [pools EXCEPT ![p] = q] /\ i \in pools[p].free
    BY <1>5 DEF Leased
  <2>2. p # 0
    BY <1>5 DEF Leased, At, Shape
  <2>3. i \in 1 .. Size /\ i \in 0 .. Size /\ i # 0
    <3>1. i \in 1 .. Size
      BY <1>1, <2>1, <2>2 DEF LeasePools
    <3> QED  BY <3>1, PoolAssumption
  <2>4. q \in LeasePools /\ q.closing = pools[p].closing
    BY <1>1, <2>2, <2>3, PoolEdits, PoolFields
  <2>5. f \in [Callers -> CallerRec]
        /\ \A u \in Callers : /\ f[u].at = IF u = t THEN "run" ELSE caller[u].at
                              /\ f[u].ref = IF u = t THEN p ELSE caller[u].ref
                              /\ f[u].item = IF u = t THEN i ELSE caller[u].item
    BY <1>0, <1>3, <2>3, MovedFields
  <2> HIDE DEF q, f
  <2> QED  BY <1>2, <1>3, <2>1, <2>2, <2>3, <2>4, <2>5, PoolShape
<1>6. ASSUME NEW step \in Ends, GivenBack(t, step)  PROVE Shape'
  <2> DEFINE q == Returned(pools[p], caller[t].item)
             f == Moved(t, step, 0, 0)
  <2>1. caller' = Notified(p, f) /\ pools' = [pools EXCEPT ![p] = q]
    BY <1>6 DEF GivenBack
  <2>2. p # 0 /\ caller[t].item # 0 /\ caller[t].item \in 0 .. Size
    BY <1>0, <1>6 DEF GivenBack, At, Shape, CallerRec
  <2>3. caller[t].item \in 1 .. Size
    BY <2>2, PoolAssumption
  <2>4. q \in LeasePools /\ q.closing = pools[p].closing
    BY <1>1, <2>2, <2>3, PoolEdits, PoolFields
  <2>5. f \in [Callers -> CallerRec]
        /\ \A u \in Callers : /\ f[u].at = IF u = t THEN step ELSE caller[u].at
                              /\ f[u].ref = IF u = t THEN 0 ELSE caller[u].ref
                              /\ f[u].item = IF u = t THEN 0 ELSE caller[u].item
    BY <1>0, <1>3, MovedFields
  <2>6. step \notin {"lease", "asleep", "run", "wait", "release"}
    BY DEF Ends
  <2> HIDE DEF q, f
  <2> QED  BY <1>2, <1>3, <2>1, <2>2, <2>4, <2>5, <2>6, PoolShape
<1>7. CASE Shut(t)
  <2> DEFINE q == Closed(pools[p])
             next == [caller[t] EXCEPT !.at = "wait"]
             f == [caller EXCEPT ![t] = next]
  <2>1. caller' = f /\ pools' = [pools EXCEPT ![p] = q]
    BY <1>7 DEF Shut, To
  <2>2. p # 0 /\ p # pool
    BY <1>7 DEF Shut, At, Shape
  <2>3. q \in LeasePools
    <3>1. 1 \in 1 .. Size
      BY PoolAssumption
    <3> QED  BY <1>1, <2>2, <3>1, PoolEdits
  <2>4. next \in CallerRec /\ next.at = "wait" /\ next.ref = p /\ next.item = caller[t].item /\ caller[t].item \in 0 .. Size
    BY <1>0 DEF CallerRec, Steps
  <2> HIDE DEF q, next
  <2>5. f \in [Callers -> CallerRec]
        /\ \A u \in Callers : /\ f[u].at = IF u = t THEN "wait" ELSE caller[u].at
                              /\ f[u].ref = IF u = t THEN p ELSE caller[u].ref
                              /\ f[u].item = IF u = t THEN caller[t].item ELSE caller[u].item
    BY <1>0, <2>4
  <2> HIDE DEF f
  <2> QED  BY <1>2, <1>3, <2>1, <2>2, <2>3, <2>4, <2>5, PoolShape
<1>8. CASE Drained(t)
  <2> DEFINE q == Emptied(pools[p])
             f == Moved(t, "publish", 0, 0)
  <2>1. caller' = Notified(p, f) /\ pools' = [pools EXCEPT ![p] = q]
    BY <1>8 DEF Drained
  <2>2. p # 0
    BY <1>8 DEF Drained, At, Shape
  <2>4. q \in LeasePools /\ q.closing = pools[p].closing
    <3>1. 1 \in 1 .. Size
      BY PoolAssumption
    <3> QED  BY <1>1, <2>2, <3>1, PoolEdits, PoolFields
  <2>5. f \in [Callers -> CallerRec]
        /\ \A u \in Callers : /\ f[u].at = IF u = t THEN "publish" ELSE caller[u].at
                              /\ f[u].ref = IF u = t THEN 0 ELSE caller[u].ref
                              /\ f[u].item = IF u = t THEN 0 ELSE caller[u].item
    BY <1>0, <1>3, MovedFields
  <2> HIDE DEF q, f
  <2> QED  BY <1>2, <1>3, <2>1, <2>2, <2>4, <2>5, PoolShape
<1>9. CASE PutToSleep(t)
  <2> DEFINE f == Notified(p, caller)
  <2>1. f \in [Callers -> CallerRec]
        /\ \A u \in Callers : /\ f[u].ref = caller[u].ref /\ f[u].item = caller[u].item
                              /\ \/ f[u].at = caller[u].at
                                 \/ caller[u].at = "asleep" /\ f[u].at = "lease"
    <3>1. f \in [Callers -> CallerRec]
      BY <1>0, NotifiedMoves
    <3>2. \A u \in Callers : /\ f[u].ref = caller[u].ref /\ f[u].item = caller[u].item
                             /\ \/ f[u].at = caller[u].at
                                \/ caller[u].at = "asleep" /\ f[u].at = "lease"
      BY <1>0, NotifiedMoves
    <3> QED  BY <3>1, <3>2
  <2>2. caller' = [f EXCEPT ![t].at = "asleep"] /\ UNCHANGED pools /\ p # 0
    BY <1>9 DEF PutToSleep, At, Shape
  <2> HIDE DEF f
  <2>3. caller' \in [Callers -> CallerRec]
        /\ \A u \in Callers : /\ caller'[u].ref = caller[u].ref /\ caller'[u].item = caller[u].item
                              /\ \/ caller'[u].at = caller[u].at
                                 \/ caller'[u].at = "lease" /\ caller[u].at = "asleep"
                                 \/ caller'[u].at = "asleep" /\ caller[u].ref # 0
    BY <2>1, <2>2 DEF CallerRec, Steps
  <2> QED  BY <1>2, <2>2, <2>3 DEF Shape, PublishedIsOpen
<1> QED  BY PoolSteps, <1>4, <1>5, <1>6, <1>7, <1>8, <1>9

LEMMA StepShape == Shape /\ [PoolNext]_poolVars => Shape'
<1> SUFFICES ASSUME Shape, [PoolNext]_poolVars PROVE Shape'  OBVIOUS
<1>1. CASE UNCHANGED poolVars
  BY <1>1 DEF poolVars, Shape, PublishedIsOpen
<1>2. CASE Memory
  BY <1>2 DEF Memory, Shape, PublishedIsOpen
<1>3. ASSUME NEW t \in Callers, Begin(t) \/ Caller(t) PROVE Shape'
  BY <1>3, CallShape, RebuildShape, PoolStepShape DEF Caller
<1> QED  BY <1>1, <1>2, <1>3 DEF PoolNext

-----------------------------------------------------------------------------
(* Leases.                                                                  *)

\* LeasesExact for one pool; what is free are sessions of the pool.
Exact(p) ==
    /\ pools[p].active = Cardinality(RunsIn(p))
    /\ \A t \in RunsIn(p) : caller[t].item \in (1 .. pools[p].size) \ pools[p].free
    /\ \A t, u \in RunsIn(p) : caller[t].item = caller[u].item => t = u
    /\ Cardinality(pools[p].free) + pools[p].active = pools[p].size
    /\ pools[p].free \subseteq 1 .. pools[p].size

Leases == \A p \in 1 .. Len(pools) : Exact(p)

\* The workers that run a session are the same, each with its own.
RunsKept == \A u \in Callers : /\ caller'[u].at = "run" <=> caller[u].at = "run"
                               /\ caller[u].at = "run" => /\ caller'[u].ref = caller[u].ref
                                                          /\ caller'[u].item = caller[u].item

LEMMA FiniteParts ==
    ASSUME Shape, NEW p \in 1 .. Len(pools)
    PROVE  /\ pools[p] \in LeasePools
           /\ IsFiniteSet(pools[p].free) /\ Cardinality(pools[p].free) \in Nat
           /\ IsFiniteSet(RunsIn(p)) /\ Cardinality(RunsIn(p)) \in Nat
<1>1. pools[p] \in LeasePools
  BY ElementOfSeq DEF Shape
<1>2. pools[p].free \in SUBSET (1 .. Size)
  BY <1>1 DEF LeasePools
<1>3. 1 \in Int /\ Size \in Int
  BY PoolAssumption
<1>4. IsFiniteSet(1 .. Size)
  BY <1>3, FS_Interval
<1>5. IsFiniteSet(pools[p].free)
  BY <1>2, <1>4, FS_Subset
<1>6. RunsIn(p) \in SUBSET Callers
  BY DEF RunsIn
<1>7. IsFiniteSet(RunsIn(p))
  BY <1>6, CallersAssumption, FS_Subset
<1> QED  BY <1>1, <1>5, <1>7, FS_CardinalityType

LEMMA InitLeases == PoolInit => Leases
<1> SUFFICES ASSUME PoolInit PROVE Leases  OBVIOUS
<1>1. Len(pools) = 1 /\ pools[1] = NewPool(Size, 1 .. Size)
  BY DEF PoolInit
<1>2. RunsIn(1) = {}
  BY DEF PoolInit, RunsIn
<1>3. Cardinality(1 .. Size) = Size
  BY PoolAssumption, FS_Interval
<1>4. Cardinality(RunsIn(1)) = 0
  BY <1>2, FS_EmptySet
<1>5. Exact(1)
  BY <1>1, <1>2, <1>3, <1>4, PoolAssumption DEF Exact, NewPool
<1> QED  BY <1>1, <1>5 DEF Leases

\* A pool whose record and whose runs stay is exact before and after.
LEMMA SamePool ==
    ASSUME NEW p, Exact(p), pools'[p].size = pools[p].size, pools'[p].free = pools[p].free,
           pools'[p].active = pools[p].active,
           \A u \in Callers : /\ caller'[u].at = "run" /\ caller'[u].ref = p
                                 <=> caller[u].at = "run" /\ caller[u].ref = p
                              /\ caller[u].at = "run" /\ caller[u].ref = p
                                 => caller'[u].item = caller[u].item
    PROVE  Exact(p)'
<1>1. RunsIn(p)' = RunsIn(p)
  BY DEF RunsIn
<1>2. \A u \in RunsIn(p) : caller'[u].item = caller[u].item
  BY DEF RunsIn
<1> QED  BY <1>1, <1>2 DEF Exact

LEMMA WalkKeepsRuns ==
    ASSUME Shape, NEW t \in Callers,
           Begin(t) \/ Check(t) \/ Get(t) \/ Direct(t) \/ TryFallback(t) \/ Raised(t) \/ Build(t)
           \/ Look(t) \/ Take(t) \/ Unset(t) \/ Mark(t) \/ Refused(t)
    PROVE  RunsKept
<1> USE DEF To, At, RunsKept, Fail
<1>1. caller \in [Callers -> CallerRec] /\ caller[t] \in CallerRec
  BY DEF Shape
<1>2. ASSUME NEW step \in Steps \ {"run"}, To(t, step), caller[t].at # "run"  PROVE RunsKept
  BY <1>1, <1>2 DEF CallerRec
<1>3. CASE Begin(t)
  <2>1. PICK single \in BOOLEAN :
           caller' = [caller EXCEPT ![t] = [at |-> "check", calls |-> @.calls + 1, single |-> single,
                                            clean |-> Settled, again |-> FALSE, ref |-> 0, item |-> 0]]
    BY <1>3 DEF Begin
  <2> QED  BY <1>1, <1>3, <2>1 DEF Begin
<1>4. CASE Check(t) \/ TryFallback(t) \/ Raised(t) \/ Build(t) \/ Look(t) \/ Unset(t)
  BY <1>2, <1>4 DEF Check, TryFallback, Raised, Build, Look, Unset, Steps
<1>5. CASE Direct(t)
  BY <1>2, <1>5 DEF Direct, Outcomes, Ended, Steps
<1>6. CASE Get(t)
  BY <1>1, <1>6 DEF Get, CallerRec
<1>7. CASE Take(t)
  BY <1>1, <1>7 DEF Take, CallerRec
<1>8. CASE Mark(t)
  BY <1>1, <1>8 DEF Mark, CallerRec
<1>9. CASE Refused(t)
  BY <1>2, <1>9 DEF Refused, Steps
<1> QED  BY <1>3, <1>4, <1>5, <1>6, <1>7, <1>8, <1>9

LEMMA KeptLeases ==
    ASSUME Shape, Leases, UNCHANGED pools, RunsKept
    PROVE  Leases'
<1> SUFFICES ASSUME NEW p \in 1 .. Len(pools) PROVE Exact(p)'
  BY DEF Leases
<1> QED  BY SamePool DEF Leases, RunsKept

LEMMA PublishLeases ==
    ASSUME Shape, Leases, NEW t \in Callers, Publish(t)
    PROVE  Leases'
<1>1. RunsKept
  <2>1. caller[t].at # "run" /\ caller[t] \in CallerRec /\ caller \in [Callers -> CallerRec]
    BY DEF Publish, At, Shape
  <2>2. \E step \in {"mark", "raised"} : caller' = [caller EXCEPT ![t].at = step]
    BY DEF Publish, To
  <2> QED  BY <2>1, <2>2 DEF CallerRec, RunsKept
<1>2. CASE UNCHANGED pools
  BY <1>1, <1>2, KeptLeases
<1>3. CASE ~UNCHANGED pools
  <2>1. PICK n \in 1 .. Size : pools' = Append(pools, NewPool(n, IF onTrt THEN {1} ELSE {}))
    BY <1>3 DEF Publish
  <2> DEFINE new == NewPool(n, IF onTrt THEN {1} ELSE {})
  <2>2. new \in LeasePools
    BY PoolAssumption DEF NewPool, LeasePools
  <2>3. n \in Nat /\ new.size = n /\ new.free = 1 .. n /\ new.active = 0
    BY PoolAssumption DEF NewPool
  <2>4. pools' = Append(pools, new)
    BY <2>1
  <2> HIDE DEF new
  <2>5. Len(pools) \in Nat /\ Len(pools') = Len(pools) + 1 /\ pools'[Len(pools) + 1] = new
        /\ \A p \in 1 .. Len(pools) : pools'[p] = pools[p]
    BY <2>2, <2>4, AppendProperties DEF Shape
  <2>6. ASSUME NEW p \in 1 .. Len(pools)  PROVE Exact(p)'
    BY <1>1, <2>5, SamePool DEF Leases, RunsKept
  <2>7. ASSUME NEW p, p = Len(pools) + 1  PROVE Exact(p)'
    <3>1. \A u \in Callers : caller[u].at = "run" => caller[u].ref # p
      BY <2>5, <2>7 DEF Shape
    <3>2. \A u \in Callers : ~(caller'[u].at = "run" /\ caller'[u].ref = p)
      BY <1>1, <3>1 DEF RunsKept
    <3>3. {u \in Callers : caller'[u].at = "run" /\ caller'[u].ref = p} = {}
      BY <3>2
    <3>4. Cardinality({u \in Callers : caller'[u].at = "run" /\ caller'[u].ref = p}) = 0
      BY <3>3, FS_EmptySet
    <3>5. Cardinality(1 .. n) = n
      BY <2>3, FS_Interval
    <3>6. pools'[p].size = n /\ pools'[p].free = 1 .. n /\ pools'[p].active = 0
      BY <2>3, <2>5, <2>7
    <3> QED  BY <2>3, <3>3, <3>4, <3>5, <3>6 DEF Exact, RunsIn
  <2> QED  BY <2>5, <2>6, <2>7 DEF Leases
<1> QED  BY <1>2, <1>3

\* The pool of the step, and the runs in it, with any session added or taken away.
LEMMA PoolOf ==
    ASSUME Shape, Leases, NEW t \in Callers, caller[t].at \in {"lease", "run", "wait", "release"},
           caller[t].ref # 0
    PROVE  caller[t].ref \in 1 .. Len(pools) /\ Exact(caller[t].ref)
<1>1. caller[t].ref \in Nat /\ caller[t].ref <= Len(pools) /\ Len(pools) \in Nat
  BY DEF Shape, CallerRec
<1> QED  BY <1>1 DEF Leases

\* All pools are exact after a step if the step's own pool is and no run of another one changes.
LEMMA OtherPools ==
    ASSUME Shape, Leases, NEW p \in 1 .. Len(pools), NEW q \in LeasePools,
           pools' = [pools EXCEPT ![p] = q], Exact(p)',
           \A u \in Callers : caller'[u].at = "run" /\ caller'[u].ref # p
                              <=> caller[u].at = "run" /\ caller[u].ref # p,
           \A u \in Callers : caller[u].at = "run" /\ caller[u].ref # p
                              => caller'[u].ref = caller[u].ref /\ caller'[u].item = caller[u].item
    PROVE  Leases'
<1>1. Len(pools') = Len(pools)
      /\ \A i \in 1 .. Len(pools) : pools'[i] = IF i = p THEN q ELSE pools[i]
  BY ExceptSeq DEF Shape
<1>2. ASSUME NEW i \in 1 .. Len(pools), i # p  PROVE Exact(i)'
  <2>1. pools'[i] = pools[i] /\ Exact(i)
    BY <1>1, <1>2 DEF Leases
  <2>2. \A u \in Callers : /\ caller'[u].at = "run" /\ caller'[u].ref = i
                               <=> caller[u].at = "run" /\ caller[u].ref = i
                           /\ caller[u].at = "run" /\ caller[u].ref = i
                               => caller'[u].item = caller[u].item
    BY <1>2
  <2> QED  BY <2>1, <2>2, SamePool
<1> QED  BY <1>1, <1>2 DEF Leases

LEMMA LeasedLeases ==
    ASSUME Shape, Leases, NEW t \in Callers, NEW i, Leased(t, i)
    PROVE  Leases'
<1>0. PICK p : p = caller[t].ref
  OBVIOUS
<1> DEFINE q == Lent(pools[p], i)
           f == Moved(t, "run", p, i)
<1>1. caller[t].at = "lease" /\ i \in pools[p].free /\ pools' = [pools EXCEPT ![p] = q] /\ caller' = Notified(p, f)
  BY <1>0 DEF Leased, At
<1>2. p \in 1 .. Len(pools) /\ Exact(p)
  BY <1>0, <1>1, PoolOf DEF Shape
<1>3. pools[p] \in LeasePools /\ IsFiniteSet(pools[p].free) /\ Cardinality(pools[p].free) \in Nat
      /\ IsFiniteSet(RunsIn(p)) /\ Cardinality(RunsIn(p)) \in Nat
  BY <1>2, FiniteParts
<1>4. i \in 1 .. Size /\ i \in 0 .. Size
  <2>1. i \in 1 .. Size
    BY <1>1, <1>3 DEF LeasePools
  <2> QED  BY <2>1, PoolAssumption
<1>5. q \in LeasePools /\ q.size = pools[p].size /\ q.free = pools[p].free \ {i} /\ q.active = pools[p].active + 1
  BY <1>3, <1>4, PoolEdits, PoolFields
<1>6. caller \in [Callers -> CallerRec] /\ p \in Nat /\ "run" \in Steps
  BY <1>2 DEF Shape, Steps
<1>7. f \in [Callers -> CallerRec]
      /\ \A u \in Callers : /\ f[u].at = IF u = t THEN "run" ELSE caller[u].at
                            /\ f[u].ref = IF u = t THEN p ELSE caller[u].ref
                            /\ f[u].item = IF u = t THEN i ELSE caller[u].item
  BY <1>4, <1>6, MovedFields
<1> HIDE DEF q, f
<1>8. \A u \in Callers : /\ caller'[u].at = "run" <=> u = t \/ caller[u].at = "run"
                         /\ caller'[u].ref = caller[u].ref
                         /\ caller'[u].item = IF u = t THEN i ELSE caller[u].item
  <2>1. \A u \in Callers : /\ Notified(p, f)[u].ref = f[u].ref /\ Notified(p, f)[u].item = f[u].item
                           /\ \/ Notified(p, f)[u].at = f[u].at
                              \/ f[u].at = "asleep" /\ Notified(p, f)[u].at = "lease"
    BY <1>7, NotifiedMoves
  <2> QED  BY <1>0, <1>1, <1>7, <2>1
<1>9. Exact(p)'
  <2> DEFINE runs == {u \in Callers : caller'[u].at = "run" /\ caller'[u].ref = p}
  <2>1. runs = RunsIn(p) \cup {t} /\ t \notin RunsIn(p)
    BY <1>0, <1>1, <1>8 DEF RunsIn
  <2>2. Cardinality(runs) = Cardinality(RunsIn(p)) + 1
    BY <1>3, <2>1, FS_AddElement
  <2>3. Cardinality(q.free) = Cardinality(pools[p].free) - 1
    BY <1>1, <1>3, <1>5, FS_RemoveElement
  <2>4. pools'[p] = q
    BY <1>1, <1>2, ExceptSeq, <1>5 DEF Shape
  <2>5. \A u \in RunsIn(p) : caller[u].item \in (1 .. pools[p].size) \ pools[p].free /\ caller[u].item # i
    BY <1>1, <1>2 DEF Exact
  <2>6. i \in 1 .. pools[p].size
    BY <1>1, <1>2 DEF Exact
  <2>7. \A u \in runs : caller'[u].item \in (1 .. q.size) \ q.free
    BY <1>5, <1>8, <2>1, <2>5, <2>6
  <2>8. \A u, v \in runs : caller'[u].item = caller'[v].item => u = v
    <3>1. \A u, v \in RunsIn(p) : caller[u].item = caller[v].item => u = v
      BY <1>2 DEF Exact
    <3> QED  BY <1>8, <2>1, <2>5, <3>1
  <2>9. q.active = Cardinality(runs) /\ Cardinality(q.free) + q.active = q.size
        /\ q.free \subseteq 1 .. q.size
    BY <1>2, <1>3, <1>5, <2>2, <2>3 DEF Exact
  <2>10. runs = RunsIn(p)'
    BY DEF RunsIn
  <2> HIDE DEF runs
  <2> QED  BY <2>4, <2>7, <2>8, <2>9, <2>10 DEF Exact
<1>10. \A u \in Callers : caller'[u].at = "run" /\ caller'[u].ref # p
                            <=> caller[u].at = "run" /\ caller[u].ref # p
  BY <1>0, <1>8
<1>11. \A u \in Callers : caller[u].at = "run" /\ caller[u].ref # p
                            => caller'[u].ref = caller[u].ref /\ caller'[u].item = caller[u].item
  BY <1>0, <1>8
<1> QED  BY <1>1, <1>2, <1>5, <1>9, <1>10, <1>11, OtherPools

LEMMA GivenBackLeases ==
    ASSUME Shape, Leases, NEW t \in Callers, NEW step \in Ends, GivenBack(t, step)
    PROVE  Leases'
<1>0. PICK p : p = caller[t].ref
  OBVIOUS
<1> DEFINE i == caller[t].item
           q == Returned(pools[p], i)
           f == Moved(t, step, 0, 0)
<1>1. caller[t].at = "run" /\ pools' = [pools EXCEPT ![p] = q] /\ caller' = Notified(p, f)
  BY <1>0 DEF GivenBack, At
<1>2. p \in 1 .. Len(pools) /\ Exact(p)
  BY <1>0, <1>1, PoolOf DEF Shape
<1>3. pools[p] \in LeasePools /\ IsFiniteSet(pools[p].free) /\ Cardinality(pools[p].free) \in Nat
      /\ IsFiniteSet(RunsIn(p)) /\ Cardinality(RunsIn(p)) \in Nat
  BY <1>2, FiniteParts
<1>4. i \in 1 .. Size
  BY <1>1, PoolAssumption DEF Shape, CallerRec
<1>5. q \in LeasePools /\ q.size = pools[p].size /\ q.free = pools[p].free \cup {i} /\ q.active = pools[p].active - 1
  BY <1>3, <1>4, PoolEdits, PoolFields
<1>6. caller \in [Callers -> CallerRec] /\ step \in Steps /\ step \notin {"run", "lease", "asleep"} /\ 0 \in 0 .. Size
  BY PoolAssumption DEF Shape, Steps, Ends
<1>7. f \in [Callers -> CallerRec]
      /\ \A u \in Callers : /\ f[u].at = IF u = t THEN step ELSE caller[u].at
                            /\ f[u].ref = IF u = t THEN 0 ELSE caller[u].ref
                            /\ f[u].item = IF u = t THEN 0 ELSE caller[u].item
  BY <1>6, MovedFields
<1> HIDE DEF q, f
<1>8. \A u \in Callers : /\ caller'[u].at = "run" <=> u # t /\ caller[u].at = "run"
                         /\ u # t => caller'[u].ref = caller[u].ref /\ caller'[u].item = caller[u].item
  <2>1. \A u \in Callers : /\ Notified(p, f)[u].ref = f[u].ref /\ Notified(p, f)[u].item = f[u].item
                           /\ \/ Notified(p, f)[u].at = f[u].at
                              \/ f[u].at = "asleep" /\ Notified(p, f)[u].at = "lease"
    BY <1>7, NotifiedMoves
  <2> QED  BY <1>1, <1>6, <1>7, <2>1
<1>9. Exact(p)'
  <2> DEFINE runs == {u \in Callers : caller'[u].at = "run" /\ caller'[u].ref = p}
  <2>1. runs = RunsIn(p) \ {t} /\ t \in RunsIn(p)
    BY <1>0, <1>1, <1>8 DEF RunsIn
  <2>2. Cardinality(runs) = Cardinality(RunsIn(p)) - 1
    BY <1>3, <2>1, FS_RemoveElement
  <2>3. i \in (1 .. pools[p].size) \ pools[p].free
    BY <1>2, <2>1 DEF Exact
  <2>4. Cardinality(q.free) = Cardinality(pools[p].free) + 1
    BY <1>3, <1>5, <2>3, FS_AddElement
  <2>5. pools'[p] = q
    BY <1>1, <1>2, ExceptSeq, <1>5 DEF Shape
  <2>6. \A u \in RunsIn(p) : caller[u].item \in (1 .. pools[p].size) \ pools[p].free
    BY <1>2 DEF Exact
  <2>7. \A u, v \in RunsIn(p) : caller[u].item = caller[v].item => u = v
    BY <1>2 DEF Exact
  <2>8. \A u \in runs : caller'[u].item \in (1 .. q.size) \ q.free
    <3>1. \A u \in runs : u \in RunsIn(p) /\ u # t /\ caller'[u].item = caller[u].item
      BY <1>8, <2>1 DEF RunsIn
    <3>2. \A u \in runs : caller[u].item # i
      BY <2>1, <2>7, <3>1
    <3> HIDE DEF i, runs
    <3> QED  BY <1>5, <2>6, <3>1, <3>2
  <2>9. \A u, v \in runs : caller'[u].item = caller'[v].item => u = v
    BY <1>8, <2>1, <2>7
  <2>10. q.active = Cardinality(runs) /\ Cardinality(q.free) + q.active = q.size
        /\ q.free \subseteq 1 .. q.size
    BY <1>2, <1>3, <1>5, <2>2, <2>3, <2>4 DEF Exact
  <2>11. runs = RunsIn(p)'
    BY DEF RunsIn
  <2> HIDE DEF runs
  <2> QED  BY <2>5, <2>8, <2>9, <2>10, <2>11 DEF Exact
<1>10. \A u \in Callers : caller'[u].at = "run" /\ caller'[u].ref # p
                            <=> caller[u].at = "run" /\ caller[u].ref # p
  BY <1>0, <1>8
<1>11. \A u \in Callers : caller[u].at = "run" /\ caller[u].ref # p
                            => caller'[u].ref = caller[u].ref /\ caller'[u].item = caller[u].item
  BY <1>0, <1>8
<1> QED  BY <1>1, <1>2, <1>5, <1>9, <1>10, <1>11, OtherPools

\* The two halves of release run no session.
LEMMA ReleaseKeepsRuns ==
    ASSUME Shape, NEW t \in Callers, Shut(t) \/ Drained(t) \/ PutToSleep(t)
    PROVE  RunsKept
<1>1. caller \in [Callers -> CallerRec] /\ caller[t] \in CallerRec /\ 0 \in 0 .. Size /\ "publish" \in Steps
  BY PoolAssumption DEF Shape, Steps
<1>2. CASE Shut(t)
  BY <1>1, <1>2 DEF Shut, At, To, CallerRec, RunsKept
<1>3. CASE Drained(t)
  <2> DEFINE f == Moved(t, "publish", 0, 0)
             p == caller[t].ref
  <2>1. caller[t].at = "wait" /\ caller' = Notified(p, f)
    BY <1>3 DEF Drained, At
  <2>2. f \in [Callers -> CallerRec]
        /\ \A u \in Callers : /\ f[u].at = IF u = t THEN "publish" ELSE caller[u].at
                              /\ f[u].ref = IF u = t THEN 0 ELSE caller[u].ref
                              /\ f[u].item = IF u = t THEN 0 ELSE caller[u].item
    BY <1>1, MovedFields
  <2> HIDE DEF f
  <2>3. \A u \in Callers : /\ Notified(p, f)[u].ref = f[u].ref /\ Notified(p, f)[u].item = f[u].item
                           /\ \/ Notified(p, f)[u].at = f[u].at
                              \/ f[u].at = "asleep" /\ Notified(p, f)[u].at = "lease"
    BY <2>2, NotifiedMoves
  <2> QED  BY <2>1, <2>2, <2>3 DEF RunsKept
<1>4. CASE PutToSleep(t)
  <2> DEFINE p == caller[t].ref
             f == Notified(p, caller)
  <2>1. caller[t].at = "lease" /\ caller' = [f EXCEPT ![t].at = "asleep"]
    BY <1>4 DEF PutToSleep, At
  <2>2. f \in [Callers -> CallerRec]
    BY <1>1, NotifiedMoves
  <2>3. \A u \in Callers : /\ f[u].ref = caller[u].ref /\ f[u].item = caller[u].item
                           /\ \/ f[u].at = caller[u].at
                              \/ caller[u].at = "asleep" /\ f[u].at = "lease"
    BY <1>1, NotifiedMoves
  <2> HIDE DEF f
  <2> QED  BY <2>1, <2>2, <2>3 DEF CallerRec, RunsKept
<1> QED  BY <1>2, <1>3, <1>4

LEMMA ReleaseLeases ==
    ASSUME Shape, Leases, NEW t \in Callers, Shut(t) \/ Drained(t)
    PROVE  Leases'
<1>0. PICK p : p = caller[t].ref
  OBVIOUS
<1>1. RunsKept
  BY ReleaseKeepsRuns
<1>2. p \in 1 .. Len(pools) /\ Exact(p)
  BY <1>0, PoolOf DEF Shape, Shut, Drained, At
<1>3. pools[p] \in LeasePools /\ IsFiniteSet(pools[p].free) /\ Cardinality(pools[p].free) \in Nat
      /\ IsFiniteSet(RunsIn(p)) /\ Cardinality(RunsIn(p)) \in Nat
  BY <1>2, FiniteParts
<1>4. 1 \in 1 .. Size
  BY PoolAssumption
<1>5. /\ \A u \in Callers : caller'[u].at = "run" /\ caller'[u].ref # p
                            <=> caller[u].at = "run" /\ caller[u].ref # p
      /\ \A u \in Callers : caller[u].at = "run" /\ caller[u].ref # p
                            => caller'[u].ref = caller[u].ref /\ caller'[u].item = caller[u].item
  BY <1>1 DEF RunsKept
<1>6. CASE Shut(t)
  <2> DEFINE q == Closed(pools[p])
  <2>1. pools' = [pools EXCEPT ![p] = q]
    BY <1>0, <1>6 DEF Shut
  <2>2. q \in LeasePools /\ q.size = pools[p].size /\ q.free = pools[p].free /\ q.active = pools[p].active
    BY <1>3, <1>4, PoolEdits, PoolFields
  <2> HIDE DEF q
  <2>3. pools'[p] = q
    BY <1>2, <2>1, <2>2, ExceptSeq DEF Shape
  <2>4. Exact(p)'
    BY <1>1, <1>2, <2>2, <2>3, SamePool DEF RunsKept
  <2> QED  BY <1>2, <1>5, <2>1, <2>2, <2>4, OtherPools
<1>7. CASE Drained(t)
  <2> DEFINE q == Emptied(pools[p])
  <2>1. pools' = [pools EXCEPT ![p] = q] /\ pools[p].active = 0
    BY <1>0, <1>7 DEF Drained, Idle
  <2>2. q \in LeasePools /\ q.size = 0 /\ q.free = {} /\ q.active = 0
    BY <1>3, <1>4, <2>1, PoolEdits, PoolFields
  <2> HIDE DEF q
  <2>3. pools'[p] = q
    BY <1>2, <2>1, <2>2, ExceptSeq DEF Shape
  <2>4. Cardinality(RunsIn(p)) = 0
    BY <1>2, <2>1 DEF Exact
  <2>5. RunsIn(p) = {}
    BY <1>3, <2>4, FS_EmptySet
  <2> DEFINE runs == {u \in Callers : caller'[u].at = "run" /\ caller'[u].ref = p}
  <2>6. runs = {}
    BY <1>1, <2>5 DEF RunsIn, RunsKept
  <2>7. Cardinality(runs) = 0 /\ Cardinality(q.free) = 0 /\ runs = RunsIn(p)'
    BY <2>2, <2>6, FS_EmptySet DEF RunsIn
  <2> HIDE DEF runs
  <2>8. Exact(p)'
    <3>1. RunsIn(p)' = {} /\ Cardinality(RunsIn(p)') = 0
      BY <2>6, <2>7
    <3>2. /\ pools'[p].active = 0 /\ pools'[p].size = 0
          /\ pools'[p].free = {} /\ Cardinality(pools'[p].free) = 0
      BY <2>2, <2>3, <2>7
    <3> QED  BY <3>1, <3>2 DEF Exact
  <2> QED  BY <1>2, <1>5, <2>1, <2>2, <2>8, OtherPools
<1> QED  BY <1>6, <1>7

LEMMA StepLeases == Shape /\ Leases /\ [PoolNext]_poolVars => Leases'
<1> SUFFICES ASSUME Shape, Leases, [PoolNext]_poolVars PROVE Leases'  OBVIOUS
<1>1. CASE UNCHANGED poolVars
  BY <1>1, KeptLeases DEF poolVars, RunsKept
<1>2. CASE Memory
  BY <1>2, KeptLeases DEF Memory, RunsKept
<1>3. ASSUME NEW t \in Callers, Begin(t) \/ Caller(t) PROVE Leases'
  <2>1. CASE Begin(t) \/ Check(t) \/ Get(t) \/ Direct(t) \/ TryFallback(t) \/ Raised(t) \/ Build(t)
             \/ Look(t) \/ Take(t) \/ Unset(t) \/ Mark(t)
    <3>1. UNCHANGED pools
      BY <2>1 DEF Begin, Check, Get, Direct, TryFallback, Raised, Build, Look, Take, Unset, Mark
    <3>2. RunsKept
      BY <2>1, WalkKeepsRuns
    <3> QED  BY <3>1, <3>2, KeptLeases
  <2>2. CASE Publish(t)
    BY <2>2, PublishLeases
  <2>3. CASE Lease(t) \/ Release(t) \/ Wait(t) \/ Run(t)
    <3>1. CASE Refused(t)
      <4>1. RunsKept
        BY <3>1, WalkKeepsRuns
      <4> QED  BY <3>1, <4>1, KeptLeases DEF Refused
    <3>2. ASSUME NEW i, Leased(t, i)  PROVE Leases'
      BY <3>2, LeasedLeases
    <3>3. CASE PutToSleep(t)
      BY <3>3, ReleaseKeepsRuns, KeptLeases DEF PutToSleep
    <3>4. ASSUME NEW step \in Ends, GivenBack(t, step)  PROVE Leases'
      BY <3>4, GivenBackLeases
    <3>5. CASE Shut(t) \/ Drained(t)
      BY <3>5, ReleaseLeases
    <3> QED  BY <2>3, PoolSteps, <3>1, <3>2, <3>3, <3>4, <3>5
  <2> QED  BY <1>3, <2>1, <2>2, <2>3 DEF Caller
<1> QED  BY <1>1, <1>2, <1>3 DEF PoolNext

-----------------------------------------------------------------------------
(* The theorems.                                                            *)

LEMMA Invariant == PoolSpec => [](Shape /\ Leases)
<1>1. PoolInit => Shape /\ Leases
  BY InitShape, InitLeases
<1>2. Shape /\ Leases /\ [PoolNext]_poolVars => (Shape /\ Leases)'
  BY StepShape, StepLeases
<1> QED  BY <1>1, <1>2, PTL DEF PoolSpec

\* However many workers find the engine broken at once, and however often a build fails, self.pool
\* (FaceSwapInsightFace.py:1279) never names a pool that is being closed.
THEOREM PoolIsOpen == PoolSpec => []PublishedIsOpen
<1>1. Shape => PublishedIsOpen
  BY DEF Shape
<1> QED  BY <1>1, Invariant, PTL

\* SessionPool.lease hands a session to one worker, and counts what it handed out, through
\* exceptions, memory pressure and the release of a pool under its users.
THEOREM LeaseTable == PoolSpec => []LeasesExact
<1>1. Shape /\ Leases => LeasesExact
  <2> SUFFICES ASSUME Shape, Leases, NEW p \in DOMAIN pools
      PROVE  /\ pools[p].active = Cardinality(RunsIn(p))
             /\ \A t \in RunsIn(p) : caller[t].item \in (1 .. pools[p].size) \ pools[p].free
             /\ \A t, u \in RunsIn(p) : caller[t].item = caller[u].item => t = u
             /\ Cardinality(pools[p].free) + pools[p].active = pools[p].size
    BY DEF LeasesExact
  <2>1. p \in 1 .. Len(pools)
    BY DEF Shape
  <2> QED  BY <2>1 DEF Leases, Exact
<1> QED  BY <1>1, Invariant, PTL

\* The counts stay within the pool, which the type alone does not imply: it follows from the leases.
THEOREM PoolTypeCorrect == PoolSpec => []PoolTypeOK
<1>1. Shape /\ Leases => PoolTypeOK
  <2> SUFFICES ASSUME Shape, Leases PROVE PoolTypeOK  OBVIOUS
  <2>1. ASSUME NEW p \in 1 .. Len(pools)  PROVE pools[p] \in Pools
    <3>1. pools[p] \in LeasePools /\ Cardinality(pools[p].free) \in Nat /\ Cardinality(RunsIn(p)) \in Nat
      BY FiniteParts
    <3>2. pools[p].active = Cardinality(RunsIn(p)) /\ Cardinality(pools[p].free) + pools[p].active = pools[p].size
      BY DEF Leases, Exact
    <3>3. pools[p].size \in 0 .. Size
      BY <3>1 DEF LeasePools
    <3>4. pools[p].active \in 0 .. Size
      BY <3>1, <3>2, <3>3, PoolAssumption
    <3> QED  BY <3>1, <3>4 DEF LeasePools, Pools
  <2>2. pools \in Seq(Pools)
    <3>1. Len(pools) \in Nat /\ pools = [i \in 1 .. Len(pools) |-> pools[i]]
      BY DEF Shape
    <3> QED  BY <2>1, <3>1, IsASeq
  <2> QED  BY <2>2 DEF Shape, PoolTypeOK
<1> QED  BY <1>1, Invariant, PTL

-----------------------------------------------------------------------------
(* A call that begins after the fallback succeeds.  Whoever builds has left *)
(* the broken engine, and whoever goes on has taken its pool away; so once  *)
(* somebody has given the engine up and nobody is at it, neither the        *)
(* attributes nor the published pool change any more.                       *)

Rebuilt  == {"look", "take", "unset", "release", "wait", "publish", "mark"}
Detached == {"release", "wait", "publish", "mark"}

\* The engine is given up once its session was replaced and its pool was unset.
GivenUp ==
    /\ disabled => ~onTrt /\ pool # 1
    /\ \A t \in Callers : caller[t].at \in Rebuilt => ~onTrt
    /\ \A t \in Callers : caller[t].at \in Detached => pool # 1
    /\ Len(pools) # 0 /\ \A i \in 2 .. Len(pools) : pools[i].trt = {}

\* Where a call that began after the fallback can be.
Unharmed(t) ==
    /\ Settled
    /\ caller[t].at \in {"idle", "check", "get", "lease", "asleep", "run", "direct"}
    /\ caller[t].at = "get" => pool # 0
    /\ caller[t].at \in {"lease", "asleep", "run"} => caller[t].ref = pool

CleanInv == \A t \in Callers : caller[t].clean => Unharmed(t)

\* What a step of one worker leaves of another: it may wake it.
Kept(u) == /\ caller'[u].clean = caller[u].clean /\ caller'[u].ref = caller[u].ref
           /\ \/ caller'[u].at = caller[u].at
              \/ caller[u].at = "asleep" /\ caller'[u].at = "lease"

LEMMA ToFields ==
    ASSUME caller \in [Callers -> CallerRec], NEW t \in Callers, NEW step, To(t, step)
    PROVE  /\ caller'[t].at = step /\ caller'[t].clean = caller[t].clean /\ caller'[t].ref = caller[t].ref
           /\ \A u \in Callers \ {t} : caller'[u] = caller[u]
BY DEF To, CallerRec

LEMMA NotifiedFields ==
    ASSUME NEW p, NEW f \in [Callers -> CallerRec], NEW u \in Callers
    PROVE  /\ Notified(p, f)[u].clean = f[u].clean /\ Notified(p, f)[u].ref = f[u].ref
           /\ Notified(p, f)[u].at \in (IF f[u].at = "asleep" THEN {"asleep", "lease"} ELSE {f[u].at})
BY DEF Notified, CallerRec

LEMMA MovedClean ==
    ASSUME caller \in [Callers -> CallerRec], NEW t \in Callers, NEW step \in Steps,
           NEW ref \in Nat, NEW item \in 0 .. Size
    PROVE  /\ Moved(t, step, ref, item)[t].at = step /\ Moved(t, step, ref, item)[t].ref = ref
           /\ Moved(t, step, ref, item)[t].clean = caller[t].clean
           /\ \A u \in Callers \ {t} : Moved(t, step, ref, item)[u] = caller[u]
BY DEF Moved, CallerRec

\* A step at a pool: where its worker goes.
LEMMA PoolMoves ==
    ASSUME Shape, NEW t \in Callers, NEW step \in Steps, NEW ref \in Nat, NEW item \in 0 .. Size,
           step # "asleep", NEW p, caller' = Notified(p, Moved(t, step, ref, item))
    PROVE  /\ \A u \in Callers \ {t} : Kept(u)
           /\ caller'[t].clean = caller[t].clean /\ caller'[t].at = step /\ caller'[t].ref = ref
<1> DEFINE f == Moved(t, step, ref, item)
<1>1. f \in [Callers -> CallerRec]
  BY MovedFields DEF Shape
<1>2. /\ f[t].at = step /\ f[t].ref = ref /\ f[t].clean = caller[t].clean
      /\ \A u \in Callers \ {t} : f[u] = caller[u]
  BY MovedClean DEF Shape
<1> HIDE DEF f
<1>3. caller' = Notified(p, f)
  BY DEF f
<1>4. \A u \in Callers :
        /\ caller'[u].clean = f[u].clean /\ caller'[u].ref = f[u].ref
        /\ caller'[u].at \in (IF f[u].at = "asleep" THEN {"asleep", "lease"} ELSE {f[u].at})
  <2> SUFFICES ASSUME NEW u \in Callers
               PROVE  /\ caller'[u].clean = f[u].clean /\ caller'[u].ref = f[u].ref
                      /\ caller'[u].at \in (IF f[u].at = "asleep" THEN {"asleep", "lease"} ELSE {f[u].at})
    OBVIOUS
  <2>1. caller'[u] = Notified(p, f)[u]
    BY <1>3
  <2> QED  BY <1>1, <2>1, NotifiedFields
<1> QED  BY <1>2, <1>4 DEF Kept

LEMMA SleepMoves ==
    ASSUME Shape, NEW t \in Callers, PutToSleep(t)
    PROVE  /\ \A u \in Callers \ {t} : Kept(u)
           /\ caller'[t].clean = caller[t].clean /\ caller'[t].at = "asleep" /\ caller'[t].ref = caller[t].ref
<1> DEFINE f == Notified(caller[t].ref, caller)
<1>1. f \in [Callers -> CallerRec]
  BY NotifiedMoves DEF Shape
<1>2. \A u \in Callers :
        /\ f[u].clean = caller[u].clean /\ f[u].ref = caller[u].ref
        /\ f[u].at \in (IF caller[u].at = "asleep" THEN {"asleep", "lease"} ELSE {caller[u].at})
  BY NotifiedFields DEF Shape
<1>3. caller' = [f EXCEPT ![t].at = "asleep"]
  BY DEF PutToSleep
<1> HIDE DEF f
<1>4. /\ caller'[t].at = "asleep" /\ caller'[t].clean = f[t].clean /\ caller'[t].ref = f[t].ref
      /\ \A u \in Callers \ {t} : caller'[u] = f[u]
  BY <1>1, <1>3 DEF CallerRec
<1> QED  BY <1>2, <1>4 DEF Kept

\* A step between pools: it goes `step` and takes at most the number of a pool along.
LEMMA WalkMoves ==
    ASSUME Shape, NEW t \in Callers, NEW step,
           \/ To(t, step)
           \/ caller' = [caller EXCEPT ![t].at = step, ![t].ref = pool]
           \/ caller' = [caller EXCEPT ![t].at = step, ![t].again = TRUE]
    PROVE  /\ \A u \in Callers \ {t} : Kept(u)
           /\ caller'[t].clean = caller[t].clean /\ caller'[t].at = step
<1>1. caller \in [Callers -> CallerRec]
  BY DEF Shape
<1>2. CASE To(t, step)
  BY <1>1, <1>2, ToFields DEF Kept
<1>3. CASE caller' = [caller EXCEPT ![t].at = step, ![t].ref = pool]
  BY <1>1, <1>3 DEF Kept, CallerRec
<1>4. CASE caller' = [caller EXCEPT ![t].at = step, ![t].again = TRUE]
  BY <1>1, <1>4 DEF Kept, CallerRec
<1> QED  BY <1>2, <1>3, <1>4

-----------------------------------------------------------------------------
(* Giving up the engine.                                                    *)

OffTrt == Len(pools) # 0 /\ \A i \in 2 .. Len(pools) : pools[i].trt = {}

LEMMA GivenUpKept ==
    ASSUME Shape, GivenUp, NEW t \in Callers, \A u \in Callers \ {t} : Kept(u),
           onTrt' => onTrt, pool' = 1 => pool = 1,
           disabled' => disabled \/ (~onTrt' /\ pool' # 1),
           caller'[t].at \in Rebuilt => ~onTrt', caller'[t].at \in Detached => pool' # 1,
           OffTrt'
    PROVE  GivenUp'
<1>1. ASSUME NEW u \in Callers \ {t}
      PROVE  /\ caller'[u].at \in Rebuilt => caller[u].at \in Rebuilt
             /\ caller'[u].at \in Detached => caller[u].at \in Detached
  BY DEF Kept, Rebuilt, Detached
<1>2. \A u \in Callers : caller'[u].at \in Rebuilt => ~onTrt'
  BY <1>1 DEF GivenUp
<1>3. \A u \in Callers : caller'[u].at \in Detached => pool' # 1
  BY <1>1 DEF GivenUp
<1>4. disabled' => ~onTrt' /\ pool' # 1
  BY DEF GivenUp
<1> QED  BY <1>2, <1>3, <1>4 DEF GivenUp, OffTrt

\* No pool changes the sessions it was made with.
LEMMA TrtKept ==
    ASSUME Shape, NEW p \in 1 .. Len(pools), NEW i \in 1 .. Size,
           NEW q \in {pools[p], Lent(pools[p], i), Returned(pools[p], i), Closed(pools[p]), Emptied(pools[p])},
           pools' = [pools EXCEPT ![p] = q]
    PROVE  /\ Len(pools') = Len(pools) /\ \A j \in 1 .. Len(pools) : pools'[j].trt = pools[j].trt
           /\ OffTrt => OffTrt'
<1>1. pools \in Seq(LeasePools) /\ pools[p] \in LeasePools
  BY ElementOfSeq DEF Shape
<1>2. q \in LeasePools
  BY <1>1, PoolEdits
<1>3. q.trt = pools[p].trt
  BY <1>1 DEF LeasePools, Lent, Returned, Closed, Emptied
<1>4. Len(pools') = Len(pools) /\ \A j \in 1 .. Len(pools) : pools'[j] = IF j = p THEN q ELSE pools[j]
  BY <1>1, <1>2, ExceptSeq
<1>5. Len(pools') = Len(pools) /\ \A j \in 1 .. Len(pools) : pools'[j].trt = pools[j].trt
  BY <1>3, <1>4
<1> QED  BY <1>1, <1>5 DEF OffTrt

\* Where the pool step of a worker leads.
LEMMA PoolStepMoves ==
    ASSUME Shape, NEW t \in Callers, Lease(t) \/ Run(t) \/ Release(t) \/ Wait(t)
    PROVE  /\ \A u \in Callers \ {t} : Kept(u)
           /\ caller'[t].clean = caller[t].clean
           /\ OffTrt => OffTrt'
           /\ caller'[t].at \in Rebuilt => caller[t].at \in Detached
           /\ caller'[t].at # "build"
           /\ caller'[t].at \in {"lease", "asleep", "run"} => caller'[t].ref = caller[t].ref
<1> DEFINE p == caller[t].ref
<1>0. caller \in [Callers -> CallerRec] /\ caller[t] \in CallerRec /\ p \in Nat /\ p <= Len(pools)
      /\ pools \in Seq(LeasePools) /\ Len(pools) \in Nat
  BY DEF Shape, CallerRec
<1>1. p # 0 => p \in 1 .. Len(pools) /\ pools[p] \in LeasePools
  BY <1>0, ElementOfSeq
<1>2. "run" \in Steps /\ "publish" \in Steps /\ Ends \subseteq Steps /\ 0 \in 0 .. Size /\ 0 \in Nat
      /\ 1 \in 1 .. Size
  BY PoolAssumption DEF Ends, Steps
<1>3. UNCHANGED pools => (OffTrt => OffTrt')
  BY DEF OffTrt
<1>4. CASE Refused(t)
  <2>1. PICK step \in {"failed", "raised"} : To(t, step) /\ UNCHANGED pools
    BY <1>4 DEF Refused
  <2> QED  BY <1>3, <2>1, WalkMoves DEF Rebuilt
<1>5. ASSUME NEW i, Leased(t, i)
      PROVE  /\ \A u \in Callers \ {t} : Kept(u)
             /\ caller'[t].clean = caller[t].clean
             /\ OffTrt => OffTrt'
             /\ caller'[t].at = "run" /\ caller'[t].ref = p
  <2>1. caller' = Notified(p, Moved(t, "run", p, i)) /\ i \in pools[p].free
        /\ pools' = [pools EXCEPT ![p] = Lent(pools[p], i)] /\ p # 0
    BY <1>5 DEF Leased, At, Shape
  <2>2. i \in 1 .. Size /\ i \in 0 .. Size
    BY <1>1, <2>1, PoolAssumption DEF LeasePools
  <2>3. OffTrt => OffTrt'
    BY <1>1, <2>1, <2>2, TrtKept
  <2> QED  BY <1>0, <1>2, <2>1, <2>2, <2>3, PoolMoves
<1>6. CASE PutToSleep(t)
  BY <1>3, <1>6, SleepMoves DEF PutToSleep, Rebuilt
<1>7. ASSUME NEW step \in Ends, GivenBack(t, step)
      PROVE  /\ \A u \in Callers \ {t} : Kept(u)
             /\ caller'[t].clean = caller[t].clean
             /\ OffTrt => OffTrt'
             /\ caller'[t].at = step
  <2>1. caller' = Notified(p, Moved(t, step, 0, 0)) /\ p # 0 /\ caller[t].item # 0
        /\ pools' = [pools EXCEPT ![p] = Returned(pools[p], caller[t].item)]
    BY <1>7 DEF GivenBack, At, Shape
  <2>2. caller[t].item \in 1 .. Size
    BY <1>0, <2>1, PoolAssumption DEF CallerRec
  <2>3. OffTrt => OffTrt'
    BY <1>1, <2>1, <2>2, TrtKept
  <2>4. step \in Steps /\ step # "asleep"
    BY <1>2 DEF Ends
  <2> QED  BY <1>2, <2>1, <2>3, <2>4, PoolMoves
<1>8. CASE Shut(t)
  <2>1. To(t, "wait") /\ caller[t].at = "release" /\ p # 0 /\ pools' = [pools EXCEPT ![p] = Closed(pools[p])]
    BY <1>8 DEF Shut, At
  <2>2. OffTrt => OffTrt'
    BY <1>1, <1>2, <2>1, TrtKept
  <2>3. /\ \A u \in Callers \ {t} : Kept(u)
        /\ caller'[t].clean = caller[t].clean /\ caller'[t].at = "wait"
    BY <2>1, WalkMoves
  <2> QED  BY <2>1, <2>2, <2>3 DEF Detached
<1>9. CASE Drained(t)
  <2>1. caller' = Notified(p, Moved(t, "publish", 0, 0)) /\ caller[t].at = "wait" /\ p # 0
        /\ pools' = [pools EXCEPT ![p] = Emptied(pools[p])]
    BY <1>9 DEF Drained, At, Shape
  <2>2. OffTrt => OffTrt'
    BY <1>1, <1>2, <2>1, TrtKept
  <2>3. caller'[t].at = "publish"
    BY <1>2, <2>1, PoolMoves
  <2> QED  BY <1>2, <2>1, <2>2, <2>3, PoolMoves DEF Detached
<1> QED  BY PoolSteps, <1>4, <1>5, <1>6, <1>7, <1>8, <1>9 DEF Ends, Rebuilt

\* No step of a worker forgets how its call began, and none moves another worker but to wake it.
LEMMA ThreadMoves ==
    ASSUME Shape, NEW t \in Callers, Caller(t)
    PROVE  caller'[t].clean = caller[t].clean /\ \A u \in Callers \ {t} : Kept(u)
<1>1. CASE Lease(t) \/ Run(t) \/ Release(t) \/ Wait(t)
  BY <1>1, PoolStepMoves
<1>2. CASE ~(Lease(t) \/ Run(t) \/ Release(t) \/ Wait(t))
  <2>1. \E step : \/ To(t, step)
                  \/ caller' = [caller EXCEPT ![t].at = step, ![t].ref = pool]
                  \/ caller' = [caller EXCEPT ![t].at = step, ![t].again = TRUE]
    BY <1>2 DEF Caller, Check, Get, Direct, TryFallback, Raised, Build, Look, Take, Unset, Publish, Mark, Fail
  <2> QED  BY <2>1, WalkMoves
<1> QED  BY <1>1, <1>2

LEMMA BeginMoves ==
    ASSUME Shape, NEW t \in Callers, Begin(t)
    PROVE  /\ \A u \in Callers \ {t} : Kept(u)
           /\ caller'[t].clean = Settled /\ caller'[t].at = "check"
<1>1. caller \in [Callers -> CallerRec]
  BY DEF Shape
<1> QED  BY <1>1 DEF Begin, Kept

LEMMA StepGivenUp == Shape /\ GivenUp /\ [PoolNext]_poolVars => GivenUp'
<1> SUFFICES ASSUME Shape, GivenUp, [PoolNext]_poolVars PROVE GivenUp'  OBVIOUS
<1>0. OffTrt /\ pools \in Seq(LeasePools) /\ onTrt \in BOOLEAN
      /\ disabled \in BOOLEAN /\ pool \in Nat
  BY DEF GivenUp, OffTrt, Shape
<1>1. CASE UNCHANGED <<pools, pool, onTrt, disabled, caller>>
  BY <1>1 DEF GivenUp
<1>2. ASSUME NEW t \in Callers, Begin(t) \/ Caller(t) PROVE GivenUp'
  <2>0. UNCHANGED pools => OffTrt'
    BY <1>0 DEF OffTrt
  <2>1. CASE Begin(t)
    BY <2>0, <2>1, BeginMoves, GivenUpKept DEF Begin, Rebuilt, Detached
  <2>2. CASE Check(t) \/ Get(t) \/ Direct(t) \/ TryFallback(t) \/ Raised(t)
    <3>1. PICK step : /\ To(t, step) \/ caller' = [caller EXCEPT ![t].at = step, ![t].ref = pool]
                      /\ step \notin Rebuilt
      <4>1. CASE Check(t)
        <5>1. \E step \in {"get", "direct"} : To(t, step)
          BY <4>1 DEF Check
        <5> QED  BY <5>1 DEF Rebuilt
      <4>2. CASE Get(t)
        BY <4>2 DEF Get, To, Fail, Rebuilt
      <4>3. CASE Direct(t)
        <5>1. \E step \in {"idle", "failed", "raised"} : To(t, step)
          BY <4>3 DEF Direct, Outcomes, Ended
        <5> QED  BY <5>1 DEF Rebuilt
      <4>4. CASE TryFallback(t)
        <5>1. \E step \in {"build", "raised"} : To(t, step)
          BY <4>4 DEF TryFallback
        <5> QED  BY <5>1 DEF Rebuilt
      <4>5. CASE Raised(t)
        <5>1. \E step \in {"idle"} : To(t, step)
          BY <4>5 DEF Raised
        <5> QED  BY <5>1 DEF Rebuilt
      <4> QED  BY <2>2, <4>1, <4>2, <4>3, <4>4, <4>5
    <3>2. caller'[t].at \notin Rebuilt /\ caller'[t].at \notin Detached /\ \A u \in Callers \ {t} : Kept(u)
      BY <3>1, WalkMoves DEF Rebuilt, Detached
    <3>3. UNCHANGED <<pools, pool, onTrt, disabled>>
      BY <2>2 DEF Check, Get, Direct, TryFallback, Raised
    <3> QED  BY <2>0, <3>2, <3>3, GivenUpKept
  <2>3. CASE Lease(t) \/ Run(t) \/ Release(t) \/ Wait(t)
    <3>1. UNCHANGED <<pool, onTrt, disabled>>
      BY <2>3, PoolSteps
    <3>2. /\ \A u \in Callers \ {t} : Kept(u)
          /\ OffTrt' /\ (caller'[t].at \in Rebuilt => caller[t].at \in Detached)
      BY <1>0, <2>3, PoolStepMoves
    <3>3. /\ caller'[t].at \in Rebuilt => ~onTrt
          /\ caller'[t].at \in Detached => pool # 1
      BY <3>2 DEF GivenUp, Rebuilt, Detached
    <3> QED  BY <3>1, <3>2, <3>3, GivenUpKept
  <2>4. CASE Build(t)
    <3>1. PICK step \in {"look", "raised"} : To(t, step) /\ (step = "look" => onTrt' = FALSE)
      BY <2>4 DEF Build
    <3>2. UNCHANGED <<pools, pool, disabled>> /\ onTrt' \in {onTrt, FALSE}
      BY <2>4 DEF Build
    <3>3. /\ \A u \in Callers \ {t} : Kept(u)
          /\ caller'[t].at \in Rebuilt => ~onTrt'
          /\ caller'[t].at \notin Detached
      BY <3>1, WalkMoves DEF Rebuilt, Detached
    <3>4. OffTrt'
      BY <2>0, <3>2
    <3>6. onTrt' => onTrt
      <4>1. CASE onTrt' = onTrt
        BY <4>1
      <4>2. CASE onTrt' = FALSE
        BY <4>2
      <4> QED  BY <3>2, <4>1, <4>2
    <3>5. pool' = pool /\ disabled' = disabled /\ (caller'[t].at \in Detached => pool' # 1)
      BY <3>2, <3>3
    <3> QED  BY <3>3, <3>4, <3>5, <3>6, GivenUpKept
  <2>5. CASE Look(t) \/ Take(t)
    <3>1. PICK step \in {"take", "mark", "unset"} :
             /\ To(t, step) \/ caller' = [caller EXCEPT ![t].at = step, ![t].ref = pool]
             /\ step = "mark" => pool = 0
      BY <2>5 DEF Look, Take
    <3>2. UNCHANGED <<pools, pool, onTrt, disabled>> /\ ~onTrt
      BY <2>5 DEF Look, Take, At, GivenUp, Rebuilt
    <3>3. /\ \A u \in Callers \ {t} : Kept(u)
          /\ caller'[t].at \in Detached => pool # 1
      BY <3>1, WalkMoves DEF Detached
    <3> QED  BY <2>0, <3>2, <3>3, GivenUpKept
  <2>6. CASE Unset(t)
    <3>1. ~onTrt /\ pool' = 0 /\ UNCHANGED <<pools, onTrt, disabled>> /\ To(t, "release")
      BY <2>6 DEF Unset, At, GivenUp, Rebuilt
    <3>2. OffTrt' /\ (onTrt' => onTrt) /\ ~onTrt' /\ pool' # 1 /\ disabled' = disabled
      BY <2>0, <3>1
    <3>3. \A u \in Callers \ {t} : Kept(u)
      BY <3>1, WalkMoves
    <3> QED  BY <3>2, <3>3, GivenUpKept
  <2>7. CASE Publish(t)
    <3>1. ~onTrt /\ pool # 1 /\ UNCHANGED <<onTrt, disabled>>
      BY <2>7 DEF Publish, At, GivenUp, Rebuilt, Detached
    <3>2. CASE UNCHANGED <<pools, pool>>
      <4>1. PICK step : To(t, step)
        BY <2>7 DEF Publish
      <4> QED  BY <2>0, <3>1, <3>2, <4>1, WalkMoves, GivenUpKept
    <3>3. CASE ~UNCHANGED <<pools, pool>>
      <4>1. To(t, "mark") /\ pool' = Len(pools) + 1
        BY <2>7, <3>3 DEF Publish
      <4>2. PICK n \in 1 .. Size : pools' = Append(pools, NewPool(n, {}))
        BY <2>7, <3>1, <3>3 DEF Publish
      <4> DEFINE new == NewPool(n, {})
      <4>3. new \in LeasePools /\ new.trt = {}
        BY PoolAssumption DEF NewPool, LeasePools
      <4>4. pools' = Append(pools, new)
        BY <4>2
      <4> HIDE DEF new
      <4>5. Len(pools') = Len(pools) + 1 /\ pools'[Len(pools) + 1] = new
            /\ \A i \in 1 .. Len(pools) : pools'[i] = pools[i]
        BY <1>0, <4>3, <4>4, AppendProperties
      <4>6. Len(pools) \in Nat /\ Len(pools) # 0
        BY <1>0 DEF OffTrt
      <4>7. OffTrt' /\ pool' # 1
        BY <1>0, <4>1, <4>3, <4>5, <4>6 DEF OffTrt
      <4> QED  BY <3>1, <4>1, <4>7, WalkMoves, GivenUpKept
    <3> QED  BY <3>2, <3>3
  <2>8. CASE Mark(t)
    <3>1. ~onTrt /\ pool # 1 /\ UNCHANGED <<pools, pool, onTrt>>
          /\ caller' = [caller EXCEPT ![t].at = "check", ![t].again = TRUE]
      BY <2>8 DEF Mark, At, GivenUp, Rebuilt, Detached
    <3> QED  BY <2>0, <3>1, WalkMoves, GivenUpKept DEF Rebuilt, Detached
  <2> QED  BY <1>2, <2>1, <2>2, <2>3, <2>4, <2>5, <2>6, <2>7, <2>8 DEF Caller
<1> QED  BY <1>1, <1>2 DEF PoolNext, poolVars, Memory

-----------------------------------------------------------------------------
(* A call that began after the fallback.                                    *)

LEMMA StaysSettled ==
    ASSUME Shape, Settled, NEW t \in Callers, Begin(t) \/ Caller(t)
    PROVE  /\ Settled' /\ UNCHANGED <<pool, onTrt, disabled>>
           /\ caller[t].at \notin Rebuilt \cup {"build"}
<1>1. disabled /\ \A u \in Callers : caller[u].at \notin Rebuilt \cup {"build"}
  BY DEF Settled, Rebuilding, Rebuilt
<1>2. \A u \in Callers \ {t} : Kept(u)
  BY BeginMoves, ThreadMoves
<1>0. UNCHANGED <<pool, onTrt, disabled>>
  <2>1. ~(Build(t) \/ Look(t) \/ Take(t) \/ Unset(t) \/ Publish(t) \/ Mark(t))
    BY <1>1 DEF Build, Look, Take, Unset, Publish, Mark, At, Rebuilt
  <2>2. CASE Lease(t) \/ Run(t) \/ Release(t) \/ Wait(t)
    BY <2>2, PoolSteps
  <2> QED  BY <2>1, <2>2 DEF Caller, Begin, Check, Get, Direct, TryFallback, Raised
<1>3. caller'[t].at \notin Rebuilt \cup {"build"}
  <2>1. CASE Lease(t) \/ Run(t) \/ Release(t) \/ Wait(t)
    BY <1>1, <2>1, PoolStepMoves DEF Rebuilt, Detached
  <2>2. CASE Begin(t)
    BY <2>2, BeginMoves DEF Rebuilt
  <2>3. CASE Check(t) \/ Get(t) \/ Direct(t) \/ TryFallback(t) \/ Raised(t)
    <3>1. PICK step : /\ To(t, step) \/ caller' = [caller EXCEPT ![t].at = step, ![t].ref = pool]
                      /\ step \notin Rebuilt \cup {"build"}
      <4>1. CASE Check(t) \/ Raised(t)
        BY <4>1 DEF Check, Raised, Rebuilt
      <4>2. CASE Get(t)
        BY <4>2 DEF Get, Fail, Rebuilt
      <4>3. CASE Direct(t)
        BY <4>3 DEF Direct, Outcomes, Ended, Rebuilt
      <4>4. CASE TryFallback(t)
        <5>1. To(t, "raised")
          BY <1>1, <4>4 DEF TryFallback
        <5> QED  BY <5>1 DEF Rebuilt
      <4> QED  BY <2>3, <4>1, <4>2, <4>3, <4>4
    <3> QED  BY <3>1, WalkMoves
  <2>4. CASE Build(t) \/ Look(t) \/ Take(t) \/ Unset(t) \/ Publish(t) \/ Mark(t)
    BY <1>1, <2>4 DEF Build, Look, Take, Unset, Publish, Mark, At, Rebuilt
  <2> QED  BY <2>1, <2>2, <2>3, <2>4 DEF Caller
<1>4. \A u \in Callers : caller'[u].at \notin Rebuilt \cup {"build"}
  BY <1>1, <1>2, <1>3 DEF Kept, Rebuilt
<1>5. \A u \in Callers : ~Rebuilding(u)'
  BY <1>4 DEF Rebuilding, Rebuilt
<1> QED  BY <1>0, <1>1, <1>5 DEF Settled

\* A worker that such a call's step does not belong to is still unharmed after it.
LEMMA OtherUnharmed ==
    ASSUME Settled', pool' = pool, NEW u, Unharmed(u), Kept(u)
    PROVE  Unharmed(u)'
BY DEF Unharmed, Kept

LEMMA OwnUnharmed ==
    ASSUME Shape, GivenUp, NEW t \in Callers, Unharmed(t), caller[t].clean, Caller(t)
    PROVE  Unharmed(t)'
<1>1. Settled /\ disabled /\ ~onTrt /\ pool # 1 /\ PublishedIsOpen /\ caller \in [Callers -> CallerRec]
      /\ caller[t] \in CallerRec
  BY DEF Unharmed, Settled, GivenUp, Shape
<1>2. Settled' /\ pool' = pool
  BY <1>1, StaysSettled
<1>3. CASE Check(t) \/ Get(t) \/ Direct(t)
  <2>1. CASE Check(t)
    <3>1. CASE pool = 0
      <4>1. To(t, "direct")
        BY <2>1, <3>1 DEF Check
      <4>2. caller'[t].at = "direct"
        BY <4>1, WalkMoves
      <4> QED  BY <1>2, <4>2 DEF Unharmed
    <3>2. CASE pool # 0
      <4>1. To(t, "get")
        BY <2>1, <3>2 DEF Check
      <4>2. caller'[t].at = "get"
        BY <4>1, WalkMoves
      <4> QED  BY <1>2, <3>2, <4>2 DEF Unharmed
    <3> QED  BY <3>1, <3>2
  <2>2. CASE Get(t)
    BY <1>1, <1>2, <2>2 DEF Get, At, Unharmed, CallerRec
  <2>3. CASE Direct(t)
    <3>1. To(t, "idle")
      BY <1>1, <2>3 DEF Direct, Outcomes, Ended
    <3>2. caller'[t].at = "idle"
      BY <3>1, WalkMoves
    <3> QED  BY <1>2, <3>2 DEF Unharmed
  <2> QED  BY <1>3, <2>1, <2>2, <2>3
<1>4. CASE Lease(t)
  <2> DEFINE p == caller[t].ref
  <2>1. p = pool /\ p # 0 /\ caller[t].at = "lease"
    BY <1>4 DEF Lease, At, Unharmed, Shape
  <2>2. ~pools[p].closing
    BY <1>1, <2>1 DEF PublishedIsOpen
  <2>3. caller'[t].at \in {"run", "asleep"}
    <3>1. CASE pools[p].active < Limit(p)
      <4>1. PICK i \in pools[p].free : /\ pools' = [pools EXCEPT ![p] = Lent(@, i)]
                                       /\ caller' = Notified(p, Moved(t, "run", p, i))
        BY <1>4, <2>2, <3>1 DEF Lease
      <4>2. p \in 1 .. Len(pools)
        BY <1>1, <2>1 DEF Shape, CallerRec
      <4>3. i \in 0 .. Size
        <5>1. pools[p] \in LeasePools
          BY <4>2, ElementOfSeq DEF Shape
        <5> QED  BY <4>1, <5>1, PoolAssumption DEF LeasePools
      <4>4. "run" \in Steps /\ p \in Nat
        BY <4>2 DEF Steps
      <4> QED  BY <4>1, <4>3, <4>4, PoolMoves
    <3>2. CASE ~(pools[p].active < Limit(p))
      <4>1. PutToSleep(t)
        BY <1>4, <2>2, <3>2 DEF Lease, PutToSleep
      <4> QED  BY <4>1, SleepMoves
    <3> QED  BY <3>1, <3>2
  <2>4. caller'[t].ref = p
    BY <1>4, <2>3, PoolStepMoves
  <2> QED  BY <1>2, <2>1, <2>3, <2>4 DEF Unharmed
<1>5. CASE Run(t)
  <2> DEFINE p == caller[t].ref
  <2>1. p = pool /\ p # 0 /\ caller[t].at = "run" /\ p \in 1 .. Len(pools)
    BY <1>1, <1>5 DEF Run, At, Unharmed, Shape, CallerRec
  <2>2. pools[p].trt = {}
    BY <1>1, <2>1 DEF GivenUp
  <2>3. caller' = Notified(p, Moved(t, "idle", 0, 0))
    BY <1>5, <2>2 DEF Run, Outcomes, Ended
  <2>4. "idle" \in Steps /\ 0 \in Nat /\ 0 \in 0 .. Size
    BY PoolAssumption DEF Steps
  <2>5. caller'[t].at = "idle"
    BY <2>3, <2>4, PoolMoves
  <2> QED  BY <1>2, <2>5 DEF Unharmed
<1>6. ~(TryFallback(t) \/ Raised(t) \/ Release(t) \/ Wait(t) \/ Build(t) \/ Look(t) \/ Take(t) \/ Unset(t)
        \/ Publish(t) \/ Mark(t))
  BY DEF TryFallback, Raised, Release, Wait, Build, Look, Take, Unset, Publish, Mark, At, Unharmed
<1> QED  BY <1>3, <1>4, <1>5, <1>6 DEF Caller

LEMMA StepClean == Shape /\ GivenUp /\ CleanInv /\ [PoolNext]_poolVars => CleanInv'
<1> SUFFICES ASSUME Shape, GivenUp, CleanInv, [PoolNext]_poolVars PROVE CleanInv'  OBVIOUS
<1>1. CASE UNCHANGED <<pools, pool, onTrt, disabled, caller>>
  BY <1>1 DEF CleanInv, Unharmed, Settled, Rebuilding
<1>2. ASSUME NEW t \in Callers, Begin(t) \/ Caller(t), NEW u \in Callers, caller'[u].clean
      PROVE  Unharmed(u)'
  <2>1. Settled => Settled' /\ pool' = pool
    BY <1>2, StaysSettled
  <2>2. CASE u # t
    <3>1. Kept(u)
      <4>1. CASE Begin(t)
        BY <2>2, <4>1, BeginMoves
      <4>2. CASE Caller(t)
        BY <2>2, <4>2, ThreadMoves
      <4> QED  BY <1>2, <4>1, <4>2
    <3>2. Unharmed(u)
      BY <1>2, <3>1 DEF Kept, CleanInv
    <3> QED  BY <2>1, <3>1, <3>2, OtherUnharmed DEF Unharmed
  <2>3. CASE u = t /\ Begin(t)
    <3>1. Settled /\ caller'[t].at = "check"
      BY <1>2, <2>3, BeginMoves
    <3> QED  BY <2>1, <2>3, <3>1 DEF Unharmed
  <2>4. CASE u = t /\ Caller(t)
    <3>1. caller[t].clean
      BY <1>2, <2>4, ThreadMoves
    <3> QED  BY <2>4, <3>1, OwnUnharmed DEF CleanInv
  <2> QED  BY <1>2, <2>2, <2>3, <2>4
<1> QED  BY <1>1, <1>2 DEF PoolNext, poolVars, Memory, CleanInv

LEMMA InitClean == PoolInit => GivenUp /\ CleanInv
<1> SUFFICES ASSUME PoolInit PROVE GivenUp /\ CleanInv  OBVIOUS
<1>1. Len(pools) = 1 /\ ~disabled /\ \A t \in Callers : caller[t].at = "idle" /\ ~caller[t].clean
  BY DEF PoolInit
<1> QED  BY <1>1 DEF GivenUp, CleanInv, Rebuilt, Detached

\* A call that begins once the fallback is over does not fail (the second attempt of _infer and
\* _rebuild_without_trt, FaceSwapInsightFace.py), for any number of workers, calls and sessions.
THEOREM CleanSucceeds == PoolSpec => []CleanCallsSucceed
<1>1. PoolInit => GivenUp /\ CleanInv
  BY InitClean
<1>2. (Shape /\ Leases) /\ (GivenUp /\ CleanInv) /\ [PoolNext]_poolVars => (GivenUp /\ CleanInv)'
  BY StepGivenUp, StepClean
<1>3. CleanInv => CleanCallsSucceed
  BY DEF CleanInv, Unharmed, CleanCallsSucceed, At
<1> QED  BY <1>1, <1>2, <1>3, Invariant, PTL DEF PoolSpec
=============================================================================
