------------------------ MODULE FramePipeline_proofs ------------------------
(***************************************************************************)
(* Theorems about FramePipeline for any number of workers and frames, any  *)
(* queue depth, any set of failing frames and any number of user calls.    *)
(*                                                                         *)
(* The heart is GateInv: the two counters of the recovery gate count the   *)
(* workers that are inside it and the workers that wait for it, and while  *)
(* one worker has it exclusively nobody else is inside.                    *)
(***************************************************************************)
EXTENDS FramePipeline, FiniteSetTheorems, TLAPS

Inside  == {w \in Workers : wpc[w] \in {"begin", "work", "end", "leave"}}
Waiting == {w \in Workers : wpc[w] = "wait"}

GateInv ==
    /\ recovery \in [shared : Nat, waiting : Nat, exclusive : BOOLEAN]
    /\ wpc \in [Workers -> WorkerStates]
    /\ again \subseteq Inside
    /\ recovery.shared = Cardinality(Inside \ again)
    /\ recovery.waiting = Cardinality(Waiting)
    /\ recovery.exclusive => Inside \ again = {}
    /\ again # {} => recovery.exclusive
    /\ \A v, w \in again : v = w

\* The workers are finitely many, so every set of them has a cardinality.
LEMMA FiniteWorkers == \A S : S \subseteq Workers => IsFiniteSet(S) /\ Cardinality(S) \in Nat
<1>1. IsFiniteSet(Workers)
  BY ConstantsAssumption, FS_Interval DEF ConstantsAssumption, Workers
<1> QED BY <1>1, FS_Subset, FS_CardinalityType

\* The initial state has an empty gate.
LEMMA InitGate == Init => GateInv
<1> SUFFICES ASSUME Init PROVE GateInv
  OBVIOUS
<1>1. Inside = {} /\ Waiting = {} /\ again = {}
  BY DEF Init, Inside, Waiting
<1>2. wpc \in [Workers -> WorkerStates]
  BY DEF Init, WorkerStates
<1>3. recovery = [shared |-> 0, waiting |-> 0, exclusive |-> FALSE]
  BY DEF Init
<1>4. Cardinality({}) = 0
  BY FS_EmptySet
<1> QED BY <1>1, <1>2, <1>3, <1>4 DEF GateInv

\* A step that moves one worker between states of the same side of the gate keeps it.
LEMMA SameGate ==
    ASSUME GateInv, UNCHANGED <<recovery, again>>, wpc' \in [Workers -> WorkerStates],
           Inside' = Inside, Waiting' = Waiting
    PROVE  GateInv'
BY DEF GateInv

\* A step of a worker that is outside and stays outside, or inside and stays inside.
LEMMA SameSide ==
    ASSUME GateInv, NEW w \in Workers, NEW s \in WorkerStates,
           UNCHANGED <<recovery, again>>, wpc' = [wpc EXCEPT ![w] = s],
           wpc[w] # "wait", s # "wait",
           wpc[w] \in {"begin", "work", "end", "leave"} <=> s \in {"begin", "work", "end", "leave"}
    PROVE  GateInv'
<1>1. wpc' \in [Workers -> WorkerStates]
  BY DEF GateInv
<1>2. Inside' = Inside
  BY DEF GateInv, Inside
<1>3. Waiting' = Waiting
  BY DEF GateInv, Waiting
<1> QED BY <1>1, <1>2, <1>3, SameGate

\* A first attempt enters only when nobody has the gate exclusively.
LEMMA AdmitGate == ASSUME GateInv, NEW w \in Workers, Admit(w) PROVE GateInv'
<1>0. /\ wpc' = [wpc EXCEPT ![w] = "begin"] /\ wpc \in [Workers -> WorkerStates]
      /\ wpc[w] = "gate" /\ again' = again
  BY DEF Admit, GateInv
<1>1. wpc' \in [Workers -> WorkerStates]
  BY <1>0 DEF WorkerStates
<1>2. Inside' = Inside \cup {w} /\ w \notin Inside
  BY <1>0 DEF Inside
<1>3. Waiting' = Waiting
  BY <1>0 DEF Waiting
<1>4. again = {} /\ again' = {}
  BY DEF Admit, GateInv
<1>5. IsFiniteSet(Inside) /\ Cardinality(Inside) \in Nat
  BY FiniteWorkers DEF Inside
<1>6. Cardinality(Inside \cup {w}) = Cardinality(Inside) + 1
  BY <1>2, <1>5, FS_AddElement
<1>7. recovery' = [recovery EXCEPT !.shared = @ + 1] /\ ~recovery.exclusive
  BY DEF Admit
<1>8. Inside \ again = Inside /\ (Inside \ again)' = Inside \cup {w}
  BY <1>2, <1>4
<1>9. recovery.shared = Cardinality(Inside) /\ recovery.waiting = Cardinality(Waiting)
  BY <1>8 DEF GateInv
<1>10. /\ recovery' \in [shared : Nat, waiting : Nat, exclusive : BOOLEAN]
       /\ recovery'.shared = recovery.shared + 1 /\ recovery'.waiting = recovery.waiting
       /\ ~recovery'.exclusive
  BY <1>7 DEF GateInv
<1> QED BY <1>1, <1>3, <1>4, <1>6, <1>8, <1>9, <1>10 DEF GateInv

\* Leaving gives back what this worker had taken, the shared place or the exclusive one.
LEMMA LeaveGate == ASSUME GateInv, NEW w \in Workers, Leave(w) PROVE GateInv'
<1> DEFINE s == CASE out[w] = "oom" -> "drain"
                  [] out[w] \in {"error", "none"} -> "fallback"
                  [] OTHER -> "put"
<1>0. /\ wpc' = [wpc EXCEPT ![w] = s] /\ wpc \in [Workers -> WorkerStates]
      /\ wpc[w] = "leave" /\ again' = again \ {w} /\ again \subseteq Inside
  BY DEF Leave, GateInv
<1>1. s \in {"drain", "fallback", "put"}
  OBVIOUS
<1> HIDE DEF s
<1>2. wpc' \in [Workers -> WorkerStates]
  BY <1>0, <1>1 DEF WorkerStates
<1>3. Inside' = Inside \ {w} /\ w \in Inside
  BY <1>0, <1>1 DEF Inside
<1>4. Waiting' = Waiting
  BY <1>0, <1>1 DEF Waiting
<1>5. CASE w \in again
  <2>1. again = {w} /\ again' = {} /\ Inside \ again = {} /\ recovery.exclusive
    BY <1>0, <1>5 DEF GateInv
  <2>2. (Inside \ again)' = Inside \ again
    BY <1>3, <2>1
  <2>3. recovery' = [recovery EXCEPT !.exclusive = FALSE]
    BY <1>5 DEF Leave
  <2>4. /\ recovery' \in [shared : Nat, waiting : Nat, exclusive : BOOLEAN]
        /\ recovery'.shared = recovery.shared /\ recovery'.waiting = recovery.waiting
        /\ ~recovery'.exclusive
    BY <2>3 DEF GateInv
  <2> QED BY <1>2, <1>4, <2>1, <2>2, <2>4 DEF GateInv
<1>6. CASE w \notin again
  <2>1. /\ again' = again /\ (Inside \ again)' = (Inside \ again) \ {w}
        /\ w \in Inside \ again /\ again \subseteq Inside'
    BY <1>0, <1>3, <1>6
  <2>2. ~recovery.exclusive /\ again = {}
    BY <2>1 DEF GateInv
  <2>3. IsFiniteSet(Inside \ again) /\ Cardinality(Inside \ again) \in Nat
    BY FiniteWorkers DEF Inside
  <2>4. /\ Cardinality((Inside \ again) \ {w}) = Cardinality(Inside \ again) - 1
        /\ Cardinality((Inside \ again) \ {w}) \in Nat
    BY <2>1, <2>3, FS_RemoveElement, FS_CardinalityType
  <2>5. recovery' = [recovery EXCEPT !.shared = @ - 1]
    BY <1>6 DEF Leave
  <2>6. recovery.shared = Cardinality(Inside \ again)
    BY DEF GateInv
  <2>7. /\ recovery' \in [shared : Nat, waiting : Nat, exclusive : BOOLEAN]
        /\ recovery'.shared = recovery.shared - 1 /\ recovery'.waiting = recovery.waiting
        /\ ~recovery'.exclusive
    BY <2>2, <2>4, <2>5, <2>6 DEF GateInv
  <2> QED BY <1>2, <1>4, <2>1, <2>2, <2>4, <2>6, <2>7 DEF GateInv
<1> QED BY <1>5, <1>6

\* The gate is taken exclusively only when nobody is inside.
LEMMA TakeExclusive ==
    ASSUME GateInv, NEW w \in Workers, Free, wpc[w] \in {"drain", "wait"},
           recovery' \in [shared : Nat, waiting : Nat, exclusive : BOOLEAN],
           recovery'.shared = recovery.shared, recovery'.exclusive,
           recovery'.waiting = Cardinality(Waiting'),
           again' = again \cup {w}, wpc' = [wpc EXCEPT ![w] = "begin"]
    PROVE  GateInv'
<1>1. wpc' \in [Workers -> WorkerStates]
  BY DEF GateInv, WorkerStates
<1>2. Inside' = Inside \cup {w} /\ w \notin Inside
  BY DEF GateInv, Inside
<1>3. again = {} /\ again' = {w}
  BY DEF GateInv, Free
<1>4. IsFiniteSet(Inside \ again)
  BY FiniteWorkers DEF Inside
<1>5. recovery.shared = 0 /\ Cardinality(Inside \ again) = 0
  BY DEF GateInv, Free
<1>6. Inside \ again = {}
  BY <1>4, <1>5, FS_EmptySet
<1>7. Inside' = {w} /\ (Inside \ again)' = {}
  BY <1>2, <1>3, <1>6
<1>8. recovery'.shared = Cardinality((Inside \ again)')
  BY <1>5, <1>6, <1>7
<1> QED BY <1>1, <1>3, <1>7, <1>8 DEF GateInv

\* A failed frame queues for the gate, takes it, or gives up on a stopped render.
LEMMA DrainGate == ASSUME GateInv, NEW w \in Workers, Drain(w) PROVE GateInv'
<1>0. wpc[w] = "drain" /\ wpc \in [Workers -> WorkerStates] /\ w \notin Waiting
  BY DEF Drain, GateInv, Waiting
<1>1. CASE Free /\ recovery' = [recovery EXCEPT !.exclusive = TRUE]
            /\ again' = again \cup {w} /\ wpc' = [wpc EXCEPT ![w] = "begin"]
  <2>1. Waiting' = Waiting
    BY <1>0, <1>1 DEF Waiting
  <2>2. /\ recovery' \in [shared : Nat, waiting : Nat, exclusive : BOOLEAN]
        /\ recovery'.shared = recovery.shared /\ recovery'.exclusive
        /\ recovery'.waiting = Cardinality(Waiting')
    BY <1>1, <2>1 DEF GateInv
  <2> QED BY <1>0, <1>1, <2>2, TakeExclusive
<1>2. CASE recovery' = [recovery EXCEPT !.waiting = @ + 1]
            /\ wpc' = [wpc EXCEPT ![w] = "wait"] /\ again' = again
  <2>1. Waiting' = Waiting \cup {w} /\ Inside' = Inside
    BY <1>0, <1>2 DEF Waiting, Inside
  <2>2. IsFiniteSet(Waiting)
    BY FiniteWorkers DEF Waiting
  <2>3. Cardinality(Waiting \cup {w}) = Cardinality(Waiting) + 1
    BY <1>0, <2>2, FS_AddElement
  <2>4. wpc' \in [Workers -> WorkerStates]
    BY <1>0, <1>2 DEF WorkerStates
  <2> QED BY <1>2, <2>1, <2>3, <2>4 DEF GateInv
<1>3. CASE wpc' = [wpc EXCEPT ![w] = "fallback"] /\ UNCHANGED <<recovery, again>>
  BY <1>0, <1>3, SameSide DEF WorkerStates
<1> QED BY <1>1, <1>2, <1>3 DEF Drain

\* A waiting frame takes the gate, or gives up on a stopped render.
LEMMA WaitGate == ASSUME GateInv, NEW w \in Workers, Wait(w) PROVE GateInv'
<1>0. wpc[w] = "wait" /\ wpc \in [Workers -> WorkerStates] /\ w \in Waiting
  BY DEF Wait, GateInv, Waiting
<1>1. IsFiniteSet(Waiting) /\ IsFiniteSet(Waiting \ {w})
  BY FiniteWorkers DEF Waiting
<1>2. /\ Cardinality(Waiting \ {w}) = Cardinality(Waiting) - 1
      /\ Cardinality(Waiting \ {w}) \in Nat
  BY <1>0, <1>1, FS_RemoveElement, FS_CardinalityType
<1>3. recovery.waiting = Cardinality(Waiting)
  BY DEF GateInv
<1>4. CASE Free /\ recovery' = [recovery EXCEPT !.exclusive = TRUE, !.waiting = @ - 1]
            /\ again' = again \cup {w} /\ wpc' = [wpc EXCEPT ![w] = "begin"]
  <2>1. Waiting' = Waiting \ {w}
    BY <1>0, <1>4 DEF Waiting
  <2>2. /\ recovery' \in [shared : Nat, waiting : Nat, exclusive : BOOLEAN]
        /\ recovery'.shared = recovery.shared /\ recovery'.exclusive
        /\ recovery'.waiting = Cardinality(Waiting')
    BY <1>2, <1>3, <1>4, <2>1 DEF GateInv
  <2> QED BY <1>0, <1>4, <2>2, TakeExclusive
<1>5. CASE recovery' = [recovery EXCEPT !.waiting = @ - 1]
            /\ wpc' = [wpc EXCEPT ![w] = "fallback"] /\ again' = again
  <2>1. Waiting' = Waiting \ {w} /\ Inside' = Inside
    BY <1>0, <1>5 DEF Waiting, Inside
  <2>2. wpc' \in [Workers -> WorkerStates]
    BY <1>0, <1>5 DEF WorkerStates
  <2> QED BY <1>2, <1>3, <1>5, <2>1, <2>2 DEF GateInv
<1> QED BY <1>4, <1>5 DEF Wait

\* Everything else moves a worker on one side of the gate, or no worker at all.
LEMMA WorkerGate == ASSUME GateInv, NEW w \in Workers, Worker(w) PROVE GateInv'
<1>1. CASE Take(w)
  BY <1>1, SameSide DEF Take, TakeNext, WorkerStates, workerVars, gateVars
<1>2. CASE Begin(w)
  BY <1>2, SameSide DEF Begin, WorkerStates
<1>3. CASE Work(w)
  BY <1>3, SameSide DEF Work, WorkerStates
<1>4. CASE End(w)
  BY <1>4, SameSide DEF End, WorkerStates
<1>5. CASE Fallback(w)
  BY <1>5, SameSide DEF Fallback, WorkerStates
<1>6. CASE Put(w)
  BY <1>6, SameSide DEF Put, WorkerStates
<1>7. CASE Retire(w)
  BY <1>7, SameSide DEF Retire, WorkerStates, gateVars
<1> QED BY <1>1, <1>2, <1>3, <1>4, <1>5, <1>6, <1>7, AdmitGate, LeaveGate, DrainGate, WaitGate
        DEF Worker

LEMMA StepGate == GateInv /\ [Next]_vars => GateInv'
<1> SUFFICES ASSUME GateInv, [Next]_vars PROVE GateInv'
  OBVIOUS
<1>1. ASSUME UNCHANGED <<recovery, workerVars>> PROVE GateInv'
  BY <1>1, SameGate DEF GateInv, workerVars, Inside, Waiting
<1>2. CASE Reader
  BY <1>1, <1>2 DEF Reader, ReaderPoll, ReaderRearm, ReaderHold, ReaderPut, PostSentinel, gateVars
<1>3. CASE \E w \in Workers : Worker(w)
  BY <1>3, WorkerGate
<1>4. CASE Writer
  BY <1>1, <1>4 DEF Writer, Fetch, Encode, Clear, Check, Unpark, ReleaseQueued, gateVars
<1>5. CASE Join \/ Close \/ CallBegins \/ CallEnds \/ UNCHANGED vars
  BY <1>1, <1>5 DEF Join, Close, CallBegins, CallEnds, vars, gateVars
<1> QED BY <1>2, <1>3, <1>4, <1>5 DEF Next

THEOREM GateExact == Spec => []GateInv
BY InitGate, StepGate, PTL DEF Spec

\* A frame rerun after a GPU memory error never shares the GPU with another model run
\* (run_frame, RecoveryGate.exclusive).
THEOREM RetryAlone == Spec => []RetryIsAlone
<1>1. GateInv => RetryIsAlone
  <2> SUFFICES ASSUME GateInv, NEW w \in again, NEW v \in Workers \ {w}, wpc[v] = "work"
               PROVE FALSE
    BY DEF RetryIsAlone, GateInv, Inside
  <2>1. v \in Inside
    BY DEF Inside
  <2>2. v \in again
    BY <2>1 DEF GateInv
  <2> QED BY <2>2 DEF GateInv
<1> QED BY <1>1, GateExact, PTL

(***************************************************************************)
(* Type correctness.  The counters of the gate are natural numbers because *)
(* of GateInv; what a worker or the writer carries has the right kind      *)
(* because of where the thread is.                                         *)
(***************************************************************************)
CarryInv ==
    /\ rpc \in {"poll", "rearm", "hold", "put"} => rnum \in Frames
    /\ \A w \in Workers : wpc[w] = "put" => out[w] \in Kinds

TypeInv == TypeOK /\ CarryInv

\* Every operation of the pause controller maps a controller state to one.
LEMMA PauseOps ==
    ASSUME NEW p \in [requested : BOOLEAN, acked : BOOLEAN, active : Nat, pending : Nat]
    PROVE  LET P == [requested : BOOLEAN, acked : BOOLEAN, active : Nat, pending : Nat] IN
           /\ Asked(p) \in P /\ Resumed(p) \in P /\ Entered(p) \in P
           /\ Left(p) \in P /\ Reserved(p) \in P /\ Released(p) \in P
<1> DEFINE P == [requested : BOOLEAN, acked : BOOLEAN, active : Nat, pending : Nat]
<1>0. ASSUME NEW q \in P PROVE Ack(q) \in P
  <2> DEFINE b == q.acked \/ (q.requested /\ q.active = 0 /\ q.pending = 0)
  <2>1. b \in BOOLEAN
    OBVIOUS
  <2>2. Ack(q) = [q EXCEPT !.acked = b]
    BY DEF Ack
  <2> HIDE DEF b
  <2> QED BY <2>1, <2>2
<1>1. [p EXCEPT !.requested = TRUE] \in P
  OBVIOUS
<1>2. Entered(p) \in P
  BY DEF Entered
<1>6. \A b \in BOOLEAN : [p EXCEPT !.requested = b, !.acked = b] \in P
  OBVIOUS
<1>7. Resumed(p) \in P
  BY <1>6 DEF Resumed
<1>3. [p EXCEPT !.active = IF @ = 0 THEN 0 ELSE @ - 1] \in P
  OBVIOUS
<1>4. [p EXCEPT !.pending = @ + 1] \in P
  OBVIOUS
<1>5. [p EXCEPT !.pending = IF @ = 0 THEN 0 ELSE @ - 1] \in P
  OBVIOUS
<1> QED BY <1>0, <1>1, <1>2, <1>3, <1>4, <1>5, <1>7 DEF Asked, Left, Reserved, Released

LEMMA PauseStep == TypeInv /\ [Next]_vars => PauseType'
<1> SUFFICES ASSUME TypeInv, [Next]_vars PROVE PauseType'
  OBVIOUS
<1>0. pause \in [requested : BOOLEAN, acked : BOOLEAN, active : Nat, pending : Nat]
  BY DEF TypeInv, TypeOK, PauseType
<1>1. ASSUME pause' \in {pause, Asked(pause), Resumed(pause), Entered(pause), Left(pause),
                         Reserved(pause), Released(pause)} PROVE PauseType'
  BY <1>0, <1>1, PauseOps DEF PauseType
<1>2. CASE Reader
  BY <1>1, <1>2 DEF Reader, ReaderPoll, ReaderRearm, ReaderHold, ReaderPut, PostSentinel, gateVars
<1>3. ASSUME NEW w \in Workers, Worker(w) PROVE PauseType'
  BY <1>1, <1>3 DEF Worker, Take, TakeNext, Admit, Begin, Work, End, Leave, Drain, Wait,
                    Fallback, Put, Retire, gateVars
<1>4. CASE Writer
  BY <1>1, <1>4 DEF Writer, Fetch, Encode, Clear, Check, Unpark, ReleaseQueued, gateVars
<1>5. CASE Join \/ Close \/ CallBegins \/ CallEnds \/ UNCHANGED vars
  BY <1>1, <1>5 DEF Join, Close, CallBegins, CallEnds, vars, gateVars
<1> QED BY <1>2, <1>3, <1>4, <1>5 DEF Next

LEMMA FlagStep == TypeInv /\ [Next]_vars => FlagType'
<1> SUFFICES ASSUME TypeInv, [Next]_vars PROVE FlagType'
  OBVIOUS
<1>0. FlagType
  BY DEF TypeInv, TypeOK
<1>1. CASE Reader
  BY <1>0, <1>1 DEF FlagType, Reader, ReaderPoll, ReaderRearm, ReaderHold, ReaderPut, PostSentinel, flagVars
<1>2. ASSUME NEW w \in Workers, Worker(w) PROVE FlagType'
  BY <1>0, <1>2 DEF FlagType, Worker, Take, TakeNext, Admit, Begin, Work, End, Leave, Drain,
                    Wait, Fallback, Put, Retire, flagVars
<1>3. CASE Writer
  BY <1>0, <1>3 DEF FlagType, Writer, Fetch, Encode, Clear, Check, Unpark, ReleaseQueued, flagVars
<1>4. CASE Join \/ Close \/ CallBegins \/ CallEnds \/ UNCHANGED vars
  BY <1>0, <1>4 DEF FlagType, Join, Close, CallBegins, CallEnds, vars, flagVars
<1> QED BY <1>1, <1>2, <1>3, <1>4 DEF Next

\* The reader counts frames it has room to read; the workers are 0 .. NumThreads - 1.
LEMMA ReaderStep ==
    TypeInv /\ [Next]_vars =>
        ReaderType' /\ (rpc' \in {"poll", "rearm", "hold", "put"} => rnum' \in Frames)
<1> SUFFICES ASSUME TypeInv, [Next]_vars
             PROVE  ReaderType' /\ (rpc' \in {"poll", "rearm", "hold", "put"} => rnum' \in Frames)
  OBVIOUS
<1>0. ReaderType /\ (rpc \in {"poll", "rearm", "hold", "put"} => rnum \in Frames)
  BY DEF TypeInv, TypeOK, CarryInv
<1>1. CASE UNCHANGED readerVars
  BY <1>0, <1>1 DEF ReaderType, readerVars
<1>2. CASE ReaderPoll
  BY <1>0, <1>2 DEF ReaderType, ReaderPoll
<1>3. CASE ReaderRearm \/ ReaderHold
  BY <1>0, <1>3 DEF ReaderType, ReaderRearm, ReaderHold
<1>4. CASE ReaderPut
  <2>1. rnum \in Frames /\ rnum' = rnum + 1 /\ rsent' = rsent
        /\ rpc' = IF rnum' = TotalFrames THEN "end" ELSE "poll"
    BY <1>0, <1>4 DEF ReaderPut
  <2>2. TotalFrames \in Nat
    BY ConstantsAssumption DEF ConstantsAssumption
  <2> QED BY <1>0, <2>1, <2>2 DEF ReaderType, Frames
<1>5. CASE PostSentinel
  <2>1. rsent < NumThreads /\ rsent' = rsent + 1 /\ rnum' = rnum
        /\ rpc' = IF rsent' = NumThreads THEN "done" ELSE "end"
    BY <1>5 DEF PostSentinel
  <2>2. NumThreads \in Nat
    BY ConstantsAssumption DEF ConstantsAssumption
  <2> QED BY <1>0, <2>1, <2>2 DEF ReaderType
<1>6. ASSUME NEW w \in Workers, Worker(w) PROVE UNCHANGED readerVars
  BY <1>6 DEF Worker, Take, TakeNext, Admit, Begin, Work, End, Leave, Drain, Wait, Fallback, Put, Retire
<1>7. CASE Writer
  BY <1>1, <1>7 DEF Writer, Fetch, Encode, Clear, Check, Unpark, ReleaseQueued
<1>8. CASE Join \/ Close \/ CallBegins \/ CallEnds \/ UNCHANGED vars
  BY <1>1, <1>8 DEF Join, Close, CallBegins, CallEnds, vars
<1> QED BY <1>1, <1>2, <1>3, <1>4, <1>5, <1>6, <1>7, <1>8 DEF Next, Reader

\* The worker whose turn it is exists.
LEMMA TurnType == next \in Nat => Turn \in Workers
<1>1. NumThreads \in Nat \ {0}
  BY ConstantsAssumption DEF ConstantsAssumption
<1> QED BY <1>1 DEF Turn, Workers

\* A put or a get on one queue of a family keeps the type of the family.
LEMMA QueueOps ==
    ASSUME NEW T, NEW q \in [Workers -> Seq(T)], NEW w
    PROVE  /\ \A e \in T : [q EXCEPT ![w] = Append(@, e)] \in [Workers -> Seq(T)]
           /\ q[w] # <<>> => [q EXCEPT ![w] = Tail(@)] \in [Workers -> Seq(T)]
<1>1. CASE w \in Workers
  <2>1. \A e \in T : Append(q[w], e) \in Seq(T)
    BY <1>1
  <2>2. q[w] # <<>> => Tail(q[w]) \in Seq(T)
    BY <1>1
  <2>3. \A x \in Seq(T) : [q EXCEPT ![w] = x] \in [Workers -> Seq(T)]
    BY <1>1
  <2> QED BY <2>1, <2>2, <2>3
<1>2. CASE w \notin Workers
  <2>1. \A x : [q EXCEPT ![w] = x] = q
    BY <1>2
  <2> QED BY <2>1
<1> QED BY <1>1, <1>2

\* The queues hold frames, outputs and end marks.
LEMMA QueueStep == TypeInv /\ [Next]_vars => QueueType'
<1> SUFFICES ASSUME TypeInv, [Next]_vars PROVE QueueType'
  OBVIOUS
<1> DEFINE FQ == [Workers -> Seq(Frames \cup {EndOfStream})]
           OQ == [Workers -> Seq(Output \cup {EndMark})]
<1>0. /\ QueueType /\ ReaderType /\ WorkerType /\ WriterType /\ CarryInv
      /\ frameQ \in FQ /\ outQ \in OQ
  BY DEF TypeInv, TypeOK, QueueType
<1>f. \A w : /\ \A e \in Frames \cup {EndOfStream} : [frameQ EXCEPT ![w] = Append(@, e)] \in FQ
             /\ frameQ[w] # <<>> => [frameQ EXCEPT ![w] = Tail(@)] \in FQ
  BY <1>0, QueueOps
<1>o. \A w : /\ \A e \in Output \cup {EndMark} : [outQ EXCEPT ![w] = Append(@, e)] \in OQ
             /\ outQ[w] # <<>> => [outQ EXCEPT ![w] = Tail(@)] \in OQ
  BY <1>0, QueueOps
<1>q. QueueType' <=> frameQ' \in FQ /\ outQ' \in OQ
  BY DEF QueueType
<1> HIDE DEF FQ, OQ
<1>1. ASSUME UNCHANGED <<frameQ, outQ>> PROVE QueueType'
  BY <1>0, <1>1, <1>q
<1>2. CASE ReaderPoll \/ ReaderRearm \/ ReaderHold
  BY <1>1, <1>2 DEF ReaderPoll, ReaderRearm, ReaderHold
<1>3. CASE ReaderPut
  <2> DEFINE w == rnum % NumThreads
  <2>1. frameQ' = frameQ \/ frameQ' = [frameQ EXCEPT ![w] = Append(@, rnum)]
    BY <1>3 DEF ReaderPut
  <2>2. rnum \in Frames /\ outQ' = outQ
    BY <1>0, <1>3 DEF ReaderPut, CarryInv
  <2> HIDE DEF w
  <2>3. [frameQ EXCEPT ![w] = Append(@, rnum)] \in FQ
    BY <1>f, <2>2
  <2> QED BY <1>0, <1>q, <2>1, <2>2, <2>3, Zenon
<1>4. CASE PostSentinel
  <2>1. (frameQ' = frameQ \/ frameQ' = [frameQ EXCEPT ![rsent] = Append(@, EndOfStream)]) /\ outQ' = outQ
    BY <1>4 DEF PostSentinel
  <2>2. [frameQ EXCEPT ![rsent] = Append(@, EndOfStream)] \in FQ
    BY <1>f
  <2> QED BY <1>0, <1>q, <2>1, <2>2, Zenon
<1>5. ASSUME NEW w \in Workers, Worker(w) PROVE QueueType'
  <2>1. CASE Take(w)
    <3>1. outQ' = outQ /\ (UNCHANGED frameQ \/ (frameQ[w] # <<>> /\ frameQ' = [frameQ EXCEPT ![w] = Tail(@)]))
      BY <2>1 DEF Take, TakeNext
    <3> QED BY <1>0, <3>1, <1>f, <1>o, <1>q
  <2>2. CASE Admit(w) \/ Begin(w) \/ Work(w) \/ End(w) \/ Leave(w) \/ Drain(w) \/ Wait(w) \/ Fallback(w)
    BY <1>1, <2>2 DEF Admit, Begin, Work, End, Leave, Drain, Wait, Fallback
  <2>3. CASE Put(w)
    <3> DEFINE o == [frame |-> job[w], kind |-> out[w]]
    <3>1. frameQ' = frameQ /\ (outQ' = outQ \/ outQ' = [outQ EXCEPT ![w] = Append(@, o)])
      BY <2>3 DEF Put
    <3>2. o \in Output
      BY <1>0, <2>3 DEF Put, Output, WorkerType, CarryInv
    <3> HIDE DEF o
    <3>3. [outQ EXCEPT ![w] = Append(@, o)] \in OQ
      BY <1>o, <3>2
    <3> QED BY <1>0, <1>q, <3>1, <3>3, Zenon
  <2>4. CASE Retire(w)
    <3>1. frameQ' = frameQ /\ (outQ' = outQ \/ outQ' = [outQ EXCEPT ![w] = Append(@, EndMark)])
      BY <2>4 DEF Retire
    <3>2. [outQ EXCEPT ![w] = Append(@, EndMark)] \in OQ
      BY <1>o
    <3> QED BY <1>0, <1>q, <3>1, <3>2, Zenon
  <2> QED BY <1>5, <2>1, <2>2, <2>3, <2>4 DEF Worker
<1>6. CASE Fetch \/ ReleaseQueued
  <2>1. PICK v \in Workers : /\ frameQ' = frameQ
                             /\ outQ' = outQ \/ (outQ[v] # <<>> /\ outQ' = [outQ EXCEPT ![v] = Tail(@)])
    BY <1>0, <1>6, TurnType DEF Fetch, ReleaseQueued, WriterType
  <2> QED BY <1>0, <2>1, <1>f, <1>o, <1>q
<1>7. CASE Encode \/ Clear \/ Check \/ Unpark
  BY <1>1, <1>7 DEF Encode, Clear, Check, Unpark
<1>8. CASE Join \/ Close \/ CallBegins \/ CallEnds \/ UNCHANGED vars
  BY <1>1, <1>8 DEF Join, Close, CallBegins, CallEnds, vars
<1> QED BY <1>2, <1>3, <1>4, <1>5, <1>6, <1>7, <1>8 DEF Next, Reader, Writer

\* What a worker puts in its output queue is a rendered, original or refused frame.
LEMMA WorkerStep ==
    TypeInv /\ [Next]_vars =>
        WorkerType' /\ \A w \in Workers : wpc'[w] = "put" => out'[w] \in Kinds
<1> DEFINE Carry == \A w \in Workers : wpc[w] = "put" => out[w] \in Kinds
<1> SUFFICES ASSUME TypeInv, [Next]_vars PROVE WorkerType' /\ Carry'
  OBVIOUS
<1>0. WorkerType /\ QueueType /\ Carry
  BY DEF TypeInv, TypeOK, CarryInv
<1>1. ASSUME UNCHANGED workerVars PROVE WorkerType' /\ Carry'
  BY <1>0, <1>1 DEF WorkerType, workerVars
<1>2. CASE Reader
  BY <1>1, <1>2 DEF Reader, ReaderPoll, ReaderRearm, ReaderHold, ReaderPut, PostSentinel
<1>3. ASSUME NEW w \in Workers, NEW s \in WorkerStates, wpc' = [wpc EXCEPT ![w] = s],
             NEW k \in Kinds \cup {"oom", "error", "none"}, out' = [out EXCEPT ![w] = k],
             s = "put" => k \in Kinds, UNCHANGED job, again' \subseteq Workers
      PROVE  WorkerType' /\ Carry'
  BY <1>0, <1>3 DEF WorkerType
<1>4. ASSUME NEW w \in Workers, Worker(w) PROVE WorkerType' /\ Carry'
  <2>0. /\ wpc \in [Workers -> WorkerStates] /\ out \in [Workers -> Kinds \cup {"oom", "error", "none"}]
        /\ again \subseteq Workers /\ out = [out EXCEPT ![w] = out[w]]
    BY <1>0 DEF WorkerType
  <2> USE DEF WorkerStates
  <2>1. CASE TakeNext(w)
    <3>1. CASE Head(frameQ[w]) = EndOfStream
      BY <1>0, <2>1, <3>1 DEF TakeNext, WorkerType
    <3>2. CASE Head(frameQ[w]) # EndOfStream
      <4>1. Head(frameQ[w]) \in Frames
        BY <1>0, <2>1, <3>2 DEF TakeNext, QueueType
      <4> QED BY <1>0, <2>1, <3>2, <4>1 DEF TakeNext, WorkerType
    <3> QED BY <3>1, <3>2
  <2>2. CASE Take(w) /\ ~TakeNext(w)
    BY <1>0, <2>2 DEF Take, WorkerType
  <2>3. CASE Admit(w) \/ End(w) \/ Drain(w) \/ Wait(w) \/ Put(w) \/ Retire(w)
    BY <1>0, <2>3 DEF WorkerType, Admit, End, Drain, Wait, Put, Retire
  <2>4. CASE Begin(w)
    BY <1>0, <2>4 DEF Begin, WorkerType, Kinds
  <2>5. CASE Work(w)
    <3>1. PICK k \in Kinds \cup {"oom", "error", "none"} : out' = [out EXCEPT ![w] = k]
      BY <2>5 DEF Work, Failures, Kinds
    <3> QED BY <1>3, <2>0, <2>5, <3>1 DEF Work
  <2>6. CASE Leave(w)
    <3> DEFINE s == CASE out[w] = "oom" -> "drain"
                      [] out[w] \in {"error", "none"} -> "fallback"
                      [] OTHER -> "put"
    <3>1. wpc' = [wpc EXCEPT ![w] = s] /\ again' \subseteq Workers /\ UNCHANGED <<out, job>>
      BY <2>0, <2>6 DEF Leave
    <3>2. s \in {"drain", "fallback", "put"} /\ (s = "put" => out[w] \in Kinds)
      BY <2>0
    <3> HIDE DEF s
    <3> QED BY <1>0, <3>1, <3>2 DEF WorkerType
  <2>7. CASE Fallback(w)
    BY <1>0, <2>7 DEF Fallback, WorkerType, Kinds
  <2> QED BY <1>4, <2>1, <2>2, <2>3, <2>4, <2>5, <2>6, <2>7 DEF Worker
<1>5. CASE Writer
  BY <1>1, <1>5 DEF Writer, Fetch, Encode, Clear, Check, Unpark, ReleaseQueued
<1>6. CASE Join \/ Close \/ CallBegins \/ CallEnds \/ UNCHANGED vars
  BY <1>1, <1>6 DEF Join, Close, CallBegins, CallEnds, vars
<1> QED BY <1>2, <1>4, <1>5, <1>6 DEF Next

\* The writer's item, its position and what it encoded keep their types.
LEMMA WriterStep == TypeInv /\ [Next]_vars => WriterType'
<1> SUFFICES ASSUME TypeInv, [Next]_vars PROVE WriterType'
  OBVIOUS
<1> USE DEF WriterType
<1>0. WriterType /\ QueueType
  BY DEF TypeInv, TypeOK
<1>1. ASSUME UNCHANGED writerVars PROVE WriterType'
  BY <1>0, <1>1 DEF writerVars
<1>2. CASE Reader
  BY <1>1, <1>2 DEF Reader, ReaderPoll, ReaderRearm, ReaderHold, ReaderPut, PostSentinel
<1>3. ASSUME NEW w \in Workers, Worker(w) PROVE WriterType'
  BY <1>1, <1>3 DEF Worker, Take, TakeNext, Admit, Begin, Work, End, Leave, Drain, Wait,
                    Fallback, Put, Retire
<1>4. CASE Fetch
  <2>1. outQ[Turn] # <<>> => Head(outQ[Turn]) \in Output \cup {EndMark}
    BY <1>0, TurnType DEF QueueType
  <2>2. CASE outQ[Turn] # <<>> /\ next' = next + 1
    <3>1. CASE Head(outQ[Turn]) = EndMark
      BY <1>0, <1>4, <2>2, <3>1 DEF Fetch
    <3>2. CASE Head(outQ[Turn]) # EndMark
      BY <1>0, <1>4, <2>1, <2>2, <3>2 DEF Fetch
    <3> QED BY <3>1, <3>2
  <2>3. CASE outQ[Turn] = <<>>
    BY <1>0, <1>4, <2>3 DEF Fetch
  <2> QED BY <1>4, <2>2, <2>3 DEF Fetch
<1>5. CASE Encode
  <2>1. Append(encoded, item) \in Seq(Output \cup {EndMark})
    BY <1>0
  <2> QED BY <1>0, <1>5, <2>1 DEF Encode
<1>6. CASE Clear \/ Unpark
  BY <1>0, <1>6 DEF Clear, Unpark
<1>7. CASE Check
  BY <1>0, <1>7 DEF Check
<1>8. CASE ReleaseQueued
  <2>1. NumThreads \in Nat
    BY ConstantsAssumption DEF ConstantsAssumption
  <2>2. sweep + 1 # NumThreads => sweep + 1 \in Workers
    BY <1>0, <2>1 DEF Workers
  <2> QED BY <1>0, <1>8, <2>2 DEF ReleaseQueued
<1>9. CASE Join \/ Close \/ CallBegins \/ CallEnds \/ UNCHANGED vars
  BY <1>1, <1>9 DEF Join, Close, CallBegins, CallEnds, vars
<1> QED BY <1>2, <1>3, <1>4, <1>5, <1>6, <1>7, <1>8, <1>9 DEF Next, Writer

LEMMA CallStep == TypeInv /\ [Next]_vars => CallType'
<1> SUFFICES ASSUME TypeInv, [Next]_vars PROVE CallType'
  OBVIOUS
<1>0. CallType
  BY DEF TypeInv, TypeOK
<1>1. ASSUME UNCHANGED <<main, callVars>> PROVE CallType'
  BY <1>0, <1>1 DEF CallType, callVars
<1>2. CASE Reader
  BY <1>1, <1>2 DEF Reader, ReaderPoll, ReaderRearm, ReaderHold, ReaderPut, PostSentinel
<1>3. ASSUME NEW w \in Workers, Worker(w) PROVE CallType'
  BY <1>1, <1>3 DEF Worker, Take, TakeNext, Admit, Begin, Work, End, Leave, Drain, Wait,
                    Fallback, Put, Retire
<1>4. CASE Writer
  BY <1>1, <1>4 DEF Writer, Fetch, Encode, Clear, Check, Unpark, ReleaseQueued
<1>5. CASE Join \/ Close \/ CallBegins \/ CallEnds \/ UNCHANGED vars
  BY <1>0, <1>1, <1>5 DEF CallType, Join, Close, CallBegins, CallEnds, vars, callVars
<1> QED BY <1>2, <1>3, <1>4, <1>5 DEF Next

LEMMA InitTypes == Init => TypeInv
<1> SUFFICES ASSUME Init PROVE TypeInv
  OBVIOUS
<1>0. NumThreads \in Nat \ {0} /\ TotalFrames \in Nat \ {0}
  BY ConstantsAssumption DEF ConstantsAssumption
<1>1. 0 \in Workers /\ 0 \in Frames
  BY <1>0 DEF Workers, Frames
<1>2. PauseType
  <2>1. PICK h \in BOOLEAN : pause = [requested |-> h, acked |-> h, active |-> 0, pending |-> 0]
    BY DEF Init
  <2> QED BY <2>1 DEF PauseType
<1>7. GateType /\ FlagType
  BY DEF Init, GateType, FlagType
<1>3. QueueType /\ ReaderType
  BY <1>0 DEF Init, QueueType, ReaderType
<1>4. WorkerType
  BY <1>1 DEF Init, WorkerType, WorkerStates, Kinds
<1>5. WriterType
  BY <1>0, <1>1 DEF Init, WriterType
<1>6. CallType /\ CarryInv
  BY <1>1 DEF Init, CallType, CarryInv
<1> QED BY <1>2, <1>3, <1>4, <1>5, <1>6, <1>7 DEF TypeInv, TypeOK

\* The types, and what a thread carries where it is, hold in every reachable state.
LEMMA TypeInvariant == Spec => []TypeInv
<1>1. TypeInv /\ GateInv' /\ [Next]_vars => TypeInv'
  <2>1. GateInv' => GateType'
    BY DEF GateInv, GateType
  <2> QED BY <2>1, PauseStep, FlagStep, ReaderStep, QueueStep, WorkerStep, WriterStep, CallStep
          DEF TypeInv, TypeOK, CarryInv
<1> QED BY <1>1, InitTypes, GateExact, PTL DEF Spec

\* Every variable keeps its type: the counters of PauseController and RecoveryGate stay
\* natural numbers and every queue holds only what its threads may put there.
THEOREM TypeCorrect == Spec => []TypeOK
<1>1. TypeInv => TypeOK
  BY DEF TypeInv
<1> QED BY <1>1, TypeInvariant, PTL

-----------------------------------------------------------------------------
(***************************************************************************)
(* The video is the clip: as long as nobody stops the run, every frame is  *)
(* encoded once and in order, for any number of workers and frames, any    *)
(* queue depth, any set of failing frames and any number of user calls.    *)
(*                                                                         *)
(* A worker is a line: its output queue, the frame it is on, and its input *)
(* queue.  Put together the lines hold exactly the frames that were read   *)
(* and not fetched, each on the line of its number and every line rising,  *)
(* so what stands first on the line whose turn it is, is the next frame.   *)
(*                                                                         *)
(* A pause is honest: the reservations are exactly the outputs between the *)
(* model and the encoder, so a pause is acknowledged when nothing is left  *)
(* between them, and until it is lifted only the originals of frames that  *)
(* had failed come up.                                                     *)
(***************************************************************************)


Busy(w) == wpc[w] \notin {"get", "retire", "done"}

\* A line rises, and only the end marks close it.
Rising(w) ==
    /\ \A i, j \in 1 .. Len(outQ[w]) : i < j =>
          outQ[w][i] # EndMark /\ (outQ[w][j] # EndMark => outQ[w][i].frame < outQ[w][j].frame)
    /\ \A i, j \in 1 .. Len(frameQ[w]) : i < j =>
          frameQ[w][i] # EndOfStream /\ (frameQ[w][j] # EndOfStream => frameQ[w][i] < frameQ[w][j])
    /\ \A i \in 1 .. Len(outQ[w]), j \in 1 .. Len(frameQ[w]) :
          frameQ[w][j] # EndOfStream => outQ[w][i].frame < frameQ[w][j]
    /\ Busy(w) =>
          /\ \A i \in 1 .. Len(outQ[w]) : outQ[w][i].frame < job[w]
          /\ \A j \in 1 .. Len(frameQ[w]) : frameQ[w][j] # EndOfStream => job[w] < frameQ[w][j]

\* A worker retires on the last element of its queue, which the reader put there.
Closing(w) ==
    /\ \A i \in 1 .. Len(outQ[w]) : outQ[w][i] = EndMark => wpc[w] = "done"
    /\ wpc[w] \in {"retire", "done"} => frameQ[w] = <<>> /\ w < rsent
    /\ \A j \in 1 .. Len(frameQ[w]) : frameQ[w][j] = EndOfStream => w < rsent

\* Frame f is on the line of w.
Has(w, f) ==
    \/ \E i \in 1 .. Len(outQ[w]) : outQ[w][i].frame = f
    \/ Busy(w) /\ job[w] = f
    \/ \E j \in 1 .. Len(frameQ[w]) : frameQ[w][j] = f

Bounded  == \A w \in Workers, f \in Nat : Has(w, f) => f % NumThreads = w /\ next <= f /\ f < rnum
Complete == \A f \in Nat : next <= f /\ f < rnum => Has(f % NumThreads, f)

\* What the writer has encoded, and what it holds.
Encoding ==
    /\ rsent > 0 => rpc \in {"end", "done"}
    /\ next > rnum => rsent > 0
    /\ next <= rnum => Len(encoded) = IF xpc = "encode" THEN next - 1 ELSE next
    /\ xpc = "encode" => next <= rnum /\ item.frame = next - 1 /\ item.kind # "refused"

NoRefused ==
    /\ \A w \in Workers : out[w] # "refused"
    /\ \A w \in Workers : \A i \in 1 .. Len(outQ[w]) : outQ[w][i].kind # "refused"

QueueLines == (\A w \in Workers : Rising(w) /\ Closing(w)) /\ Bounded /\ Complete

Lines == QueueLines /\ Encoding /\ NoRefused

\* Nothing is promised of a stopped run, nor of the queues once the writer sweeps them.
LinesInv == processing => InOrder /\ (xpc \notin {"drain", "done"} => Lines)

\* The types the lines rest on.
LineTypes ==
    /\ frameQ \in [Workers -> Seq(Frames \cup {EndOfStream})]
    /\ outQ \in [Workers -> Seq(Output \cup {EndMark})]
    /\ wpc \in [Workers -> WorkerStates] /\ job \in [Workers -> Frames]
    /\ next \in Nat /\ rnum \in Nat /\ rsent \in Nat
    /\ rpc = "put" => rnum \in Frames

\* They follow from the type invariant.
LEMMA TypesOfLines == TypeInv => LineTypes
<1> SUFFICES ASSUME TypeInv PROVE LineTypes
  OBVIOUS
<1>1. NumThreads \in Nat
  BY ConstantsAssumption DEF ConstantsAssumption
<1> QED BY <1>1 DEF TypeInv, TypeOK, CarryInv, QueueType, WorkerType, WriterType, ReaderType, LineTypes

\* What is in the queues: a number that is no end mark is a frame.
LEMMA Elements ==
    ASSUME LineTypes, NEW w \in Workers
    PROVE  /\ \A i \in 1 .. Len(outQ[w]) :
                 /\ outQ[w][i] \in Output \cup {EndMark} /\ outQ[w][i].frame \in Int
                 /\ outQ[w][i] = EndMark <=> outQ[w][i].frame = -1
                 /\ outQ[w][i] # EndMark => outQ[w][i].frame \in Nat
           /\ \A j \in 1 .. Len(frameQ[w]) :
                 /\ frameQ[w][j] \in Int
                 /\ frameQ[w][j] # EndOfStream => frameQ[w][j] \in Nat
           /\ Len(outQ[w]) \in Nat /\ Len(frameQ[w]) \in Nat /\ job[w] \in Nat /\ w \in Nat
<1>1. outQ[w] \in Seq(Output \cup {EndMark}) /\ frameQ[w] \in Seq(Frames \cup {EndOfStream})
  BY DEF LineTypes
<1>2. \A x \in Frames : x \in Nat /\ x # -1
  BY DEF Frames
<1>3. \A o \in Output \cup {EndMark} :
         o.frame \in Int /\ (o = EndMark <=> o.frame = -1) /\ (o # EndMark => o.frame \in Nat)
  <2>1. \A o \in Output : o.frame \in Frames
    BY DEF Output
  <2>2. EndMark.frame = -1 /\ -1 \in Int
    BY DEF EndMark, EndOfStream
  <2>3. \A o \in Output : o.frame \in Nat /\ o.frame # -1 /\ o # EndMark
    BY <1>2, <2>1, <2>2
  <2> QED BY <2>2, <2>3
<1>4. job[w] \in Nat /\ w \in Nat
  <2>1. job[w] \in Frames
    BY DEF LineTypes
  <2> QED BY <1>2, <2>1 DEF Workers
<1>5. \A j \in 1 .. Len(frameQ[w]) : frameQ[w][j] \in Frames \cup {EndOfStream}
  BY <1>1
<1>6. \A i \in 1 .. Len(outQ[w]) : outQ[w][i] \in Output \cup {EndMark}
  BY <1>1
<1>7. \A j \in 1 .. Len(frameQ[w]) :
         frameQ[w][j] \in Int /\ (frameQ[w][j] # EndOfStream => frameQ[w][j] \in Nat)
  <2>1. EndOfStream \in Int
    BY DEF EndOfStream
  <2>2. \A x \in Frames \cup {EndOfStream} : x \in Int /\ (x # EndOfStream => x \in Nat)
    BY <1>2, <2>1
  <2> QED BY <1>5, <2>2
<1>8. Len(outQ[w]) \in Nat /\ Len(frameQ[w]) \in Nat
  BY <1>1
<1> QED BY <1>3, <1>4, <1>6, <1>7, <1>8

\* A line whose queues and worker stay as they are stays as it is.
LEMMA OtherLine ==
    ASSUME NEW v \in Workers, Rising(v), Closing(v), LineTypes, rsent' \in Nat, rsent <= rsent',
           frameQ'[v] = frameQ[v], outQ'[v] = outQ[v], job'[v] = job[v],
           wpc'[v] \in {"retire", "done"} <=> wpc[v] \in {"retire", "done"},
           wpc[v] = "done" => wpc'[v] = "done",
           wpc'[v] \notin {"get", "retire", "done"} <=> wpc[v] \notin {"get", "retire", "done"}
    PROVE  Rising(v)' /\ Closing(v)' /\ \A f \in Nat : Has(v, f)' <=> Has(v, f)
<1>1. Busy(v)' <=> Busy(v)
  BY DEF Busy
<1>2. v \in Nat /\ rsent \in Nat
  BY DEF Workers, LineTypes
<1>3. Rising(v)'
  BY <1>1 DEF Rising
<1>4. Closing(v)'
  BY <1>2 DEF Closing
<1>5. \A f \in Nat : Has(v, f)' <=> Has(v, f)
  BY <1>1 DEF Has
<1> QED BY <1>3, <1>4, <1>5

\* A step that moves a frame along the line of w, and touches no other.
LEMMA MovesAlong ==
    ASSUME LineTypes, QueueLines, NEW w \in Workers,
           UNCHANGED <<next, rnum>>, rsent' \in Nat, rsent <= rsent',
           \A v \in Workers \ {w} : /\ frameQ'[v] = frameQ[v] /\ outQ'[v] = outQ[v]
                                    /\ wpc'[v] = wpc[v] /\ job'[v] = job[v],
           Rising(w)', Closing(w)', \A f \in Nat : Has(w, f)' <=> Has(w, f)
    PROVE  QueueLines'
<1>1. \A v \in Workers : Rising(v)' /\ Closing(v)' /\ \A f \in Nat : Has(v, f)' <=> Has(v, f)
  <2> SUFFICES ASSUME NEW v \in Workers, v # w
               PROVE  Rising(v)' /\ Closing(v)' /\ \A f \in Nat : Has(v, f)' <=> Has(v, f)
    OBVIOUS
  <2> QED BY OtherLine DEF QueueLines
<1>2. \A f \in Nat : f % NumThreads \in Workers
  BY ConstantsAssumption DEF ConstantsAssumption, Workers
<1>3. Bounded'
  BY <1>1 DEF Bounded, QueueLines
<1>4. Complete'
  BY <1>1, <1>2 DEF Complete, QueueLines
<1> QED BY <1>1, <1>3, <1>4 DEF QueueLines

\* The first element of a sequence and the rest.
LEMMA FirstAndRest ==
    ASSUME NEW S, NEW s \in Seq(S), s # <<>>
    PROVE  /\ Head(s) = s[1] /\ Head(s) \in S /\ Len(s) \in Nat /\ Len(s) >= 1
           /\ Tail(s) \in Seq(S) /\ Len(Tail(s)) = Len(s) - 1
           /\ \A j \in 1 .. Len(s) - 1 : Tail(s)[j] = s[j + 1]
<1>1. Len(s) \in Nat /\ Len(s) >= 1
  OBVIOUS
<1>2. Head(s) = s[1] /\ Head(s) \in S
  BY <1>1
<1>3. Tail(s) \in Seq(S) /\ Len(Tail(s)) = Len(s) - 1
  BY <1>1
<1>4. \A j \in 1 .. Len(s) - 1 : Tail(s)[j] = s[j + 1]
  BY <1>1
<1> QED BY <1>1, <1>2, <1>3, <1>4

\* A worker takes the first frame of its queue, or the end of it.
LEMMA TakeLines ==
    ASSUME LineTypes, QueueLines, NEW w \in Workers, TakeNext(w)
    PROVE  QueueLines'
<1> DEFINE q == frameQ[w]
           h == Head(q)
<1>1. /\ q # <<>> /\ frameQ' = [frameQ EXCEPT ![w] = Tail(q)] /\ wpc[w] = "get"
      /\ UNCHANGED <<outQ, next, rnum, rsent>>
  BY DEF TakeNext, readerVars, writerVars
<1>2. Rising(w) /\ Closing(w) /\ rsent \in Nat
  BY DEF QueueLines, LineTypes
<1>3. /\ q \in Seq(Frames \cup {EndOfStream}) /\ frameQ'[w] = Tail(q)
      /\ \A v \in Workers \ {w} : frameQ'[v] = frameQ[v]
  BY <1>1 DEF LineTypes
<1>4. /\ h = q[1] /\ Len(q) \in Nat /\ Len(q) >= 1 /\ Len(frameQ'[w]) = Len(q) - 1
      /\ \A j \in 1 .. Len(q) - 1 : frameQ'[w][j] = q[j + 1]
  BY <1>1, <1>3, FirstAndRest
<1> HIDE DEF q, h
<1>q. frameQ[w] = q
  BY DEF q
<1>e. /\ \A j \in 1 .. Len(q) : q[j] \in Int /\ (q[j] # EndOfStream => q[j] \in Nat)
      /\ \A i \in 1 .. Len(outQ[w]) : outQ[w][i].frame \in Int
      /\ Len(outQ[w]) \in Nat
  BY <1>q, Elements
<1>5. CASE h = EndOfStream
  <2>1. wpc' = [wpc EXCEPT ![w] = "retire"] /\ job' = job
    BY <1>5 DEF TakeNext, h, q
  <2>2. wpc'[w] = "retire" /\ \A v \in Workers \ {w} : wpc'[v] = wpc[v]
    BY <2>1 DEF LineTypes
  <2>3. Len(q) = 1
    <3>1. \A i, j \in 1 .. Len(q) : i < j => q[i] # EndOfStream
      BY <1>2, <1>q DEF Rising
    <3>2. q[1] = EndOfStream /\ 1 \in 1 .. Len(q) /\ Len(q) \in 1 .. Len(q)
      BY <1>4, <1>5
    <3>3. ~(1 < Len(q))
      BY <3>1, <3>2
    <3>4. Len(q) \in Nat /\ Len(q) >= 1
      BY <1>4
    <3> QED BY <3>3, <3>4
  <2>4. frameQ'[w] = <<>> /\ Len(frameQ'[w]) = 0 /\ w < rsent
    <3>1. q \in Seq(Frames \cup {EndOfStream}) /\ q # <<>> /\ frameQ'[w] = Tail(q)
      BY <1>1, <1>3 DEF q
    <3>2. Tail(q) \in Seq(Frames \cup {EndOfStream}) /\ Len(Tail(q)) = 0
      BY <1>4, <2>3, <3>1, FirstAndRest
    <3>3. q[1] = EndOfStream /\ 1 \in 1 .. Len(q)
      BY <1>4, <1>5
    <3>4. w < rsent
      BY <1>2, <1>q, <3>3 DEF Closing
    <3> QED BY <3>1, <3>2, <3>4
  <2>5. ~Busy(w) /\ ~Busy(w)'
    BY <1>1, <2>2 DEF Busy
  <2>6. Rising(w)'
    <3>1. \A i, j \in 1 .. Len(outQ[w]) : i < j =>
             outQ[w][i] # EndMark /\ (outQ[w][j] # EndMark => outQ[w][i].frame < outQ[w][j].frame)
      BY <1>2 DEF Rising
    <3>2. outQ' = outQ /\ \A j : j \notin 1 .. Len(frameQ'[w])
      BY <1>1, <2>4
    <3> QED BY <2>5, <3>1, <3>2 DEF Rising
  <2>7. Closing(w)'
    BY <1>1, <1>2, <2>2, <2>4 DEF Closing
  <2>8. \A f \in Nat : Has(w, f)' <=> Has(w, f)
    <3>1. \A f \in Nat : f # EndOfStream
      BY DEF EndOfStream
    <3>2. \A j \in 1 .. Len(q) : q[j] = EndOfStream
      <4>1. q[1] = EndOfStream
        BY <1>4, <1>5
      <4> QED BY <2>3, <4>1
    <3> QED BY <1>1, <1>q, <2>4, <2>5, <3>1, <3>2 DEF Has
  <2> QED BY <1>1, <1>2, <1>3, <2>1, <2>2, <2>6, <2>7, <2>8, MovesAlong
<1>6. CASE h # EndOfStream
  <2>1. wpc' = [wpc EXCEPT ![w] = "gate"] /\ job' = [job EXCEPT ![w] = h]
    BY <1>6 DEF TakeNext, h, q
  <2>2. /\ wpc'[w] = "gate" /\ job'[w] = h
        /\ \A v \in Workers \ {w} : wpc'[v] = wpc[v] /\ job'[v] = job[v]
    BY <2>1 DEF LineTypes
  <2>3. ~Busy(w) /\ Busy(w)'
    BY <1>1, <2>2 DEF Busy
  <2>4. Rising(w)'
    <3>1. \A i, j \in 1 .. Len(frameQ'[w]) : i < j =>
             frameQ'[w][i] # EndOfStream /\ (frameQ'[w][j] # EndOfStream => frameQ'[w][i] < frameQ'[w][j])
      BY <1>2, <1>4, <1>q DEF Rising
    <3>2. \A i \in 1 .. Len(outQ[w]), j \in 1 .. Len(frameQ'[w]) :
             frameQ'[w][j] # EndOfStream => outQ[w][i].frame < frameQ'[w][j]
      BY <1>2, <1>4, <1>q DEF Rising
    <3>3. \A i \in 1 .. Len(outQ[w]) : outQ[w][i].frame < h
      BY <1>2, <1>4, <1>6, <1>q DEF Rising
    <3>4. \A j \in 1 .. Len(frameQ'[w]) : frameQ'[w][j] # EndOfStream => h < frameQ'[w][j]
      BY <1>2, <1>4, <1>6, <1>q DEF Rising
    <3>5. \A i, j \in 1 .. Len(outQ[w]) : i < j =>
             outQ[w][i] # EndMark /\ (outQ[w][j] # EndMark => outQ[w][i].frame < outQ[w][j].frame)
      BY <1>2 DEF Rising
    <3> QED BY <1>1, <2>2, <3>1, <3>2, <3>3, <3>4, <3>5 DEF Rising
  <2>5. Closing(w)'
    BY <1>1, <1>2, <1>4, <1>q, <2>2 DEF Closing
  <2>6. \A f \in Nat : Has(w, f)' <=> Has(w, f)
    <3>1. \A f : (\E j \in 1 .. Len(q) : q[j] = f) <=> (h = f \/ \E j \in 1 .. Len(q) - 1 : q[j + 1] = f)
      <4>1. ASSUME NEW f, NEW j \in 1 .. Len(q), q[j] = f PROVE h = f \/ \E i \in 1 .. Len(q) - 1 : q[i + 1] = f
        <5>1. CASE j = 1
          BY <1>4, <4>1, <5>1
        <5>2. CASE j # 1
          <6>1. j - 1 \in 1 .. Len(q) - 1 /\ (j - 1) + 1 = j
            BY <1>4, <5>2
          <6> QED BY <4>1, <6>1
        <5> QED BY <5>1, <5>2
      <4>2. 1 \in 1 .. Len(q) /\ \A j \in 1 .. Len(q) - 1 : j + 1 \in 1 .. Len(q)
        BY <1>4
      <4> QED BY <1>4, <4>1, <4>2
    <3>2. \A f : (\E j \in 1 .. Len(frameQ'[w]) : frameQ'[w][j] = f) <=> \E j \in 1 .. Len(q) - 1 : q[j + 1] = f
      BY <1>4
    <3> QED BY <1>1, <1>q, <2>2, <2>3, <3>1, <3>2 DEF Has
  <2> QED BY <1>1, <1>2, <1>3, <2>2, <2>4, <2>5, <2>6, MovesAlong
<1> QED BY <1>5, <1>6

\* A worker puts the frame it is on behind its outputs.
LEMMA PutLines ==
    ASSUME LineTypes, QueueLines, NEW w \in Workers, Put(w), processing
    PROVE  QueueLines'
<1> DEFINE q == outQ[w]
           o == [frame |-> job[w], kind |-> out[w]]
<1>1. /\ outQ' = [outQ EXCEPT ![w] = Append(q, o)] /\ wpc[w] = "put"
      /\ wpc' = [wpc EXCEPT ![w] = "get"]
      /\ UNCHANGED <<frameQ, job, next, rnum, rsent>>
  BY DEF Put, readerVars, writerVars
<1>2. Rising(w) /\ Closing(w) /\ rsent \in Nat
  BY DEF QueueLines, LineTypes
<1>3. /\ q \in Seq(Output \cup {EndMark}) /\ outQ'[w] = Append(q, o)
      /\ wpc'[w] = "get"
      /\ \A v \in Workers \ {w} : outQ'[v] = outQ[v] /\ wpc'[v] = wpc[v]
  BY <1>1 DEF LineTypes
<1>4. /\ Len(q) \in Nat /\ Len(outQ'[w]) = Len(q) + 1
      /\ \A i \in 1 .. Len(q) : outQ'[w][i] = q[i]
      /\ outQ'[w][Len(q) + 1] = o /\ o.frame = job[w]
  BY <1>1, <1>3
<1>q. outQ[w] = q
  OBVIOUS
<1>e. /\ \A i \in 1 .. Len(q) : q[i].frame \in Int
      /\ Len(frameQ[w]) \in Nat /\ job[w] \in Nat
      /\ \A j \in 1 .. Len(frameQ[w]) : frameQ[w][j] \in Int
  BY Elements
<1>m. o # EndMark
  BY <1>e DEF EndMark, EndOfStream
<1> HIDE DEF q, o
<1>5. Busy(w) /\ ~Busy(w)'
  BY <1>1, <1>3 DEF Busy
<1>6. \A i \in 1 .. Len(q) : q[i] # EndMark /\ q[i].frame < job[w]
  BY <1>1, <1>2, <1>5, <1>q DEF Rising, Closing
<1>7. Rising(w)'
  <2>1. \A i, j \in 1 .. Len(outQ'[w]) : i < j =>
           outQ'[w][i] # EndMark /\ (outQ'[w][j] # EndMark => outQ'[w][i].frame < outQ'[w][j].frame)
    <3> SUFFICES ASSUME NEW i \in 1 .. Len(outQ'[w]), NEW j \in 1 .. Len(outQ'[w]), i < j
                 PROVE  outQ'[w][i] # EndMark /\ (outQ'[w][j] # EndMark => outQ'[w][i].frame < outQ'[w][j].frame)
      OBVIOUS
    <3>1. i \in 1 .. Len(q)
      BY <1>4
    <3>2. CASE j \in 1 .. Len(q)
      BY <1>2, <1>4, <1>q, <3>1, <3>2 DEF Rising
    <3>3. CASE j = Len(q) + 1
      BY <1>4, <1>6, <3>1, <3>3
    <3> QED BY <1>4, <3>2, <3>3
  <2>2. \A i \in 1 .. Len(outQ'[w]), j \in 1 .. Len(frameQ[w]) :
           frameQ[w][j] # EndOfStream => outQ'[w][i].frame < frameQ[w][j]
    <3> SUFFICES ASSUME NEW i \in 1 .. Len(outQ'[w]), NEW j \in 1 .. Len(frameQ[w]), frameQ[w][j] # EndOfStream
                 PROVE  outQ'[w][i].frame < frameQ[w][j]
      OBVIOUS
    <3>1. CASE i \in 1 .. Len(q)
      BY <1>2, <1>4, <1>q, <3>1 DEF Rising
    <3>2. CASE i = Len(q) + 1
      BY <1>2, <1>4, <1>5, <3>2 DEF Rising
    <3> QED BY <1>4, <3>1, <3>2
  <2>3. \A i, j \in 1 .. Len(frameQ[w]) : i < j =>
           frameQ[w][i] # EndOfStream /\ (frameQ[w][j] # EndOfStream => frameQ[w][i] < frameQ[w][j])
    BY <1>2 DEF Rising
  <2> QED BY <1>1, <1>5, <2>1, <2>2, <2>3 DEF Rising
<1>8. Closing(w)'
  <2>1. \A i \in 1 .. Len(outQ'[w]) : outQ'[w][i] # EndMark
    BY <1>4, <1>6, <1>m
  <2> QED BY <1>1, <1>2, <1>3, <2>1 DEF Closing
<1>9. \A f \in Nat : Has(w, f)' <=> Has(w, f)
  <2>1. \A f : (\E i \in 1 .. Len(outQ'[w]) : outQ'[w][i].frame = f)
                  <=> ((\E i \in 1 .. Len(q) : q[i].frame = f) \/ job[w] = f)
    <3>1. \A i : i \in 1 .. Len(outQ'[w]) <=> i \in 1 .. Len(q) \/ i = Len(q) + 1
      BY <1>4
    <3> QED BY <1>4, <3>1
  <2> QED BY <1>1, <1>5, <1>q, <2>1 DEF Has
<1> QED BY <1>1, <1>2, <1>3, <1>7, <1>8, <1>9, MovesAlong

\* A worker retires, with its end mark or, when it has waited too long, without.
LEMMA RetireLines ==
    ASSUME LineTypes, QueueLines, NEW w \in Workers, Retire(w)
    PROVE  QueueLines'
<1>1. /\ wpc[w] = "retire" /\ wpc' = [wpc EXCEPT ![w] = "done"]
      /\ UNCHANGED <<frameQ, job, next, rnum, rsent>>
  BY DEF Retire, readerVars, writerVars
<1>2. Rising(w) /\ Closing(w) /\ rsent \in Nat
  BY DEF QueueLines, LineTypes
<1>3. wpc'[w] = "done" /\ \A v \in Workers \ {w} : wpc'[v] = wpc[v]
  BY <1>1 DEF LineTypes
<1>4. ~Busy(w) /\ ~Busy(w)'
  BY <1>1, <1>3 DEF Busy
<1>5. frameQ[w] = <<>> /\ Len(frameQ[w]) = 0 /\ w < rsent
  BY <1>1, <1>2 DEF Closing
<1>6. CASE outQ' = outQ
  <2>1. Rising(w)'
    BY <1>1, <1>2, <1>4, <1>6 DEF Rising
  <2>2. Closing(w)'
    BY <1>1, <1>2, <1>3, <1>6 DEF Closing
  <2>3. \A f \in Nat : Has(w, f)' <=> Has(w, f)
    BY <1>1, <1>4, <1>6 DEF Has
  <2> QED BY <1>1, <1>2, <1>3, <1>6, <2>1, <2>2, <2>3, MovesAlong
<1>7. CASE outQ' = [outQ EXCEPT ![w] = Append(@, EndMark)]
  <2> DEFINE q == outQ[w]
  <2>1. q \in Seq(Output \cup {EndMark}) /\ outQ'[w] = Append(q, EndMark)
        /\ \A v \in Workers \ {w} : outQ'[v] = outQ[v]
    BY <1>7 DEF LineTypes
  <2>2. /\ Len(q) \in Nat /\ Len(outQ'[w]) = Len(q) + 1
        /\ \A i \in 1 .. Len(q) : outQ'[w][i] = q[i]
        /\ outQ'[w][Len(q) + 1] = EndMark
    BY <2>1
  <2>q. outQ[w] = q
    OBVIOUS
  <2> HIDE DEF q
  <2>3. \A i \in 1 .. Len(q) : q[i] # EndMark
    BY <1>1, <1>2, <2>q DEF Closing
  <2>4. \A i, j \in 1 .. Len(outQ'[w]) : i < j =>
           outQ'[w][i] # EndMark /\ (outQ'[w][j] # EndMark => outQ'[w][i].frame < outQ'[w][j].frame)
    <3> SUFFICES ASSUME NEW i \in 1 .. Len(outQ'[w]), NEW j \in 1 .. Len(outQ'[w]), i < j
                 PROVE  outQ'[w][i] # EndMark /\ (outQ'[w][j] # EndMark => outQ'[w][i].frame < outQ'[w][j].frame)
      OBVIOUS
    <3>1. i \in 1 .. Len(q)
      BY <2>2
    <3>2. CASE j \in 1 .. Len(q)
      BY <1>2, <2>2, <2>q, <2>3, <3>1, <3>2 DEF Rising
    <3>3. CASE j = Len(q) + 1
      BY <2>2, <2>3, <3>1, <3>3
    <3> QED BY <2>2, <3>2, <3>3
  <2>5. Rising(w)'
    <3>1. frameQ' = frameQ /\ \A j : j \notin 1 .. Len(frameQ[w])
      BY <1>1, <1>5
    <3> QED BY <1>4, <2>4, <3>1 DEF Rising
  <2>6. Closing(w)'
    BY <1>1, <1>2, <1>3, <1>5 DEF Closing
  <2>7. \A f \in Nat : Has(w, f)' <=> Has(w, f)
    <3>1. \A f \in Nat : (\E i \in 1 .. Len(outQ'[w]) : outQ'[w][i].frame = f)
                            <=> (\E i \in 1 .. Len(q) : q[i].frame = f)
      <4>1. \A i : i \in 1 .. Len(outQ'[w]) <=> i \in 1 .. Len(q) \/ i = Len(q) + 1
        BY <2>2
      <4>2. \A f \in Nat : outQ'[w][Len(q) + 1].frame # f
        BY <2>2 DEF EndMark, EndOfStream
      <4> QED BY <2>2, <4>1, <4>2
    <3> QED BY <1>1, <1>4, <2>q, <3>1 DEF Has
  <2> QED BY <1>1, <1>2, <1>3, <2>1, <2>5, <2>6, <2>7, MovesAlong
<1> QED BY <1>6, <1>7 DEF Retire

\* Everything else a worker does keeps its frame and the queues.
LEMMA WorkerLines ==
    ASSUME LineTypes, QueueLines, NEW w \in Workers, Worker(w), processing
    PROVE  QueueLines'
<1>1. ASSUME NEW s \in WorkerStates \ {"get", "retire", "done"}, wpc[w] \notin {"get", "retire", "done"},
             wpc' = [wpc EXCEPT ![w] = s], UNCHANGED <<frameQ, outQ, job, next, rnum, rsent>>
      PROVE  QueueLines'
  <2>1. wpc'[w] = s /\ \A v \in Workers \ {w} : wpc'[v] = wpc[v]
    BY <1>1 DEF LineTypes
  <2>2. rsent' \in Nat /\ rsent <= rsent' /\ Rising(w) /\ Closing(w)
    BY <1>1 DEF LineTypes, QueueLines
  <2>3. Rising(w)' /\ Closing(w)' /\ \A f \in Nat : Has(w, f)' <=> Has(w, f)
    BY <1>1, <2>1, <2>2, OtherLine
  <2> QED BY <1>1, <2>1, <2>2, <2>3, MovesAlong
<1> USE DEF WorkerStates, readerVars, writerVars
<1>2. CASE Take(w)
  BY <1>2, TakeLines DEF Take
<1>3. CASE Admit(w)
  BY <1>1, <1>3 DEF Admit
<1>4. CASE Begin(w)
  BY <1>1, <1>4 DEF Begin
<1>5. CASE Work(w)
  BY <1>1, <1>5 DEF Work
<1>6. CASE End(w)
  BY <1>1, <1>6 DEF End
<1>7. CASE Leave(w)
  BY <1>1, <1>7 DEF Leave
<1>8. CASE Drain(w)
  BY <1>1, <1>8 DEF Drain
<1>9. CASE Wait(w)
  BY <1>1, <1>9 DEF Wait
<1>10. CASE Fallback(w)
  BY <1>1, <1>10 DEF Fallback
<1> QED BY <1>2, <1>3, <1>4, <1>5, <1>6, <1>7, <1>8, <1>9, <1>10, PutLines, RetireLines DEF Worker

\* An element more at the end of the input queue of w, of a higher number than the line.
LEMMA LongerInput ==
    ASSUME LineTypes, NEW w \in Workers, NEW e \in Frames \cup {EndOfStream},
           Rising(w), frameQ' = [frameQ EXCEPT ![w] = Append(@, e)], UNCHANGED <<outQ, wpc, job>>,
           \A j \in 1 .. Len(frameQ[w]) : frameQ[w][j] # EndOfStream,
           e # EndOfStream => \A f \in Nat : Has(w, f) => f < e,
           e # EndOfStream => \A i \in 1 .. Len(outQ[w]) : outQ[w][i] # EndMark
    PROVE  /\ Rising(w)'
           /\ \A f \in Nat : Has(w, f)' <=> Has(w, f) \/ f = e
           /\ Len(frameQ'[w]) = Len(frameQ[w]) + 1 /\ frameQ'[w][Len(frameQ[w]) + 1] = e
           /\ \A j \in 1 .. Len(frameQ[w]) : frameQ'[w][j] = frameQ[w][j]
           /\ \A v \in Workers \ {w} : frameQ'[v] = frameQ[v]
<1> DEFINE q == frameQ[w]
<1>1. /\ q \in Seq(Frames \cup {EndOfStream}) /\ frameQ'[w] = Append(q, e)
      /\ \A v \in Workers \ {w} : frameQ'[v] = frameQ[v]
  BY DEF LineTypes
<1>2. /\ Len(q) \in Nat /\ Len(frameQ'[w]) = Len(q) + 1
      /\ \A j \in 1 .. Len(q) : frameQ'[w][j] = q[j]
      /\ frameQ'[w][Len(q) + 1] = e
  BY <1>1
<1>q. frameQ[w] = q
  OBVIOUS
<1> HIDE DEF q
<1>e. /\ \A j \in 1 .. Len(q) : q[j] \in Nat
      /\ \A i \in 1 .. Len(outQ[w]) : outQ[w][i] # EndMark => outQ[w][i].frame \in Nat
      /\ job[w] \in Nat
  BY <1>q, Elements
<1>b. Busy(w)' <=> Busy(w)
  BY DEF Busy
<1>3. e # EndOfStream =>
         /\ \A j \in 1 .. Len(q) : q[j] < e
         /\ \A i \in 1 .. Len(outQ[w]) : outQ[w][i].frame < e
         /\ Busy(w) => job[w] < e
  BY <1>e, <1>q DEF Has
<1>4. \A i, j \in 1 .. Len(frameQ'[w]) : i < j =>
         frameQ'[w][i] # EndOfStream /\ (frameQ'[w][j] # EndOfStream => frameQ'[w][i] < frameQ'[w][j])
  <2> SUFFICES ASSUME NEW i \in 1 .. Len(frameQ'[w]), NEW j \in 1 .. Len(frameQ'[w]), i < j
               PROVE  frameQ'[w][i] # EndOfStream /\ (frameQ'[w][j] # EndOfStream => frameQ'[w][i] < frameQ'[w][j])
    OBVIOUS
  <2>1. i \in 1 .. Len(q)
    BY <1>2
  <2>2. CASE j \in 1 .. Len(q)
    BY <1>2, <1>q, <2>1, <2>2 DEF Rising
  <2>3. CASE j = Len(q) + 1
    BY <1>2, <1>3, <1>q, <2>1, <2>3
  <2> QED BY <1>2, <2>2, <2>3
<1>5. \A i \in 1 .. Len(outQ[w]), j \in 1 .. Len(frameQ'[w]) :
         frameQ'[w][j] # EndOfStream => outQ[w][i].frame < frameQ'[w][j]
  <2> SUFFICES ASSUME NEW i \in 1 .. Len(outQ[w]), NEW j \in 1 .. Len(frameQ'[w]), frameQ'[w][j] # EndOfStream
               PROVE  outQ[w][i].frame < frameQ'[w][j]
    OBVIOUS
  <2>1. CASE j \in 1 .. Len(q)
    BY <1>2, <1>q, <2>1 DEF Rising
  <2>2. CASE j = Len(q) + 1
    BY <1>2, <1>3, <2>2
  <2> QED BY <1>2, <2>1, <2>2
<1>6. Busy(w) => \A j \in 1 .. Len(frameQ'[w]) : frameQ'[w][j] # EndOfStream => job[w] < frameQ'[w][j]
  <2> SUFFICES ASSUME Busy(w), NEW j \in 1 .. Len(frameQ'[w]), frameQ'[w][j] # EndOfStream
               PROVE  job[w] < frameQ'[w][j]
    OBVIOUS
  <2>1. CASE j \in 1 .. Len(q)
    BY <1>2, <1>q, <2>1 DEF Rising
  <2>2. CASE j = Len(q) + 1
    BY <1>2, <1>3, <2>2
  <2> QED BY <1>2, <2>1, <2>2
<1>7. \A i, j \in 1 .. Len(outQ[w]) : i < j =>
         outQ[w][i] # EndMark /\ (outQ[w][j] # EndMark => outQ[w][i].frame < outQ[w][j].frame)
  BY DEF Rising
<1>8. Busy(w) => \A i \in 1 .. Len(outQ[w]) : outQ[w][i].frame < job[w]
  BY DEF Rising
<1>9. Rising(w)'
  BY <1>b, <1>4, <1>5, <1>6, <1>7, <1>8 DEF Rising
<1>10. \A f \in Nat : Has(w, f)' <=> Has(w, f) \/ f = e
  <2>1. \A j : j \in 1 .. Len(frameQ'[w]) <=> j \in 1 .. Len(q) \/ j = Len(q) + 1
    BY <1>2
  <2>2. \A f : (\E j \in 1 .. Len(frameQ'[w]) : frameQ'[w][j] = f)
                  <=> ((\E j \in 1 .. Len(q) : q[j] = f) \/ f = e)
    BY <1>2, <2>1
  <2> QED BY <1>b, <1>q, <2>2 DEF Has
<1> QED BY <1>1, <1>2, <1>9, <1>10, <1>q

\* The reader appends the frame it has read to the line of its number.
LEMMA ReadLines ==
    ASSUME LineTypes, QueueLines, Encoding, ReaderPut, processing
    PROVE  QueueLines'
<1>0. NumThreads \in Nat \ {0} /\ TotalFrames \in Nat
  BY ConstantsAssumption DEF ConstantsAssumption
<1>w. PICK w \in Workers : w = rnum % NumThreads
  <2>1. rnum % NumThreads \in Workers
    BY <1>0 DEF LineTypes, Workers
  <2> QED BY <2>1
<1>1. /\ frameQ' = [frameQ EXCEPT ![w] = Append(@, rnum)] /\ rnum' = rnum + 1
      /\ UNCHANGED <<outQ, wpc, job, next, rsent>>
  BY <1>w DEF ReaderPut, workerVars, writerVars
<1>2. w \in Workers /\ rnum \in Nat /\ next \in Nat /\ rnum # EndOfStream
  BY <1>0 DEF LineTypes, Workers, EndOfStream
<1>3. rsent = 0
  BY DEF ReaderPut, Encoding, LineTypes
<1>4. /\ \A v \in Workers : Rising(v) /\ Closing(v)
      /\ \A v \in Workers, f \in Nat : Has(v, f) => f % NumThreads = v /\ next <= f /\ f < rnum
      /\ \A f \in Nat : next <= f /\ f < rnum => Has(f % NumThreads, f)
  BY DEF QueueLines, Bounded, Complete
<1>5. \A v \in Workers : ~(v < rsent)
  BY <1>3 DEF Workers
<1>6. /\ \A j \in 1 .. Len(frameQ[w]) : frameQ[w][j] # EndOfStream
      /\ wpc[w] \notin {"retire", "done"}
      /\ \A i \in 1 .. Len(outQ[w]) : outQ[w][i] # EndMark
  BY <1>2, <1>4, <1>5 DEF Closing
<1>7. /\ Rising(w)'
      /\ \A f \in Nat : Has(w, f)' <=> Has(w, f) \/ f = rnum
      /\ Len(frameQ'[w]) = Len(frameQ[w]) + 1 /\ frameQ'[w][Len(frameQ[w]) + 1] = rnum
      /\ \A j \in 1 .. Len(frameQ[w]) : frameQ'[w][j] = frameQ[w][j]
      /\ \A v \in Workers \ {w} : frameQ'[v] = frameQ[v]
  <2>1. rnum \in Frames \cup {EndOfStream}
    BY DEF ReaderPut, LineTypes
  <2>2. \A f \in Nat : Has(w, f) => f < rnum
    BY <1>2, <1>4
  <2> QED BY <1>1, <1>2, <1>4, <1>6, <2>1, <2>2, LongerInput
<1>8. Closing(w)'
  <2>1. \A j \in 1 .. Len(frameQ'[w]) : frameQ'[w][j] # EndOfStream
    <3>1. \A j : j \in 1 .. Len(frameQ'[w]) => j \in 1 .. Len(frameQ[w]) \/ j = Len(frameQ[w]) + 1
      BY <1>2, <1>7, Elements
    <3> QED BY <1>2, <1>6, <1>7, <3>1
  <2> QED BY <1>1, <1>6, <2>1 DEF Closing
<1>9. ASSUME NEW v \in Workers, v # w
      PROVE  Rising(v)' /\ Closing(v)' /\ \A f \in Nat : Has(v, f)' <=> Has(v, f)
  <2>1. rsent' \in Nat /\ rsent <= rsent' /\ frameQ'[v] = frameQ[v]
    BY <1>1, <1>3, <1>7, <1>9
  <2> QED BY <1>1, <1>4, <1>9, <2>1, OtherLine
<1>10. Bounded'
  <2> SUFFICES ASSUME NEW v \in Workers, NEW f \in Nat, Has(v, f)'
               PROVE  f % NumThreads = v /\ next <= f /\ f < rnum + 1
    BY <1>1 DEF Bounded
  <2>1. next <= rnum
    BY <1>2, <1>3 DEF Encoding
  <2>2. CASE Has(v, f)
    BY <1>2, <1>4, <2>2
  <2>3. CASE v = w /\ f = rnum
    BY <1>2, <1>w, <2>1, <2>3
  <2> QED BY <1>7, <1>9, <2>2, <2>3
<1>11. Complete'
  <2> SUFFICES ASSUME NEW f \in Nat, next <= f, f < rnum + 1 PROVE Has(f % NumThreads, f)'
    BY <1>1 DEF Complete
  <2>1. f % NumThreads \in Workers
    BY <1>0 DEF Workers
  <2>2. f = rnum \/ f < rnum
    BY <1>2
  <2>3. CASE f = rnum
    BY <1>7, <1>w, <2>3
  <2>4. CASE f < rnum
    <3>1. PICK v \in Workers : v = f % NumThreads
      BY <2>1
    <3>2. Has(v, f)
      BY <1>4, <2>4, <3>1
    <3>3. CASE v = w
      BY <1>7, <3>1, <3>2, <3>3
    <3>4. CASE v # w
      BY <1>9, <3>1, <3>2, <3>4
    <3> QED BY <3>3, <3>4
  <2> QED BY <2>2, <2>3, <2>4
<1> QED BY <1>7, <1>8, <1>9, <1>10, <1>11 DEF QueueLines

\* The reader closes the lines in turn.
LEMMA CloseLines ==
    ASSUME LineTypes, QueueLines, PostSentinel, processing'
    PROVE  QueueLines'
<1>0. /\ rsent < NumThreads /\ rsent' = rsent + 1 /\ rsent \in Nat /\ NumThreads \in Nat
      /\ UNCHANGED <<outQ, wpc, job, next, rnum>>
  BY ConstantsAssumption DEF PostSentinel, workerVars, writerVars, ConstantsAssumption, LineTypes
<1>w. PICK w \in Workers : w = rsent
  BY <1>0 DEF Workers
<1>4. /\ \A v \in Workers : Rising(v) /\ Closing(v)
      /\ \A v \in Workers : v \in Nat
  BY DEF QueueLines, Workers
<1>1. CASE frameQ' = [frameQ EXCEPT ![w] = Append(@, EndOfStream)]
  <2>1. /\ \A j \in 1 .. Len(frameQ[w]) : frameQ[w][j] # EndOfStream
        /\ wpc[w] \notin {"retire", "done"}
    BY <1>0, <1>4, <1>w DEF Closing
  <2>2. EndOfStream \in Frames \cup {EndOfStream}
    OBVIOUS
  <2>3. /\ Rising(w)'
        /\ \A f \in Nat : Has(w, f)' <=> Has(w, f) \/ f = EndOfStream
        /\ \A v \in Workers \ {w} : frameQ'[v] = frameQ[v]
    BY <1>0, <1>1, <1>4, <2>1, <2>2, LongerInput
  <2>4. \A f \in Nat : f # EndOfStream
    BY DEF EndOfStream
  <2>5. Closing(w)'
    <3>1. w < rsent' /\ \A i \in 1 .. Len(outQ[w]) : outQ[w][i] # EndMark
      BY <1>0, <1>4, <1>w, <2>1 DEF Closing
    <3> QED BY <1>0, <2>1, <3>1 DEF Closing
  <2> QED BY <1>0, <2>3, <2>4, <2>5, MovesAlong
<1>2. CASE frameQ' = frameQ
  <2>1. rsent' \in Nat /\ rsent <= rsent'
    BY <1>0
  <2>2. Rising(w)' /\ Closing(w)' /\ \A f \in Nat : Has(w, f)' <=> Has(w, f)
    BY <1>0, <1>2, <1>4, <2>1, OtherLine
  <2> QED BY <1>0, <1>2, <2>1, <2>2, MovesAlong
<1> QED BY <1>1, <1>2, <1>w DEF PostSentinel

\* The first output on the line whose turn it is, is the next frame of the clip; and
\* an end mark there means that no frame is left anywhere.
LEMMA FirstIsNext ==
    ASSUME LineTypes, QueueLines, outQ[Turn] # <<>>
    PROVE  LET h == Head(outQ[Turn]) IN
           /\ h # EndMark => h.frame = next /\ next < rnum
           /\ h = EndMark => rsent > 0 /\ next >= rnum /\ Len(outQ[Turn]) = 1 /\ wpc[Turn] = "done"
                             /\ frameQ[Turn] = <<>>
<1>0. Turn \in Workers /\ next \in Nat /\ rnum \in Nat /\ rsent \in Nat
  BY TurnType DEF LineTypes
<1>w. PICK w \in Workers : w = Turn
  BY <1>0
<1>n. next % NumThreads = w
  BY <1>w DEF Turn
<1> DEFINE q == outQ[w]
           h == Head(q)
<1>1. /\ q \in Seq(Output \cup {EndMark}) /\ q # <<>> /\ h = q[1] /\ Len(q) \in Nat /\ Len(q) >= 1
      /\ 1 \in 1 .. Len(q)
  <2>1. q \in Seq(Output \cup {EndMark}) /\ q # <<>>
    BY <1>w DEF LineTypes
  <2> QED BY <2>1, FirstAndRest
<1>q. outQ[w] = q /\ Head(outQ[Turn]) = h
  BY <1>w
<1> HIDE DEF q, h
<1>2. /\ Rising(w) /\ Closing(w)
      /\ \A f \in Nat : Has(w, f) => f % NumThreads = w /\ next <= f /\ f < rnum
      /\ next < rnum => Has(w, next)
  <2>1. next < rnum => Has(next % NumThreads, next)
    BY <1>0 DEF QueueLines, Complete
  <2> QED BY <1>n, <2>1 DEF QueueLines, Bounded
<1>e. /\ \A i \in 1 .. Len(q) : /\ q[i].frame \in Int /\ (q[i] = EndMark <=> q[i].frame = -1)
                                /\ q[i] # EndMark => q[i].frame \in Nat
      /\ \A j \in 1 .. Len(frameQ[w]) : frameQ[w][j] \in Int
      /\ job[w] \in Nat /\ w \in Nat
  BY <1>q, Elements
<1>s. EndOfStream = -1
  BY DEF EndOfStream
<1>3. ASSUME h # EndMark PROVE h.frame = next /\ next < rnum
  <2>1. h.frame \in Nat /\ q[1].frame = h.frame
    BY <1>1, <1>3, <1>e
  <2>2. Has(w, h.frame)
    BY <1>1, <1>q, <2>1 DEF Has
  <2>3. next <= h.frame /\ h.frame < rnum /\ next < rnum
    BY <1>0, <1>2, <2>1, <2>2
  <2>4. \A i \in 1 .. Len(q) : i # 1 /\ q[i] # EndMark => h.frame < q[i].frame
    <3> SUFFICES ASSUME NEW i \in 1 .. Len(q), i # 1, q[i] # EndMark PROVE h.frame < q[i].frame
      OBVIOUS
    <3>1. 1 < i
      BY <1>1
    <3> QED BY <1>1, <1>2, <1>q, <3>1 DEF Rising
  <2>5. ASSUME NEW i \in 1 .. Len(q), q[i].frame = next PROVE h.frame <= next
    <3>1. q[i] # EndMark
      BY <1>0, <1>e, <2>5
    <3> QED BY <1>0, <2>1, <2>4, <2>5, <3>1
  <2>6. ASSUME Busy(w), job[w] = next PROVE h.frame <= next
    <3>1. q[1].frame < job[w]
      BY <1>1, <1>2, <1>q, <2>6 DEF Rising
    <3> QED BY <1>0, <2>1, <2>6, <3>1
  <2>7. ASSUME NEW j \in 1 .. Len(frameQ[w]), frameQ[w][j] = next PROVE h.frame <= next
    <3>1. frameQ[w][j] # EndOfStream
      BY <1>0, <1>s, <2>7
    <3>2. q[1].frame < frameQ[w][j]
      BY <1>1, <1>2, <1>q, <3>1 DEF Rising
    <3> QED BY <1>0, <2>1, <2>7, <3>2
  <2>8. h.frame <= next
    BY <1>2, <1>q, <2>3, <2>5, <2>6, <2>7 DEF Has
  <2> QED BY <1>0, <2>1, <2>3, <2>8
<1>4. ASSUME h = EndMark
      PROVE  rsent > 0 /\ next >= rnum /\ Len(q) = 1 /\ wpc[w] = "done" /\ frameQ[w] = <<>>
  <2>1. q[1] = EndMark
    BY <1>1, <1>4
  <2>2. wpc[w] = "done" /\ frameQ[w] = <<>> /\ w < rsent
    BY <1>1, <1>2, <1>q, <2>1 DEF Closing
  <2>3. ~(1 < Len(q))
    <3>1. \A i, j \in 1 .. Len(q) : i < j => q[i] # EndMark
      BY <1>2, <1>q DEF Rising
    <3>2. Len(q) \in 1 .. Len(q)
      BY <1>1
    <3> QED BY <1>1, <2>1, <3>1, <3>2
  <2>4. Len(q) = 1
    <3>1. Len(q) \in Nat /\ Len(q) >= 1
      BY <1>1
    <3> QED BY <2>3, <3>1
  <2>5. ~Has(w, next)
    <3>1. ~Busy(w)
      BY <2>2 DEF Busy
    <3>2. \A i \in 1 .. Len(q) : q[i].frame # next
      BY <1>0, <1>e, <2>1, <2>4
    <3>3. \A j : j \notin 1 .. Len(frameQ[w])
      BY <2>2
    <3> QED BY <1>q, <3>1, <3>2, <3>3 DEF Has
  <2> QED BY <1>0, <1>2, <1>e, <2>2, <2>4, <2>5
<1> QED BY <1>3, <1>4, <1>q, <1>w

\* The writer takes the first output of that line.
LEMMA FetchLines ==
    ASSUME LineTypes, QueueLines, Fetch, processing
    PROVE  QueueLines'
<1>0. /\ Turn \in Workers /\ next \in Nat /\ rnum \in Nat /\ rsent \in Nat
      /\ NumThreads \in Nat \ {0}
  BY TurnType, ConstantsAssumption DEF LineTypes, ConstantsAssumption
<1>w. PICK w \in Workers : w = Turn
  BY <1>0
<1>n. next % NumThreads = w
  BY <1>w DEF Turn
<1> DEFINE q == outQ[w]
           h == Head(q)
<1>1. /\ q # <<>> /\ outQ' = [outQ EXCEPT ![w] = Tail(q)] /\ next' = next + 1
      /\ UNCHANGED <<frameQ, wpc, job, rnum, rsent>>
  BY <1>w DEF Fetch, readerVars, workerVars
<1>2. /\ q \in Seq(Output \cup {EndMark}) /\ h = q[1] /\ Len(q) \in Nat /\ Len(q) >= 1
      /\ outQ'[w] = Tail(q) /\ Len(outQ'[w]) = Len(q) - 1
      /\ \A i \in 1 .. Len(q) - 1 : outQ'[w][i] = q[i + 1]
      /\ \A v \in Workers \ {w} : outQ'[v] = outQ[v]
  <2>1. q \in Seq(Output \cup {EndMark}) /\ outQ'[w] = Tail(q) /\ \A v \in Workers \ {w} : outQ'[v] = outQ[v]
    BY <1>1 DEF LineTypes
  <2>2. /\ h = q[1] /\ Len(q) \in Nat /\ Len(q) >= 1 /\ Len(Tail(q)) = Len(q) - 1
        /\ \A i \in 1 .. Len(q) - 1 : Tail(q)[i] = q[i + 1]
    BY <1>1, <2>1, FirstAndRest
  <2> HIDE DEF q, h
  <2> QED BY <2>1, <2>2
<1>3. /\ h # EndMark => h.frame = next /\ next < rnum
      /\ h = EndMark => rsent > 0 /\ next >= rnum /\ Len(q) = 1 /\ wpc[w] = "done" /\ frameQ[w] = <<>>
  BY <1>1, <1>w, FirstIsNext
<1>q. outQ[w] = q
  OBVIOUS
<1> HIDE DEF q, h
<1>4. /\ \A v \in Workers : Rising(v) /\ Closing(v)
      /\ \A v \in Workers, f \in Nat : Has(v, f) => f % NumThreads = v /\ next <= f /\ f < rnum
      /\ \A f \in Nat : next <= f /\ f < rnum => Has(f % NumThreads, f)
  BY DEF QueueLines, Bounded, Complete
<1>b. Busy(w)' <=> Busy(w)
  BY <1>1 DEF Busy
<1>5. Rising(w)'
  <2>1. \A i, j \in 1 .. Len(outQ'[w]) : i < j =>
           outQ'[w][i] # EndMark /\ (outQ'[w][j] # EndMark => outQ'[w][i].frame < outQ'[w][j].frame)
    BY <1>2, <1>4, <1>q DEF Rising
  <2>2. \A i \in 1 .. Len(outQ'[w]), j \in 1 .. Len(frameQ[w]) :
           frameQ[w][j] # EndOfStream => outQ'[w][i].frame < frameQ[w][j]
    BY <1>2, <1>4, <1>q DEF Rising
  <2>3. Busy(w) => \A i \in 1 .. Len(outQ'[w]) : outQ'[w][i].frame < job[w]
    BY <1>2, <1>4, <1>q DEF Rising
  <2>4. /\ \A i, j \in 1 .. Len(frameQ[w]) : i < j =>
              frameQ[w][i] # EndOfStream /\ (frameQ[w][j] # EndOfStream => frameQ[w][i] < frameQ[w][j])
        /\ Busy(w) => \A j \in 1 .. Len(frameQ[w]) : frameQ[w][j] # EndOfStream => job[w] < frameQ[w][j]
    BY <1>4 DEF Rising
  <2> QED BY <1>1, <1>b, <2>1, <2>2, <2>3, <2>4 DEF Rising
<1>6. Closing(w)'
  <2>1. \A i \in 1 .. Len(outQ'[w]) : outQ'[w][i] = EndMark => wpc[w] = "done"
    BY <1>2, <1>4, <1>q DEF Closing
  <2> QED BY <1>1, <1>4, <2>1 DEF Closing
<1>7. \A f \in Nat : Has(w, f)' <=> Has(w, f) /\ f # next
  <2>1. \A f \in Nat : (\E i \in 1 .. Len(q) : q[i].frame = f)
                          <=> (h.frame = f \/ \E i \in 1 .. Len(outQ'[w]) : outQ'[w][i].frame = f)
    <3>1. \A i : i \in 1 .. Len(q) <=> i = 1 \/ (i - 1 \in 1 .. Len(outQ'[w]) /\ i \in Int)
      BY <1>2
    <3>2. \A i \in 1 .. Len(q) : i # 1 => i - 1 \in 1 .. Len(outQ'[w]) /\ q[i] = outQ'[w][i - 1]
      BY <1>2
    <3>3. \A i \in 1 .. Len(outQ'[w]) : i + 1 \in 1 .. Len(q) /\ q[i + 1] = outQ'[w][i]
      BY <1>2
    <3>4. 1 \in 1 .. Len(q) /\ q[1] = h
      BY <1>2
    <3> QED BY <3>2, <3>3, <3>4
  <2>2. \A f \in Nat : Has(w, f) <=> h.frame = f \/ Has(w, f)'
    BY <1>1, <1>b, <1>q, <2>1 DEF Has
  <2>3. CASE h # EndMark
    <3>0. PICK n \in Nat : n = next
      BY <1>0
    <3>1. ~Has(w, n)'
      <4>1. q[1] = h /\ h.frame = n /\ 1 \in 1 .. Len(q)
        BY <1>2, <1>3, <2>3, <3>0
      <4>2. \A i \in 1 .. Len(outQ'[w]) : outQ'[w][i].frame # n
        <5> SUFFICES ASSUME NEW i \in 1 .. Len(outQ'[w]), outQ'[w][i].frame = n PROVE FALSE
          OBVIOUS
        <5>1. i + 1 \in 1 .. Len(q) /\ q[i + 1].frame = n /\ 1 < i + 1
          BY <1>2
        <5>2. q[i + 1] # EndMark
          BY <1>0, <5>1 DEF EndMark, EndOfStream
        <5>3. q[1].frame < q[i + 1].frame
          BY <1>4, <1>q, <4>1, <5>1, <5>2 DEF Rising
        <5> QED BY <1>0, <4>1, <5>1, <5>3
      <4>3. Busy(w) => job[w] # n
        <5>1. Busy(w) => q[1].frame < job[w]
          BY <1>4, <1>q, <4>1 DEF Rising
        <5> QED BY <1>0, <4>1, <5>1
      <4>4. \A j \in 1 .. Len(frameQ[w]) : frameQ[w][j] # n
        <5> SUFFICES ASSUME NEW j \in 1 .. Len(frameQ[w]), frameQ[w][j] = n PROVE FALSE
          OBVIOUS
        <5>1. frameQ[w][j] # EndOfStream
          BY <1>0 DEF EndOfStream
        <5>2. q[1].frame < frameQ[w][j]
          BY <1>4, <1>q, <4>1, <5>1 DEF Rising
        <5> QED BY <1>0, <4>1, <5>2
      <4> QED BY <1>1, <1>b, <4>2, <4>3, <4>4 DEF Has
    <3> QED BY <1>3, <2>2, <2>3, <3>0, <3>1
  <2>4. CASE h = EndMark
    <3>1. \A f \in Nat : h.frame # f
      BY <2>4 DEF EndMark, EndOfStream
    <3>2. ~Has(w, next)
      BY <1>0, <1>3, <1>4, <2>4
    <3> QED BY <1>0, <2>2, <3>1, <3>2
  <2> QED BY <2>3, <2>4
<1>8. ASSUME NEW v \in Workers, v # w
      PROVE  Rising(v)' /\ Closing(v)' /\ \A f \in Nat : Has(v, f)' <=> Has(v, f)
  <2>1. rsent' \in Nat /\ rsent <= rsent' /\ outQ'[v] = outQ[v]
    BY <1>0, <1>1, <1>2, <1>8
  <2> QED BY <1>1, <1>4, <1>8, <2>1, OtherLine
<1>9. Bounded'
  <2> SUFFICES ASSUME NEW v \in Workers, NEW f \in Nat, Has(v, f)'
               PROVE  f % NumThreads = v /\ next + 1 <= f /\ f < rnum
    BY <1>1 DEF Bounded
  <2>1. Has(v, f) /\ f # next
    <3>1. CASE v = w
      BY <1>7, <3>1
    <3>2. CASE v # w
      <4>1. Has(v, f)
        BY <1>8, <3>2
      <4> QED BY <1>4, <1>n, <3>2, <4>1
    <3> QED BY <3>1, <3>2
  <2>2. f % NumThreads = v /\ next <= f /\ f < rnum
    BY <1>4, <2>1
  <2> QED BY <1>0, <2>1, <2>2
<1>10. Complete'
  <2> SUFFICES ASSUME NEW f \in Nat, next + 1 <= f, f < rnum PROVE Has(f % NumThreads, f)'
    BY <1>1 DEF Complete
  <2>1. f % NumThreads \in Workers
    BY <1>0 DEF Workers
  <2>2. Has(f % NumThreads, f) /\ f # next
    BY <1>0, <1>4
  <2> QED BY <1>7, <1>8, <2>1, <2>2
<1> QED BY <1>5, <1>6, <1>8, <1>9, <1>10 DEF QueueLines

\* A run that is stopped stays stopped, and a writer that sweeps the queues goes on to its end.
LEMMA NoReturn ==
    [Next]_vars => /\ processing' => processing
                   /\ xpc' \notin {"drain", "done"} => xpc \notin {"drain", "done"}
<1> SUFFICES ASSUME [Next]_vars
             PROVE  /\ processing' => processing
                    /\ xpc' \notin {"drain", "done"} => xpc \notin {"drain", "done"}
  OBVIOUS
<1>1. CASE Reader
  BY <1>1 DEF Reader, ReaderPoll, ReaderRearm, ReaderHold, ReaderPut, PostSentinel, flagVars, writerVars
<1>2. ASSUME NEW w \in Workers, Worker(w) PROVE UNCHANGED <<processing, xpc>>
  BY <1>2 DEF Worker, Take, TakeNext, Admit, Begin, Work, End, Leave, Drain, Wait, Fallback, Put,
              Retire, flagVars, writerVars
<1>3. CASE Writer
  BY <1>3 DEF Writer, Fetch, Encode, Clear, Check, Unpark, ReleaseQueued, flagVars
<1>4. CASE Join \/ Close \/ CallBegins \/ UNCHANGED vars
  BY <1>4 DEF Join, Close, CallBegins, vars, flagVars, writerVars
<1>5. CASE CallEnds
  <2>1. xpc' = xpc
    BY <1>5 DEF CallEnds, writerVars
  <2>2. processing' = (processing /\ call # "stopping")
    BY <1>5 DEF CallEnds
  <2>3. processing' => processing
    BY <2>2, Zenon
  <2> QED BY <2>1, <2>3
<1> QED BY <1>1, <1>2, <1>3, <1>4, <1>5 DEF Next

\* The lines while the run goes on.
LEMMA QueueLinesStep ==
    ASSUME LineTypes, Lines, [Next]_vars, processing, processing', xpc' \notin {"drain", "done"}
    PROVE  QueueLines'
<1>0. QueueLines /\ Encoding /\ rsent \in Nat
  BY DEF Lines, LineTypes
<1>1. ASSUME UNCHANGED <<frameQ, outQ, wpc, job, next, rnum, rsent>> PROVE QueueLines'
  <2>1. rsent' \in Nat /\ rsent <= rsent'
    BY <1>0, <1>1
  <2>2. \A v \in Workers : Rising(v)' /\ Closing(v)' /\ \A f \in Nat : Has(v, f)' <=> Has(v, f)
    BY <1>0, <1>1, <2>1, OtherLine DEF QueueLines
  <2>3. \A f \in Nat : f % NumThreads \in Workers
    BY ConstantsAssumption DEF ConstantsAssumption, Workers
  <2>4. Bounded'
    BY <1>0, <1>1, <2>2 DEF Bounded, QueueLines
  <2>5. Complete'
    BY <1>0, <1>1, <2>2, <2>3 DEF Complete, QueueLines
  <2> QED BY <2>2, <2>4, <2>5 DEF QueueLines
<1>2. CASE ReaderPoll \/ ReaderRearm \/ ReaderHold
  BY <1>1, <1>2 DEF ReaderPoll, ReaderRearm, ReaderHold, workerVars, writerVars
<1>3. CASE \E w \in Workers : Worker(w)
  BY <1>0, <1>3, WorkerLines
<1>4. CASE Encode \/ Clear \/ Check \/ Unpark
  BY <1>1, <1>4 DEF Encode, Clear, Check, Unpark, readerVars, workerVars
<1>5. CASE ReleaseQueued
  <2>1. xpc = "drain"
    BY <1>5 DEF ReleaseQueued
  <2> QED BY <2>1, NoReturn
<1>6. CASE Join \/ Close \/ CallBegins \/ CallEnds \/ UNCHANGED vars
  BY <1>1, <1>6 DEF Join, Close, CallBegins, CallEnds, vars, readerVars, workerVars, writerVars
<1> QED BY <1>0, <1>2, <1>3, <1>4, <1>5, <1>6, ReadLines, CloseLines, FetchLines DEF Next, Reader, Writer

\* No output is a refused frame.
LEMMA NoRefusedStep ==
    ASSUME TypeInv, NoRefused, [Next]_vars, processing
    PROVE  NoRefused'
<1>t. /\ out \in [Workers -> Kinds \cup {"oom", "error", "none"}]
      /\ outQ \in [Workers -> Seq(Output \cup {EndMark})]
  BY DEF TypeInv, TypeOK, WorkerType, QueueType
<1>0. /\ \A w \in Workers : out[w] # "refused"
      /\ \A w \in Workers : \A i \in 1 .. Len(outQ[w]) : outQ[w][i].kind # "refused"
  BY DEF NoRefused
<1>1. ASSUME UNCHANGED <<out, outQ>> PROVE NoRefused'
  BY <1>0, <1>1 DEF NoRefused
<1>2. ASSUME NEW w \in Workers, UNCHANGED outQ, NEW k \in {"swapped", "original", "oom", "error", "none"},
             out' = [out EXCEPT ![w] = k]
      PROVE  NoRefused'
  BY <1>0, <1>2, <1>t DEF NoRefused
<1>3. ASSUME NEW w \in Workers, UNCHANGED out, NEW o, o.kind # "refused",
             outQ' = [outQ EXCEPT ![w] = Append(@, o)]
      PROVE  NoRefused'
  <2>1. /\ outQ[w] \in Seq(Output \cup {EndMark}) /\ outQ'[w] = Append(outQ[w], o)
        /\ \A v \in Workers \ {w} : outQ'[v] = outQ[v]
    BY <1>3, <1>t
  <2>2. /\ Len(outQ[w]) \in Nat /\ Len(outQ'[w]) = Len(outQ[w]) + 1
        /\ outQ'[w][Len(outQ[w]) + 1] = o
        /\ \A i \in 1 .. Len(outQ[w]) : outQ'[w][i] = outQ[w][i]
    BY <2>1
  <2>3. \A i \in 1 .. Len(outQ'[w]) : outQ'[w][i].kind # "refused"
    <3>1. \A i : i \in 1 .. Len(outQ'[w]) => i \in 1 .. Len(outQ[w]) \/ i = Len(outQ[w]) + 1
      BY <2>2
    <3> QED BY <1>0, <1>3, <2>2, <3>1
  <2> QED BY <1>0, <1>3, <2>1, <2>3 DEF NoRefused
<1>4. ASSUME NEW w \in Workers, UNCHANGED out, outQ[w] # <<>>, outQ' = [outQ EXCEPT ![w] = Tail(@)]
      PROVE  NoRefused'
  <2>1. /\ outQ[w] \in Seq(Output \cup {EndMark}) /\ outQ'[w] = Tail(outQ[w])
        /\ \A v \in Workers \ {w} : outQ'[v] = outQ[v]
    BY <1>4, <1>t
  <2>2. /\ Len(outQ[w]) \in Nat /\ Len(outQ'[w]) = Len(outQ[w]) - 1
        /\ \A i \in 1 .. Len(outQ[w]) - 1 : outQ'[w][i] = outQ[w][i + 1]
    BY <1>4, <2>1, FirstAndRest
  <2>3. \A i \in 1 .. Len(outQ'[w]) : outQ'[w][i].kind # "refused"
    BY <1>0, <2>2
  <2> QED BY <1>0, <1>4, <2>1, <2>3 DEF NoRefused
<1>5. CASE Reader
  BY <1>1, <1>5 DEF Reader, ReaderPoll, ReaderRearm, ReaderHold, ReaderPut, PostSentinel, workerVars
<1>6. ASSUME NEW w \in Workers, Worker(w) PROVE NoRefused'
  <2>1. CASE Take(w) \/ Admit(w) \/ Begin(w) \/ End(w) \/ Leave(w) \/ Drain(w) \/ Wait(w)
    BY <1>1, <2>1 DEF Take, TakeNext, Admit, Begin, End, Leave, Drain, Wait
  <2>2. CASE Work(w)
    BY <1>2, <2>2 DEF Work, Failures
  <2>3. CASE Fallback(w)
    BY <1>2, <2>3 DEF Fallback
  <2>4. CASE Put(w)
    BY <1>0, <1>3, <2>4 DEF Put
  <2>5. CASE Retire(w)
    <3>1. EndMark.kind # "refused"
      BY DEF EndMark
    <3>2. out' = out /\ (outQ' = outQ \/ outQ' = [outQ EXCEPT ![w] = Append(@, EndMark)])
      BY <2>5 DEF Retire
    <3> QED BY <1>1, <1>3, <3>1, <3>2
  <2> QED BY <1>6, <2>1, <2>2, <2>3, <2>4, <2>5 DEF Worker
<1>7. CASE Fetch
  <2>1. Turn \in Workers
    BY TurnType DEF TypeInv, TypeOK, WriterType
  <2> QED BY <1>1, <1>4, <1>7, <2>1 DEF Fetch, workerVars
<1>8. CASE Encode \/ Clear \/ Check \/ Unpark
  BY <1>1, <1>8 DEF Encode, Clear, Check, Unpark, workerVars
<1>9. CASE ReleaseQueued
  <2>1. sweep \in Workers
    BY DEF TypeInv, TypeOK, WriterType
  <2> QED BY <1>1, <1>4, <1>9, <2>1 DEF ReleaseQueued, workerVars
<1>10. CASE Join \/ Close \/ CallBegins \/ CallEnds \/ UNCHANGED vars
  BY <1>1, <1>10 DEF Join, Close, CallBegins, CallEnds, vars, workerVars
<1> QED BY <1>5, <1>6, <1>7, <1>8, <1>9, <1>10 DEF Next, Writer

\* What is encoded, and what comes next.
LEMMA EncodingStep ==
    ASSUME TypeInv, LineTypes, Lines, [Next]_vars, processing, xpc \notin {"drain", "done"}
    PROVE  xpc' \notin {"drain", "done"} => Encoding'
<1>0. /\ next \in Nat /\ rnum \in Nat /\ rsent \in Nat /\ encoded \in Seq(Output \cup {EndMark})
      /\ Encoding /\ QueueLines /\ NoRefused
  BY DEF Lines, LineTypes, TypeInv, TypeOK, WriterType
<1>1. ASSUME UNCHANGED <<rnum, rsent, rpc, next, encoded, item>>, xpc' = "encode" <=> xpc = "encode"
      PROVE  Encoding'
  BY <1>0, <1>1 DEF Encoding
<1>2. CASE Reader
  <2>1. UNCHANGED <<next, encoded, item, xpc>>
    BY <1>2 DEF Reader, ReaderPoll, ReaderRearm, ReaderHold, ReaderPut, PostSentinel, writerVars
  <2>2. CASE ReaderPoll \/ ReaderRearm \/ ReaderHold
    <3>1. rnum' = rnum /\ rsent' = rsent /\ rpc \notin {"end", "done"}
      BY <2>2 DEF ReaderPoll, ReaderRearm, ReaderHold
    <3> QED BY <1>0, <2>1, <3>1 DEF Encoding
  <2>3. CASE ReaderPut
    <3>1. rnum' = rnum + 1 /\ rsent' = rsent /\ rpc = "put"
      BY <2>3 DEF ReaderPut
    <3>2. rsent = 0 /\ next <= rnum
      BY <1>0, <3>1 DEF Encoding
    <3> QED BY <1>0, <2>1, <3>1, <3>2 DEF Encoding
  <2>4. CASE PostSentinel
    <3>1. rnum' = rnum /\ rsent' = rsent + 1 /\ rpc' \in {"end", "done"}
      BY <2>4 DEF PostSentinel
    <3> QED BY <1>0, <2>1, <3>1 DEF Encoding
  <2> QED BY <1>2, <2>2, <2>3, <2>4 DEF Reader
<1>3. ASSUME NEW w \in Workers, Worker(w) PROVE Encoding'
  <2>1. UNCHANGED <<rnum, rsent, rpc, next, encoded, item, xpc>>
    BY <1>3 DEF Worker, Take, TakeNext, Admit, Begin, Work, End, Leave, Drain, Wait, Fallback, Put,
                Retire, readerVars, writerVars
  <2> QED BY <1>1, <2>1
<1>4. CASE Fetch /\ xpc' \notin {"drain", "done"}
  <2>1. /\ outQ[Turn] # <<>> /\ next' = next + 1 /\ xpc = "get"
        /\ UNCHANGED <<rnum, rsent, rpc, encoded>>
    BY <1>4 DEF Fetch, readerVars
  <2> DEFINE h == Head(outQ[Turn])
  <2>2. /\ h # EndMark => h.frame = next /\ next < rnum
        /\ h = EndMark => rsent > 0 /\ next >= rnum
    BY <1>0, <2>1, FirstIsNext
  <2>3. h.kind # "refused"
    <3>1. Turn \in Workers
      BY <1>0, TurnType
    <3>2. outQ[Turn] \in Seq(Output \cup {EndMark})
      BY <3>1 DEF LineTypes
    <3>3. h = outQ[Turn][1] /\ 1 \in 1 .. Len(outQ[Turn])
      BY <2>1, <3>2, FirstAndRest
    <3> QED BY <1>0, <3>1, <3>3 DEF NoRefused
  <2>4. CASE h = EndMark
    <3>1. xpc' = "get"
      BY <1>4, <2>1, <2>4 DEF Fetch
    <3> QED BY <1>0, <2>1, <2>2, <2>4, <3>1 DEF Encoding
  <2>5. CASE h # EndMark
    <3>1. xpc' = "encode" /\ item' = h
      BY <1>4, <2>1, <2>5 DEF Fetch
    <3>2. h.frame = next /\ next < rnum
      BY <2>2, <2>5
    <3>3. Len(encoded) = next
      BY <1>0, <2>1, <3>2 DEF Encoding
    <3> HIDE DEF h
    <3> QED BY <1>0, <2>1, <2>3, <3>1, <3>2, <3>3 DEF Encoding
  <2> QED BY <2>4, <2>5
<1>5. CASE Encode /\ xpc' \notin {"drain", "done"}
  <2>1. /\ xpc = "encode" /\ xpc' = "clear" /\ encoded' = Append(encoded, item)
        /\ UNCHANGED <<rnum, rsent, rpc, next>>
    BY <1>5 DEF Encode, readerVars
  <2>2. Len(encoded') = Len(encoded) + 1 /\ Len(encoded) \in Nat
    BY <1>0, <2>1
  <2> QED BY <1>0, <2>1, <2>2 DEF Encoding
<1>6. CASE Clear \/ Check \/ Unpark
  <2>1. UNCHANGED <<rnum, rsent, rpc, next, encoded, item>> /\ xpc # "encode" /\ xpc' # "encode"
    BY <1>6 DEF Clear, Check, Unpark, readerVars
  <2> QED BY <1>1, <2>1
<1>7. ~ReleaseQueued
  BY DEF ReleaseQueued
<1>8. CASE Join \/ Close \/ CallBegins \/ CallEnds \/ UNCHANGED vars
  BY <1>1, <1>8 DEF Join, Close, CallBegins, CallEnds, vars, readerVars, writerVars
<1> QED BY <1>2, <1>3, <1>4, <1>5, <1>6, <1>7, <1>8 DEF Next, Writer

\* The encoder gets the frame after the last one it got.
LEMMA VideoStep ==
    ASSUME TypeInv, LinesInv, [Next]_vars, processing, processing'
    PROVE  InOrder'
<1>0. /\ encoded \in Seq(Output \cup {EndMark}) /\ next \in Nat /\ rnum \in Nat
      /\ \A i \in DOMAIN encoded : encoded[i].frame = i - 1 /\ encoded[i].kind # "refused"
  BY DEF TypeInv, TypeOK, WriterType, ReaderType, LinesInv, InOrder
<1>1. ASSUME encoded' = encoded PROVE InOrder'
  BY <1>0, <1>1 DEF InOrder
<1>2. CASE Encode
  <2>1. xpc = "encode" /\ (encoded' = encoded \/ encoded' = Append(encoded, item))
    BY <1>2 DEF Encode
  <2>2. item.frame = next - 1 /\ item.kind # "refused" /\ Len(encoded) = next - 1
    BY <2>1 DEF LinesInv, Lines, Encoding
  <2>3. CASE encoded' = Append(encoded, item)
    <3>1. /\ DOMAIN encoded = 1 .. Len(encoded) /\ DOMAIN encoded' = 1 .. Len(encoded) + 1
          /\ \A i \in 1 .. Len(encoded) : encoded'[i] = encoded[i]
          /\ encoded'[Len(encoded) + 1] = item /\ Len(encoded) \in Nat
      BY <1>0, <2>3
    <3>2. \A i \in DOMAIN encoded' : i \in 1 .. Len(encoded) \/ i = Len(encoded) + 1
      BY <3>1
    <3> QED BY <1>0, <2>2, <3>1, <3>2 DEF InOrder
  <2> QED BY <1>1, <2>1, <2>3
<1>3. CASE Reader
  BY <1>1, <1>3 DEF Reader, ReaderPoll, ReaderRearm, ReaderHold, ReaderPut, PostSentinel, writerVars
<1>4. ASSUME NEW w \in Workers, Worker(w) PROVE InOrder'
  BY <1>1, <1>4 DEF Worker, Take, TakeNext, Admit, Begin, Work, End, Leave, Drain, Wait, Fallback,
                    Put, Retire, writerVars
<1>5. CASE Fetch \/ Clear \/ Check \/ Unpark \/ ReleaseQueued
  BY <1>1, <1>5 DEF Fetch, Clear, Check, Unpark, ReleaseQueued
<1>6. CASE Join \/ Close \/ CallBegins \/ CallEnds \/ UNCHANGED vars
  BY <1>1, <1>6 DEF Join, Close, CallBegins, CallEnds, vars, writerVars
<1> QED BY <1>2, <1>3, <1>4, <1>5, <1>6 DEF Next, Writer

\* At the start the lines are empty and nothing is read.
LEMMA InitLines == Init => LinesInv
<1> SUFFICES ASSUME Init PROVE LinesInv
  OBVIOUS
<1>0. /\ \A w \in Workers : frameQ[w] = <<>> /\ outQ[w] = <<>> /\ wpc[w] = "get" /\ out[w] = "none"
      /\ next = 0 /\ rnum = 0 /\ rsent = 0 /\ encoded = <<>> /\ xpc = "get"
  BY DEF Init
<1>1. \A w \in Workers : /\ \A i : i \notin 1 .. Len(outQ[w]) /\ i \notin 1 .. Len(frameQ[w])
                         /\ ~Busy(w) /\ wpc[w] \notin {"retire", "done"}
  BY <1>0 DEF Busy
<1>2. \A w \in Workers : Rising(w) /\ Closing(w)
  BY <1>1 DEF Rising, Closing
<1>3. \A w \in Workers, f \in Nat : ~Has(w, f)
  BY <1>1 DEF Has
<1>4. Bounded /\ Complete
  BY <1>0, <1>3 DEF Bounded, Complete
<1>5. Encoding /\ NoRefused /\ InOrder
  BY <1>0, <1>1 DEF Encoding, NoRefused, InOrder
<1> QED BY <1>2, <1>4, <1>5 DEF LinesInv, Lines, QueueLines

\* Until somebody stops the run, the encoder gets every frame once and in order, however
\* the workers, the failures and the pauses interleave (process_videoframes, write_frames_thread).
THEOREM VideoIsTheClip == Spec => []InOrder
<1>1. TypeInv /\ LinesInv /\ [Next]_vars => LinesInv'
  <2> SUFFICES ASSUME TypeInv, LinesInv, [Next]_vars, processing'
               PROVE  InOrder' /\ (xpc' \notin {"drain", "done"} => Lines')
    BY DEF LinesInv
  <2>1. processing /\ LineTypes
    BY NoReturn, TypesOfLines
  <2>2. InOrder'
    BY <2>1, VideoStep
  <2>3. ASSUME xpc' \notin {"drain", "done"} PROVE Lines'
    <3>1. xpc \notin {"drain", "done"} /\ Lines
      BY <2>1, <2>3, NoReturn DEF LinesInv
    <3>2. QueueLines'
      BY <2>1, <2>3, <3>1, QueueLinesStep
    <3>3. NoRefused'
      BY <2>1, <3>1, NoRefusedStep DEF Lines
    <3>4. Encoding'
      BY <2>1, <2>3, <3>1, EncodingStep
    <3> QED BY <3>2, <3>3, <3>4 DEF Lines
  <2> QED BY <2>2, <2>3
<1>2. LinesInv => InOrder
  BY DEF LinesInv, InOrder
<1> QED BY <1>1, <1>2, InitLines, TypeInvariant, PTL DEF Spec

(***************************************************************************)
(* A pause is honest.  The controller counts the workers inside a model    *)
(* run and the outputs that are not yet with the encoder; an acknowledged  *)
(* pause saw both at zero, and until it is lifted nothing new comes up but *)
(* the originals of frames that had failed before.                         *)
(***************************************************************************)

Running == {w \in Workers : wpc[w] \in {"work", "end"}}
Holders == {w \in Workers : HoldsOutput(w)}

\* What the counters count, and what a worker carries out of a model run.
HonestInv ==
    /\ pause.active = Cardinality(Running)
    /\ pause.acked => pause.requested
    /\ \A w \in Workers : Len(outQ[w]) <= QueueDepth
    /\ \A w \in Workers : wpc[w] \in {"end", "leave"} => out[w] # "original"
    /\ processing => NoRefused

\* What each operation of the controller does to its fields.
LEMMA PauseFields ==
    ASSUME NEW p \in [requested : BOOLEAN, acked : BOOLEAN, active : Nat, pending : Nat]
    PROVE  /\ /\ Asked(p).active = p.active /\ Asked(p).pending = p.pending /\ Asked(p).requested
              /\ Asked(p).acked <=> p.acked \/ (p.active = 0 /\ p.pending = 0)
           /\ /\ Resumed(p).active = p.active /\ Resumed(p).pending = p.pending
              /\ ~Resumed(p).requested /\ ~Resumed(p).acked
           /\ /\ Entered(p).active = p.active + 1 /\ Entered(p).pending = p.pending
              /\ Entered(p).requested = p.requested /\ Entered(p).acked = p.acked
           /\ /\ p.active > 0 => Left(p).active = p.active - 1
              /\ Left(p).pending = p.pending /\ Left(p).requested = p.requested
              /\ Left(p).acked <=> p.acked \/ (p.requested /\ Left(p).active = 0 /\ p.pending = 0)
           /\ /\ Reserved(p).active = p.active /\ Reserved(p).pending = p.pending + 1
              /\ Reserved(p).requested = p.requested /\ Reserved(p).acked = p.acked
           /\ /\ Released(p).active = p.active /\ Released(p).requested = p.requested
              /\ p.pending > 0 => Released(p).pending = p.pending - 1
              /\ Released(p).acked <=> p.acked \/ (p.requested /\ p.active = 0 /\ Released(p).pending = 0)
<1> DEFINE P == [requested : BOOLEAN, acked : BOOLEAN, active : Nat, pending : Nat]
<1>0. ASSUME NEW q \in P
      PROVE  /\ Ack(q).active = q.active /\ Ack(q).pending = q.pending /\ Ack(q).requested = q.requested
             /\ Ack(q).acked <=> q.acked \/ (q.requested /\ q.active = 0 /\ q.pending = 0)
  BY DEF Ack
<1>1. PICK q \in P : q = [p EXCEPT !.requested = TRUE]
  <2>1. [p EXCEPT !.requested = TRUE] \in P
    OBVIOUS
  <2> QED BY <2>1
<1>2. PICK r \in P : r = [p EXCEPT !.active = IF @ = 0 THEN 0 ELSE @ - 1]
  <2>1. [p EXCEPT !.active = IF @ = 0 THEN 0 ELSE @ - 1] \in P
    OBVIOUS
  <2> QED BY <2>1
<1>3. PICK s \in P : s = [p EXCEPT !.pending = @ + 1]
  <2>1. [p EXCEPT !.pending = @ + 1] \in P
    OBVIOUS
  <2> QED BY <2>1
<1>4. PICK t \in P : t = [p EXCEPT !.pending = IF @ = 0 THEN 0 ELSE @ - 1]
  <2>1. [p EXCEPT !.pending = IF @ = 0 THEN 0 ELSE @ - 1] \in P
    OBVIOUS
  <2> QED BY <2>1
<1>5. /\ Asked(p).active = p.active /\ Asked(p).pending = p.pending /\ Asked(p).requested
      /\ Asked(p).acked <=> p.acked \/ (p.active = 0 /\ p.pending = 0)
  <2>1. Asked(p) = Ack(q) /\ q.requested /\ q.active = p.active /\ q.pending = p.pending /\ q.acked = p.acked
    BY <1>1 DEF Asked
  <2> QED BY <1>0, <2>1
<1>6. /\ Resumed(p).active = p.active /\ Resumed(p).pending = p.pending
      /\ ~Resumed(p).requested /\ ~Resumed(p).acked
  BY DEF Resumed
<1>7. /\ Entered(p).active = p.active + 1 /\ Entered(p).pending = p.pending
      /\ Entered(p).requested = p.requested /\ Entered(p).acked = p.acked
  BY DEF Entered
<1>8. /\ p.active > 0 => Left(p).active = p.active - 1
      /\ Left(p).pending = p.pending /\ Left(p).requested = p.requested
      /\ Left(p).acked <=> p.acked \/ (p.requested /\ Left(p).active = 0 /\ p.pending = 0)
  <2>1. /\ Left(p) = Ack(r) /\ r.requested = p.requested /\ r.pending = p.pending /\ r.acked = p.acked
        /\ p.active > 0 => r.active = p.active - 1
    BY <1>2 DEF Left
  <2> QED BY <1>0, <2>1
<1>9. /\ Reserved(p).active = p.active /\ Reserved(p).pending = p.pending + 1
      /\ Reserved(p).requested = p.requested /\ Reserved(p).acked = p.acked
  <2>1. /\ Reserved(p) = Ack(s) /\ s.requested = p.requested /\ s.pending = p.pending + 1
        /\ s.acked = p.acked /\ s.active = p.active /\ s.pending # 0
    BY <1>3 DEF Reserved
  <2>2. p.acked \in BOOLEAN /\ Ack(s).acked \in BOOLEAN
    BY <1>3 DEF Ack
  <2> QED BY <1>0, <2>1, <2>2
<1>10. /\ Released(p).active = p.active /\ Released(p).requested = p.requested
       /\ p.pending > 0 => Released(p).pending = p.pending - 1
       /\ Released(p).acked <=> p.acked \/ (p.requested /\ p.active = 0 /\ Released(p).pending = 0)
  <2>1. /\ Released(p) = Ack(t) /\ t.requested = p.requested /\ t.active = p.active /\ t.acked = p.acked
        /\ p.pending > 0 => t.pending = p.pending - 1
    BY <1>4 DEF Released
  <2> QED BY <1>0, <2>1
<1> QED BY <1>5, <1>6, <1>7, <1>8, <1>9, <1>10

\* The places of the queues are finitely many.
LEMMA QueuedFinite == IsFiniteSet(Queued) /\ Cardinality(Queued) \in Nat
<1>1. IsFiniteSet(Workers) /\ IsFiniteSet(1 .. QueueDepth)
  BY ConstantsAssumption, FS_Interval DEF ConstantsAssumption, Workers
<1>2. IsFiniteSet(Workers \X (1 .. QueueDepth))
  BY <1>1, FS_Product
<1>3. Queued \in SUBSET (Workers \X (1 .. QueueDepth))
  BY DEF Queued
<1> QED BY <1>2, <1>3, FS_Subset, FS_CardinalityType

\* A queue that gets one more output has one more place, and an end mark takes none.
LEMMA QueuedAppend ==
    ASSUME LineTypes, NEW w \in Workers, NEW o \in Output \cup {EndMark}, Room(outQ[w]),
           outQ' = [outQ EXCEPT ![w] = Append(@, o)]
    PROVE  Cardinality(Queued') = Cardinality(Queued) + (IF o = EndMark THEN 0 ELSE 1)
<1>1. PICK n \in Nat : n = Len(outQ[w]) /\ n < QueueDepth
  BY DEF LineTypes, Room
<1>2. /\ outQ[w] \in Seq(Output \cup {EndMark}) /\ outQ'[w] = Append(outQ[w], o)
      /\ \A v \in Workers \ {w} : outQ'[v] = outQ[v]
  BY DEF LineTypes
<1>3. /\ Len(outQ'[w]) = n + 1 /\ outQ'[w][n + 1] = o
      /\ \A i \in 1 .. n : outQ'[w][i] = outQ[w][i]
  BY <1>1, <1>2
<1>4. <<w, n + 1>> \notin Queued /\ n + 1 \in 1 .. QueueDepth
  <2>1. QueueDepth \in Nat
    BY ConstantsAssumption DEF ConstantsAssumption
  <2> QED BY <1>1, <2>1 DEF Queued
<1>5. \A v \in Workers, i \in 1 .. QueueDepth :
         <<v, i>> \in Queued' <=> <<v, i>> \in Queued \/ (o # EndMark /\ v = w /\ i = n + 1)
  <2> SUFFICES ASSUME NEW v \in Workers, NEW i \in 1 .. QueueDepth
               PROVE  <<v, i>> \in Queued' <=> <<v, i>> \in Queued \/ (o # EndMark /\ v = w /\ i = n + 1)
    OBVIOUS
  <2>0. /\ <<v, i>> \in Queued' <=> i <= Len(outQ'[v]) /\ outQ'[v][i] # EndMark
        /\ <<v, i>> \in Queued <=> i <= Len(outQ[v]) /\ outQ[v][i] # EndMark
    BY DEF Queued
  <2>1. CASE v # w
    BY <1>2, <2>0, <2>1
  <2>2. CASE v = w /\ i <= n
    BY <1>1, <1>3, <2>0, <2>2
  <2>3. CASE v = w /\ i = n + 1
    BY <1>1, <1>3, <1>4, <2>0, <2>3
  <2>4. CASE v = w /\ i > n + 1
    BY <1>1, <1>3, <2>0, <2>4
  <2> QED BY <1>1, <2>1, <2>2, <2>3, <2>4
<1>6. Queued \subseteq Workers \X (1 .. QueueDepth) /\ Queued' \subseteq Workers \X (1 .. QueueDepth)
  BY DEF Queued
<1>7. Queued' = IF o = EndMark THEN Queued ELSE Queued \cup {<<w, n + 1>>}
  <2>1. ASSUME NEW p \in Workers \X (1 .. QueueDepth)
        PROVE  p \in Queued' <=> p \in Queued \/ (o # EndMark /\ p = <<w, n + 1>>)
    <3>1. PICK v \in Workers, i \in 1 .. QueueDepth : p = <<v, i>>
      OBVIOUS
    <3> QED BY <1>5, <3>1
  <2>2. <<w, n + 1>> \in Workers \X (1 .. QueueDepth)
    BY <1>4
  <2> QED BY <1>6, <2>1, <2>2
<1>8. Cardinality(Queued \cup {<<w, n + 1>>}) = Cardinality(Queued) + 1
  BY <1>4, QueuedFinite, FS_AddElement
<1> QED BY <1>7, <1>8, QueuedFinite

\* A queue that loses its head has one place less, if the head was an output.
LEMMA QueuedTail ==
    ASSUME LineTypes, NEW w \in Workers, outQ[w] # <<>>, Len(outQ[w]) <= QueueDepth,
           outQ' = [outQ EXCEPT ![w] = Tail(@)]
    PROVE  Cardinality(Queued') = Cardinality(Queued) - (IF Head(outQ[w]) = EndMark THEN 0 ELSE 1)
<1>0. QueueDepth \in Nat
  BY ConstantsAssumption DEF ConstantsAssumption
<1>1. PICK n \in Nat : n = Len(outQ[w]) /\ n >= 1 /\ n <= QueueDepth
  <2>1. outQ[w] \in Seq(Output \cup {EndMark})
    BY DEF LineTypes
  <2> QED BY <2>1, FirstAndRest
<1>2. /\ outQ[w] \in Seq(Output \cup {EndMark}) /\ outQ'[w] = Tail(outQ[w])
      /\ \A v \in Workers \ {w} : outQ'[v] = outQ[v]
  BY DEF LineTypes
<1>3. /\ Head(outQ[w]) = outQ[w][1] /\ Len(outQ'[w]) = n - 1
      /\ \A i \in 1 .. n - 1 : outQ'[w][i] = outQ[w][i + 1]
  <2>1. /\ Head(outQ[w]) = outQ[w][1] /\ Len(Tail(outQ[w])) = Len(outQ[w]) - 1
        /\ \A i \in 1 .. Len(outQ[w]) - 1 : Tail(outQ[w])[i] = outQ[w][i + 1]
    BY <1>2, FirstAndRest
  <2> QED BY <1>1, <1>2, <2>1
<1> DEFINE S == Queued \ {<<w, 1>>}
           g == [p \in S |-> IF p[1] = w THEN <<w, p[2] - 1>> ELSE p]
<1>4. \A v \in Workers, i \in 1 .. QueueDepth :
         /\ <<v, i>> \in Queued <=> i <= Len(outQ[v]) /\ outQ[v][i] # EndMark
         /\ <<v, i>> \in Queued' <=> i <= Len(outQ'[v]) /\ outQ'[v][i] # EndMark
  BY DEF Queued
<1>5. Queued \subseteq Workers \X (1 .. QueueDepth) /\ Queued' \subseteq Workers \X (1 .. QueueDepth)
  BY DEF Queued
<1>6. ASSUME NEW i \in 1 .. QueueDepth, <<w, i>> \in S
      PROVE  i - 1 \in 1 .. QueueDepth /\ <<w, i - 1>> \in Queued'
  <2>1. i # 1 /\ i <= n /\ outQ[w][i] # EndMark
    BY <1>1, <1>4, <1>6
  <2>2. i - 1 \in 1 .. n - 1 /\ (i - 1) + 1 = i /\ i - 1 \in 1 .. QueueDepth
    BY <1>0, <1>1, <2>1
  <2>3. outQ'[w][i - 1] = outQ[w][i]
    BY <1>3, <2>2
  <2> QED BY <1>1, <1>3, <1>4, <2>1, <2>2, <2>3
<1>7. ASSUME NEW i \in 1 .. QueueDepth, <<w, i>> \in Queued'
      PROVE  i + 1 \in 1 .. QueueDepth /\ <<w, i + 1>> \in S
  <2>1. i <= n - 1 /\ outQ'[w][i] # EndMark
    BY <1>3, <1>4, <1>7
  <2>2. outQ'[w][i] = outQ[w][i + 1] /\ i + 1 \in 1 .. QueueDepth /\ i + 1 <= n /\ i + 1 # 1
    BY <1>0, <1>1, <1>3, <2>1
  <2> QED BY <1>1, <1>4, <2>1, <2>2
<1>8. \A v \in Workers \ {w}, i \in 1 .. QueueDepth : <<v, i>> \in S <=> <<v, i>> \in Queued'
  BY <1>2, <1>4
<1>9. \A p \in S : \/ \E i \in 1 .. QueueDepth : p = <<w, i>> /\ g[p] = <<w, i - 1>> /\ i - 1 \in 1 .. QueueDepth
                   \/ \E v \in Workers \ {w}, i \in 1 .. QueueDepth : p = <<v, i>> /\ g[p] = <<v, i>>
  <2> SUFFICES ASSUME NEW p \in S
               PROVE  \/ \E i \in 1 .. QueueDepth : p = <<w, i>> /\ g[p] = <<w, i - 1>> /\ i - 1 \in 1 .. QueueDepth
                      \/ \E v \in Workers \ {w}, i \in 1 .. QueueDepth : p = <<v, i>> /\ g[p] = <<v, i>>
    OBVIOUS
  <2>1. PICK v \in Workers, i \in 1 .. QueueDepth : p = <<v, i>>
    BY <1>5
  <2> QED BY <1>6, <2>1
<1>10. g \in [S -> Queued']
  <2>1. \A p \in S : g[p] \in Queued'
    BY <1>6, <1>8, <1>9
  <2> QED BY <2>1
<1>11. \A p, q \in S : g[p] = g[q] => p = q
  <2> HIDE DEF g, S
  <2> QED BY <1>0, <1>9
<1>12. \A q \in Queued' : \E p \in S : g[p] = q
  <2> SUFFICES ASSUME NEW q \in Queued' PROVE \E p \in S : g[p] = q
    OBVIOUS
  <2>1. PICK v \in Workers, i \in 1 .. QueueDepth : q = <<v, i>>
    BY <1>5
  <2>2. CASE v = w
    <3>1. <<w, i + 1>> \in S /\ (i + 1) - 1 = i
      BY <1>7, <2>1, <2>2
    <3>2. g[<<w, i + 1>>] = <<w, i>>
      BY <3>1
    <3> QED BY <2>1, <2>2, <3>1, <3>2
  <2>3. CASE v # w
    <3>1. <<v, i>> \in S
      BY <1>8, <2>1, <2>3
    <3>2. g[<<v, i>>] = <<v, i>>
      BY <2>3, <3>1
    <3> QED BY <2>1, <3>1, <3>2
  <2> QED BY <2>2, <2>3
<1> HIDE DEF g
<1>13. Cardinality(Queued') = Cardinality(S)
  <2>1. g \in Injection(S, Queued') /\ g \in Surjection(S, Queued')
    BY <1>10, <1>11, <1>12 DEF Injection, IsInjective, Surjection
  <2>2. IsFiniteSet(S)
    BY QueuedFinite, FS_RemoveElement
  <2> HIDE DEF S
  <2> QED BY <2>1, <2>2, FS_Surjection
<1>14. <<w, 1>> \in Queued <=> Head(outQ[w]) # EndMark
  BY <1>0, <1>1, <1>3, <1>4
<1>15. Cardinality(S) = IF <<w, 1>> \in Queued THEN Cardinality(Queued) - 1 ELSE Cardinality(Queued)
  BY QueuedFinite, FS_RemoveElement
<1> QED BY <1>13, <1>14, <1>15, QueuedFinite

\* Sets of workers, counted when one of them joins or leaves.
LEMMA CountWorkers ==
    ASSUME NEW S \in SUBSET Workers, NEW w \in Workers
    PROVE  /\ w \in S => Cardinality(S \ {w}) = Cardinality(S) - 1 /\ Cardinality(S) > 0
           /\ w \notin S => Cardinality(S \cup {w}) = Cardinality(S) + 1
           /\ IsFiniteSet(S) /\ Cardinality(S) \in Nat
<1>1. IsFiniteSet(S) /\ Cardinality(S) \in Nat
  BY FiniteWorkers
<1>2. w \notin S => Cardinality(S \cup {w}) = Cardinality(S) + 1
  BY <1>1, FS_AddElement
<1>3. ASSUME w \in S PROVE Cardinality(S \ {w}) = Cardinality(S) - 1 /\ Cardinality(S) > 0
  <2>1. Cardinality(S \ {w}) = Cardinality(S) - 1 /\ IsFiniteSet(S \ {w})
    BY <1>1, <1>3, FS_RemoveElement
  <2>2. Cardinality(S \ {w}) \in Nat
    BY <2>1, FS_CardinalityType
  <2> QED BY <1>1, <2>1, <2>2
<1> QED BY <1>1, <1>2, <1>3

\* Who is active is counted, in every step.
LEMMA ActiveStep ==
    ASSUME TypeInv, pause.active = Cardinality(Running), [Next]_vars
    PROVE  pause'.active = Cardinality(Running')
<1>t. /\ pause \in [requested : BOOLEAN, acked : BOOLEAN, active : Nat, pending : Nat]
      /\ wpc \in [Workers -> WorkerStates] /\ Running \subseteq Workers
  BY DEF TypeInv, TypeOK, PauseType, WorkerType, Running
<1>1. ASSUME pause' \in {pause, Asked(pause), Resumed(pause), Reserved(pause), Released(pause)},
             \A w \in Workers : wpc'[w] \in {"work", "end"} <=> wpc[w] \in {"work", "end"}
      PROVE  pause'.active = Cardinality(Running')
  <2>1. Running' = Running
    BY <1>1 DEF Running
  <2>2. pause'.active = pause.active
    BY <1>1, <1>t, PauseFields
  <2> QED BY <2>1, <2>2
<1>2. CASE Reader
  BY <1>1, <1>2 DEF Reader, ReaderPoll, ReaderRearm, ReaderHold, ReaderPut, PostSentinel, gateVars, workerVars
<1>3. ASSUME NEW w \in Workers, Worker(w) PROVE pause'.active = Cardinality(Running')
  <2>0. ASSUME NEW s, wpc' = [wpc EXCEPT ![w] = s], s \in {"work", "end"} <=> wpc[w] \in {"work", "end"},
               pause' \in {pause, Reserved(pause), Released(pause)}
        PROVE  pause'.active = Cardinality(Running')
    <3>1. \A v \in Workers : wpc'[v] \in {"work", "end"} <=> wpc[v] \in {"work", "end"}
      BY <1>t, <2>0
    <3> QED BY <1>1, <2>0, <3>1
  <2>1. CASE Take(w) \/ Admit(w) \/ Drain(w) \/ Wait(w) \/ Retire(w)
    BY <2>0, <2>1 DEF Take, TakeNext, Admit, Drain, Wait, Retire, gateVars
  <2>2. CASE Leave(w)
    <3>1. /\ pause' = pause /\ wpc[w] = "leave"
          /\ \E s \in {"drain", "fallback", "put"} : wpc' = [wpc EXCEPT ![w] = s]
      BY <2>2 DEF Leave
    <3> QED BY <2>0, <3>1
  <2>3. CASE Work(w)
    BY <2>0, <2>3 DEF Work
  <2>4. CASE Fallback(w) \/ Put(w)
    BY <2>0, <2>4 DEF Fallback, Put
  <2>5. CASE Begin(w)
    <3>1. CASE ~processing
      BY <2>0, <2>5, <3>1 DEF Begin
    <3>2. CASE processing
      <4>1. wpc[w] = "begin" /\ wpc' = [wpc EXCEPT ![w] = "work"] /\ pause' = Entered(pause)
        BY <2>5, <3>2 DEF Begin
      <4>2. w \notin Running /\ Running' = Running \cup {w}
        BY <1>t, <4>1 DEF Running
      <4>3. pause'.active = pause.active + 1
        BY <1>t, <4>1, PauseFields
      <4> QED BY <1>t, <4>2, <4>3, CountWorkers
    <3> QED BY <3>1, <3>2
  <2>6. CASE End(w)
    <3>1. wpc[w] = "end" /\ wpc' = [wpc EXCEPT ![w] = "leave"] /\ pause' = Left(pause)
      BY <2>6 DEF End
    <3>2. w \in Running /\ Running' = Running \ {w}
      BY <1>t, <3>1 DEF Running
    <3>3. Cardinality(Running') = Cardinality(Running) - 1 /\ Cardinality(Running) > 0
      BY <1>t, <3>2, CountWorkers
    <3>4. pause'.active = pause.active - 1
      BY <1>t, <3>1, <3>3, PauseFields
    <3> QED BY <3>3, <3>4
  <2> QED BY <1>3, <2>1, <2>2, <2>3, <2>4, <2>5, <2>6 DEF Worker
<1>4. CASE Writer
  BY <1>1, <1>4 DEF Writer, Fetch, Encode, Clear, Check, Unpark, ReleaseQueued, gateVars, workerVars
<1>5. CASE Join \/ Close \/ CallBegins \/ CallEnds \/ UNCHANGED vars
  BY <1>1, <1>5 DEF Join, Close, CallBegins, CallEnds, vars, gateVars, workerVars
<1> QED BY <1>2, <1>3, <1>4, <1>5 DEF Next

\* An acknowledgement belongs to a request.
LEMMA AskedStep ==
    ASSUME TypeInv, pause.acked => pause.requested, [Next]_vars
    PROVE  pause'.acked => pause'.requested
<1>t. pause \in [requested : BOOLEAN, acked : BOOLEAN, active : Nat, pending : Nat]
  BY DEF TypeInv, TypeOK, PauseType
<1>1. ASSUME pause' \in {pause, Asked(pause), Resumed(pause), Entered(pause), Left(pause),
                         Reserved(pause), Released(pause)}
      PROVE  pause'.acked => pause'.requested
  <2>1. CASE pause' \in {pause, Asked(pause), Resumed(pause)}
    BY <1>t, <2>1, PauseFields
  <2>2. CASE pause' \in {Entered(pause), Reserved(pause)}
    BY <1>t, <2>2, PauseFields
  <2>3. CASE pause' \in {Left(pause), Released(pause)}
    BY <1>t, <2>3, PauseFields
  <2> QED BY <1>1, <2>1, <2>2, <2>3
<1>2. CASE Reader
  BY <1>1, <1>2 DEF Reader, ReaderPoll, ReaderRearm, ReaderHold, ReaderPut, PostSentinel, gateVars
<1>3. ASSUME NEW w \in Workers, Worker(w) PROVE pause'.acked => pause'.requested
  BY <1>1, <1>3 DEF Worker, Take, TakeNext, Admit, Begin, Work, End, Leave, Drain, Wait,
                    Fallback, Put, Retire, gateVars
<1>4. CASE Writer
  BY <1>1, <1>4 DEF Writer, Fetch, Encode, Clear, Check, Unpark, ReleaseQueued, gateVars
<1>5. CASE Join \/ Close \/ CallBegins \/ CallEnds \/ UNCHANGED vars
  BY <1>1, <1>5 DEF Join, Close, CallBegins, CallEnds, vars, gateVars
<1> QED BY <1>2, <1>3, <1>4, <1>5 DEF Next

\* The queues keep within their depth, and a model run never ends with the original.
LEMMA CarriesStep ==
    ASSUME TypeInv, HonestInv, [Next]_vars
    PROVE  /\ \A w \in Workers : Len(outQ'[w]) <= QueueDepth
           /\ \A w \in Workers : wpc'[w] \in {"end", "leave"} => out'[w] # "original"
<1>t. /\ outQ \in [Workers -> Seq(Output \cup {EndMark})] /\ wpc \in [Workers -> WorkerStates]
      /\ out \in [Workers -> Kinds \cup {"oom", "error", "none"}]
      /\ \A w \in Workers : Len(outQ[w]) <= QueueDepth
      /\ \A w \in Workers : wpc[w] \in {"end", "leave"} => out[w] # "original"
      /\ QueueDepth \in Nat
  BY ConstantsAssumption DEF TypeInv, TypeOK, QueueType, WorkerType, HonestInv, ConstantsAssumption
<1> DEFINE Goal == /\ \A w \in Workers : Len(outQ'[w]) <= QueueDepth
                   /\ \A w \in Workers : wpc'[w] \in {"end", "leave"} => out'[w] # "original"
<1>1. ASSUME UNCHANGED <<outQ, wpc, out>> PROVE Goal
  BY <1>1, <1>t
<1>2. ASSUME NEW w \in Workers, NEW s, UNCHANGED <<outQ, out>>, wpc' = [wpc EXCEPT ![w] = s],
             s \in {"end", "leave"} => wpc[w] \in {"end", "leave"}
      PROVE  Goal
  BY <1>2, <1>t
<1>3. ASSUME NEW w \in Workers, NEW s, NEW k, UNCHANGED outQ, wpc' = [wpc EXCEPT ![w] = s],
             out' = [out EXCEPT ![w] = k], s \in {"end", "leave"} => k # "original"
      PROVE  Goal
  BY <1>3, <1>t
<1>4. ASSUME NEW w \in Workers, NEW o \in Output \cup {EndMark}, UNCHANGED out,
             wpc' = [wpc EXCEPT ![w] = "get"] \/ wpc' = [wpc EXCEPT ![w] = "done"],
             Room(outQ[w]), outQ' = [outQ EXCEPT ![w] = Append(@, o)]
      PROVE  Goal
  <2>1. Len(outQ'[w]) = Len(outQ[w]) + 1 /\ \A v \in Workers \ {w} : outQ'[v] = outQ[v]
    BY <1>4, <1>t
  <2>2. \A v \in Workers : Len(outQ'[v]) <= QueueDepth
    BY <1>4, <1>t, <2>1 DEF Room
  <2>3. \A v \in Workers : wpc'[v] \in {"end", "leave"} => out'[v] # "original"
    BY <1>4, <1>t
  <2> QED BY <2>2, <2>3
<1>5. ASSUME NEW w \in Workers, UNCHANGED <<wpc, out>>, outQ[w] # <<>>, outQ' = [outQ EXCEPT ![w] = Tail(@)]
      PROVE  Goal
  <2>1. Len(outQ[w]) \in Nat /\ Len(Tail(outQ[w])) = Len(outQ[w]) - 1
    BY <1>5, <1>t, FirstAndRest
  <2>2. Len(outQ'[w]) <= QueueDepth /\ \A v \in Workers \ {w} : outQ'[v] = outQ[v]
    BY <1>5, <1>t, <2>1
  <2> QED BY <1>5, <1>t, <2>2
<1>6. CASE Reader
  BY <1>1, <1>6 DEF Reader, ReaderPoll, ReaderRearm, ReaderHold, ReaderPut, PostSentinel, workerVars
<1>7. ASSUME NEW w \in Workers, Worker(w) PROVE Goal
  <2>1. CASE Take(w) \/ Admit(w) \/ Drain(w) \/ Wait(w)
    BY <1>2, <2>1 DEF Take, TakeNext, Admit, Drain, Wait
  <2>2. CASE Begin(w)
    <3>1. CASE processing
      BY <1>2, <2>2, <3>1 DEF Begin
    <3>2. CASE ~processing
      BY <1>3, <2>2, <3>2 DEF Begin
    <3> QED BY <3>1, <3>2
  <2>3. CASE Work(w)
    <3>1. /\ outQ' = outQ /\ wpc' = [wpc EXCEPT ![w] = "end"]
          /\ \E k \in {"swapped", "error", "none", "oom"} : out' = [out EXCEPT ![w] = k]
      BY <2>3 DEF Work, Failures
    <3> QED BY <1>3, <3>1
  <2>4. CASE End(w)
    BY <1>2, <2>4 DEF End
  <2>5. CASE Leave(w)
    <3>1. /\ UNCHANGED <<outQ, out>>
          /\ \E s \in {"drain", "fallback", "put"} : wpc' = [wpc EXCEPT ![w] = s]
      BY <2>5 DEF Leave
    <3> QED BY <1>2, <3>1
  <2>6. CASE Fallback(w)
    BY <1>3, <2>6 DEF Fallback
  <2>7. CASE Put(w)
    <3>1. CASE outQ' = outQ
      BY <1>2, <2>7, <3>1 DEF Put
    <3>2. CASE Room(outQ[w]) /\ outQ' = [outQ EXCEPT ![w] = Append(@, [frame |-> job[w], kind |-> out[w]])]
      <4>1. [frame |-> job[w], kind |-> out[w]] \in Output
        BY <2>7 DEF Put, Output, TypeInv, TypeOK, WorkerType, CarryInv
      <4> QED BY <1>4, <2>7, <3>2, <4>1 DEF Put
    <3> QED BY <2>7, <3>1, <3>2 DEF Put
  <2>8. CASE Retire(w)
    <3>1. CASE outQ' = outQ
      BY <1>2, <2>8, <3>1 DEF Retire
    <3>2. CASE Room(outQ[w]) /\ outQ' = [outQ EXCEPT ![w] = Append(@, EndMark)]
      BY <1>4, <2>8, <3>2 DEF Retire
    <3> QED BY <2>8, <3>1, <3>2 DEF Retire
  <2> QED BY <1>7, <2>1, <2>2, <2>3, <2>4, <2>5, <2>6, <2>7, <2>8 DEF Worker
<1>8. CASE Writer
  <2>1. CASE Fetch
    <3>1. Turn \in Workers
      BY TurnType DEF TypeInv, TypeOK, WriterType
    <3> QED BY <1>1, <1>5, <2>1, <3>1 DEF Fetch, workerVars
  <2>2. CASE ReleaseQueued
    <3>1. sweep \in Workers
      BY DEF TypeInv, TypeOK, WriterType
    <3> QED BY <1>1, <1>5, <2>2, <3>1 DEF ReleaseQueued, workerVars
  <2>3. CASE Encode \/ Clear \/ Check \/ Unpark
    BY <1>1, <2>3 DEF Encode, Clear, Check, Unpark, workerVars
  <2> QED BY <1>8, <2>1, <2>2, <2>3 DEF Writer
<1>9. CASE Join \/ Close \/ CallBegins \/ CallEnds \/ UNCHANGED vars
  BY <1>1, <1>9 DEF Join, Close, CallBegins, CallEnds, vars, workerVars
<1> QED BY <1>6, <1>7, <1>8, <1>9 DEF Next

\* The reservation of what the writer has in hand.
InHand == IF xpc \in {"encode", "clear"} THEN 1 ELSE 0

\* Every output is reserved once, from the end of its model run to the encoder.
LEMMA CountStep ==
    ASSUME TypeInv, HonestInv, ReservationsExact, [Next]_vars, processing, processing'
    PROVE  pause'.pending = Cardinality(Holders') + Cardinality(Queued') + InHand'
<1> DEFINE Goal == pause'.pending = Cardinality(Holders') + Cardinality(Queued') + InHand'
<1>t. /\ pause \in [requested : BOOLEAN, acked : BOOLEAN, active : Nat, pending : Nat]
      /\ wpc \in [Workers -> WorkerStates] /\ Holders \subseteq Workers
      /\ out \in [Workers -> Kinds \cup {"oom", "error", "none"}]
      /\ outQ \in [Workers -> Seq(Output \cup {EndMark})] /\ LineTypes
  BY TypesOfLines DEF TypeInv, TypeOK, PauseType, WorkerType, QueueType, Holders
<1>l. LineTypes
  BY TypesOfLines
<1>h. /\ \A w \in Workers : Len(outQ[w]) <= QueueDepth
      /\ \A w \in Workers : wpc[w] \in {"end", "leave"} => out[w] # "original"
      /\ \A w \in Workers : out[w] # "refused"
  BY DEF HonestInv, NoRefused
<1>e. pause.pending = Cardinality(Holders) + Cardinality(Queued) + InHand
  BY DEF ReservationsExact, Holders, InHand
<1>n. Cardinality(Queued) \in Nat /\ Cardinality(Holders) \in Nat /\ InHand \in {0, 1}
  BY <1>t, QueuedFinite, FiniteWorkers DEF InHand
<1>p. ASSUME pause' \in {pause, Asked(pause), Resumed(pause), Entered(pause), Left(pause)}
      PROVE  pause'.pending = pause.pending
  BY <1>p, <1>t, PauseFields
<1>1. ASSUME pause' \in {pause, Asked(pause), Resumed(pause), Entered(pause), Left(pause)},
             UNCHANGED <<outQ, wpc, out>>, InHand' = InHand
      PROVE  Goal
  <2>1. Holders' = Holders /\ Queued' = Queued
    BY <1>1 DEF Holders, HoldsOutput, Queued
  <2> QED BY <1>1, <1>e, <1>p, <2>1
<1>2. ASSUME NEW w \in Workers, NEW s, wpc' = [wpc EXCEPT ![w] = s], UNCHANGED <<outQ, xpc>>,
             \A v \in Workers \ {w} : out'[v] = out[v],
             pause' \in {pause, Entered(pause), Left(pause)}, HoldsOutput(w)' <=> HoldsOutput(w)
      PROVE  Goal
  <2>1. \A v \in Workers \ {w} : HoldsOutput(v)' <=> HoldsOutput(v)
    BY <1>2, <1>t DEF HoldsOutput
  <2>2. Holders' = Holders
    BY <1>2, <2>1 DEF Holders
  <2>3. Queued' = Queued /\ InHand' = InHand
    BY <1>2 DEF Queued, InHand
  <2> QED BY <1>2, <1>e, <1>p, <2>2, <2>3
<1>3. ASSUME NEW w \in Workers, NEW s, wpc' = [wpc EXCEPT ![w] = s], UNCHANGED <<outQ, xpc>>,
             \A v \in Workers \ {w} : out'[v] = out[v],
             pause' = Reserved(pause), HoldsOutput(w)', ~HoldsOutput(w)
      PROVE  Goal
  <2>1. \A v \in Workers \ {w} : HoldsOutput(v)' <=> HoldsOutput(v)
    BY <1>3, <1>t DEF HoldsOutput
  <2>2. Holders' = Holders \cup {w} /\ w \notin Holders
    BY <1>3, <2>1 DEF Holders
  <2>3. Queued' = Queued /\ InHand' = InHand
    BY <1>3 DEF Queued, InHand
  <2>4. Cardinality(Holders') = Cardinality(Holders) + 1
    BY <1>t, <2>2, CountWorkers
  <2>5. pause'.pending = pause.pending + 1
    BY <1>3, <1>t, PauseFields
  <2> QED BY <1>e, <1>n, <2>3, <2>4, <2>5
<1>4. CASE Reader
  BY <1>1, <1>4 DEF Reader, ReaderPoll, ReaderRearm, ReaderHold, ReaderPut, PostSentinel, gateVars,
                    workerVars, writerVars, InHand
<1>5. ASSUME NEW w \in Workers, Worker(w) PROVE Goal
  <2>1. CASE Take(w)
    <3>1. /\ UNCHANGED <<pause, outQ, out, xpc>> /\ wpc[w] = "get"
          /\ \E s \in {"retire", "gate"} : wpc' = [wpc EXCEPT ![w] = s]
      BY <2>1 DEF Take, TakeNext, gateVars, writerVars
    <3>2. ~HoldsOutput(w)' /\ ~HoldsOutput(w)
      BY <1>t, <3>1 DEF HoldsOutput
    <3> QED BY <1>2, <3>1, <3>2
  <2>2. CASE Admit(w) \/ Drain(w) \/ Wait(w)
    <3>1. /\ UNCHANGED <<pause, outQ, out, xpc>> /\ wpc[w] \in {"gate", "drain", "wait"}
          /\ \E s \in {"begin", "wait", "fallback"} : wpc' = [wpc EXCEPT ![w] = s]
      BY <2>2 DEF Admit, Drain, Wait, writerVars
    <3>2. ~HoldsOutput(w)' /\ ~HoldsOutput(w)
      BY <1>t, <3>1 DEF HoldsOutput
    <3> QED BY <1>2, <3>1, <3>2
  <2>3. CASE Begin(w)
    <3>1. /\ UNCHANGED <<outQ, out, xpc>> /\ wpc[w] = "begin" /\ pause' = Entered(pause)
          /\ wpc' = [wpc EXCEPT ![w] = "work"]
      BY <2>3 DEF Begin, writerVars
    <3>2. ~HoldsOutput(w)' /\ ~HoldsOutput(w)
      BY <1>t, <3>1 DEF HoldsOutput
    <3> QED BY <1>2, <3>1, <3>2
  <2>4. CASE Work(w)
    <3>1. /\ UNCHANGED <<outQ, xpc>> /\ wpc[w] = "work" /\ wpc' = [wpc EXCEPT ![w] = "end"]
          /\ \/ out' = [out EXCEPT ![w] = "swapped"] /\ pause' = Reserved(pause)
             \/ (\E k \in {"error", "none", "oom"} : out' = [out EXCEPT ![w] = k]) /\ pause' = pause
      BY <2>4 DEF Work, Failures, writerVars
    <3>2. ~HoldsOutput(w) /\ wpc'[w] = "end" /\ \A v \in Workers \ {w} : out'[v] = out[v]
      BY <1>t, <3>1 DEF HoldsOutput
    <3>3. CASE out' = [out EXCEPT ![w] = "swapped"] /\ pause' = Reserved(pause)
      <4>1. HoldsOutput(w)'
        BY <1>t, <3>2, <3>3 DEF HoldsOutput
      <4> QED BY <1>3, <3>1, <3>2, <3>3, <4>1
    <3>4. CASE (\E k \in {"error", "none", "oom"} : out' = [out EXCEPT ![w] = k]) /\ pause' = pause
      <4>1. ~HoldsOutput(w)'
        BY <1>t, <3>2, <3>4 DEF HoldsOutput
      <4> QED BY <1>2, <3>1, <3>2, <3>4, <4>1
    <3> QED BY <3>1, <3>3, <3>4
  <2>5. CASE End(w)
    <3>1. /\ UNCHANGED <<outQ, out, xpc>> /\ wpc[w] = "end" /\ pause' = Left(pause)
          /\ wpc' = [wpc EXCEPT ![w] = "leave"]
      BY <2>5 DEF End, writerVars
    <3>2. HoldsOutput(w)' <=> HoldsOutput(w)
      BY <1>t, <3>1 DEF HoldsOutput
    <3> QED BY <1>2, <3>1, <3>2
  <2>6. CASE Leave(w)
    <3>1. /\ UNCHANGED <<pause, outQ, out, xpc>> /\ wpc[w] = "leave"
          /\ wpc' = [wpc EXCEPT ![w] = CASE out[w] = "oom" -> "drain"
                                         [] out[w] \in {"error", "none"} -> "fallback"
                                         [] OTHER -> "put"]
      BY <2>6 DEF Leave, writerVars
    <3>2. out[w] \in {"swapped", "oom", "error", "none"}
      BY <1>h, <1>t, <3>1 DEF Kinds
    <3>3. HoldsOutput(w)' <=> HoldsOutput(w)
      <4>1. wpc'[w] = "put" <=> out[w] = "swapped"
        BY <1>t, <3>1, <3>2
      <4>2. wpc'[w] \notin {"end", "leave"}
        BY <1>t, <3>1, <3>2
      <4> QED BY <3>1, <4>1, <4>2 DEF HoldsOutput
    <3>4. \E s : wpc' = [wpc EXCEPT ![w] = s]
      BY <3>1
    <3> QED BY <1>2, <3>1, <3>3, <3>4
  <2>7. CASE Fallback(w)
    <3>1. /\ UNCHANGED <<outQ, xpc>> /\ wpc[w] = "fallback" /\ wpc' = [wpc EXCEPT ![w] = "put"]
          /\ out' = [out EXCEPT ![w] = "original"] /\ pause' = Reserved(pause)
      BY <2>7 DEF Fallback, writerVars
    <3>2. HoldsOutput(w)' /\ ~HoldsOutput(w)
      BY <1>t, <3>1 DEF HoldsOutput
    <3> QED BY <1>3, <1>t, <3>1, <3>2
  <2>8. CASE Put(w)
    <3> DEFINE o == [frame |-> job[w], kind |-> out[w]]
    <3>1. /\ UNCHANGED <<pause, xpc, out>> /\ wpc[w] = "put" /\ wpc' = [wpc EXCEPT ![w] = "get"]
          /\ Room(outQ[w]) /\ outQ' = [outQ EXCEPT ![w] = Append(@, o)]
      BY <2>8 DEF Put, writerVars
    <3>2. o \in Output /\ o # EndMark
      <4>1. job[w] \in Frames /\ out[w] \in Kinds
        BY <2>8 DEF Put, TypeInv, TypeOK, WorkerType, CarryInv
      <4>2. o.kind # EndMark.kind
        BY <4>1 DEF Kinds, EndMark
      <4> QED BY <4>1, <4>2 DEF Output
    <3> HIDE DEF o
    <3>3. Cardinality(Queued') = Cardinality(Queued) + 1
      <4>1. o \in Output \cup {EndMark} /\ Room(outQ[w]) /\ outQ' = [outQ EXCEPT ![w] = Append(@, o)]
        BY <3>1, <3>2
      <4>2. Cardinality(Queued') = Cardinality(Queued) + (IF o = EndMark THEN 0 ELSE 1)
        BY <1>l, <4>1, QueuedAppend
      <4> QED BY <3>2, <4>2
    <3>4. \A v \in Workers : HoldsOutput(v)' <=> HoldsOutput(v) /\ v # w
      BY <1>t, <3>1 DEF HoldsOutput
    <3>5. w \in Holders /\ Holders' = Holders \ {w}
      BY <3>1, <3>4 DEF Holders, HoldsOutput
    <3>6. Cardinality(Holders') = Cardinality(Holders) - 1
      BY <1>t, <3>5, CountWorkers
    <3>7. InHand' = InHand
      BY <3>1 DEF InHand
    <3> QED BY <1>e, <1>n, <3>1, <3>3, <3>6, <3>7
  <2>9. CASE Retire(w)
    <3>1. /\ UNCHANGED <<pause, xpc, out>> /\ wpc[w] = "retire" /\ wpc' = [wpc EXCEPT ![w] = "done"]
          /\ outQ' = outQ \/ (Room(outQ[w]) /\ outQ' = [outQ EXCEPT ![w] = Append(@, EndMark)])
      BY <2>9 DEF Retire, gateVars, writerVars
    <3>2. Cardinality(Queued') = Cardinality(Queued)
      <4>1. CASE outQ' = outQ
        BY <4>1 DEF Queued
      <4>2. CASE Room(outQ[w]) /\ outQ' = [outQ EXCEPT ![w] = Append(@, EndMark)]
        <5>1. EndMark \in Output \cup {EndMark}
          OBVIOUS
        <5>2. Cardinality(Queued') = Cardinality(Queued) + (IF EndMark = EndMark THEN 0 ELSE 1)
          BY <1>l, <4>2, <5>1, QueuedAppend
        <5> QED BY <1>n, <5>2
      <4> QED BY <3>1, <4>1, <4>2
    <3>3. \A v \in Workers : HoldsOutput(v)' <=> HoldsOutput(v)
      BY <1>t, <3>1 DEF HoldsOutput
    <3>4. Holders' = Holders /\ InHand' = InHand
      BY <3>1, <3>3 DEF Holders, InHand
    <3> QED BY <1>e, <3>1, <3>2, <3>4
  <2> QED BY <1>5, <2>1, <2>2, <2>3, <2>4, <2>5, <2>6, <2>7, <2>8, <2>9 DEF Worker
<1>6. ASSUME NEW v \in Workers, UNCHANGED <<wpc, out>>, outQ[v] # <<>>, outQ' = [outQ EXCEPT ![v] = Tail(@)]
      PROVE  /\ Cardinality(Queued') = Cardinality(Queued) - (IF Head(outQ[v]) = EndMark THEN 0 ELSE 1)
             /\ Cardinality(Queued') \in Nat /\ Holders' = Holders
  <2>1. Cardinality(Queued') = Cardinality(Queued) - (IF Head(outQ[v]) = EndMark THEN 0 ELSE 1)
    BY <1>6, <1>h, <1>t, QueuedTail
  <2>2. Holders' = Holders
    BY <1>6 DEF Holders, HoldsOutput
  <2>3. IsFiniteSet(Queued') /\ Cardinality(Queued') \in Nat
    <3>1. IsFiniteSet(Workers) /\ IsFiniteSet(1 .. QueueDepth)
      BY ConstantsAssumption, FS_Interval DEF ConstantsAssumption, Workers
    <3>2. IsFiniteSet(Workers \X (1 .. QueueDepth))
      BY <3>1, FS_Product
    <3>3. Queued' \in SUBSET (Workers \X (1 .. QueueDepth))
      BY DEF Queued
    <3> QED BY <3>2, <3>3, FS_Subset, FS_CardinalityType
  <2> QED BY <2>1, <2>2, <2>3
<1>7. CASE Fetch
  <2>0. Turn \in Workers /\ xpc = "get" /\ InHand = 0
    BY <1>7, TurnType DEF TypeInv, TypeOK, WriterType, Fetch, InHand
  <2>1. PICK v \in Workers : v = Turn
    BY <2>0
  <2>2. /\ UNCHANGED <<pause, wpc, out>> /\ outQ[v] # <<>> /\ outQ' = [outQ EXCEPT ![v] = Tail(@)]
        /\ Head(outQ[v]) = EndMark => xpc' \in {"get", "drain"}
        /\ Head(outQ[v]) # EndMark => xpc' = "encode"
    BY <1>7, <2>1 DEF Fetch, gateVars, workerVars
  <2>3. InHand' = IF Head(outQ[v]) = EndMark THEN 0 ELSE 1
    BY <2>2 DEF InHand
  <2>4. /\ Cardinality(Queued') = Cardinality(Queued) - (IF Head(outQ[v]) = EndMark THEN 0 ELSE 1)
        /\ Cardinality(Queued') \in Nat /\ Holders' = Holders
    BY <1>6, <2>2
  <2>5. pause'.pending = pause.pending /\ Cardinality(Holders') = Cardinality(Holders)
    BY <2>2, <2>4
  <2>6. CASE Head(outQ[v]) = EndMark
    BY <1>e, <1>n, <2>0, <2>3, <2>4, <2>5, <2>6
  <2>7. CASE Head(outQ[v]) # EndMark
    BY <1>e, <1>n, <2>0, <2>3, <2>4, <2>5, <2>7
  <2> QED BY <2>6, <2>7
<1>8. CASE ReleaseQueued
  <2>0. xpc = "drain" /\ xpc' \in {"drain", "done"} /\ InHand = 0 /\ InHand' = 0 /\ UNCHANGED <<wpc, out>>
    BY <1>8 DEF ReleaseQueued, InHand, workerVars
  <2>1. PICK v \in Workers : v = sweep
    BY DEF TypeInv, TypeOK, WriterType
  <2>2. CASE /\ outQ[v] # <<>> /\ outQ' = [outQ EXCEPT ![v] = Tail(@)]
             /\ pause' = IF Head(outQ[v]) = EndMark THEN pause ELSE Released(pause)
    <3>1. /\ Cardinality(Queued') = Cardinality(Queued) - (IF Head(outQ[v]) = EndMark THEN 0 ELSE 1)
          /\ Cardinality(Queued') \in Nat /\ Holders' = Holders
      BY <1>6, <2>0, <2>2
    <3>2. CASE Head(outQ[v]) = EndMark
      BY <1>e, <1>n, <2>0, <2>2, <3>1, <3>2
    <3>3. CASE Head(outQ[v]) # EndMark
      <4>1. pause.pending > 0
        BY <1>e, <1>n, <2>0, <3>1, <3>3
      <4>2. pause'.pending = pause.pending - 1
        BY <1>t, <2>2, <3>3, <4>1, PauseFields
      <4> QED BY <1>e, <1>n, <2>0, <3>1, <3>3, <4>2
    <3> QED BY <3>2, <3>3
  <2>3. CASE UNCHANGED <<outQ, pause>>
    BY <1>1, <2>0, <2>3
  <2> QED BY <1>8, <2>1, <2>2, <2>3 DEF ReleaseQueued
<1>9. CASE Clear
  <2>1. xpc = "clear" /\ xpc' = "check" /\ pause' = Released(pause) /\ UNCHANGED <<outQ, wpc, out>>
    BY <1>9 DEF Clear, workerVars
  <2>2. InHand = 1 /\ InHand' = 0 /\ Holders' = Holders /\ Queued' = Queued
    BY <2>1 DEF InHand, Holders, HoldsOutput, Queued
  <2>3. pause.pending > 0
    BY <1>e, <1>n, <2>2
  <2>4. pause'.pending = pause.pending - 1
    BY <1>t, <2>1, <2>3, PauseFields
  <2> QED BY <1>e, <1>n, <2>2, <2>4
<1>10. CASE Encode
  <2>1. /\ xpc = "encode" /\ xpc' = "clear" /\ pause' = pause /\ UNCHANGED <<outQ, wpc, out>>
    BY <1>10 DEF Encode, workerVars
  <2>2. InHand' = InHand
    BY <2>1 DEF InHand
  <2> QED BY <1>1, <2>1, <2>2
<1>11. CASE Check \/ Unpark
  <2>1. /\ xpc \in {"check", "parked"} /\ xpc' \in {"get", "parked"} /\ UNCHANGED <<pause, outQ, wpc, out>>
    BY <1>11 DEF Check, Unpark, gateVars, workerVars
  <2>2. InHand' = InHand
    BY <2>1 DEF InHand
  <2> QED BY <1>1, <2>1, <2>2
<1>12. CASE Join \/ Close \/ CallBegins \/ CallEnds \/ UNCHANGED vars
  BY <1>1, <1>12 DEF Join, Close, CallBegins, CallEnds, vars, gateVars, workerVars, writerVars, InHand
<1> QED BY <1>4, <1>5, <1>7, <1>8, <1>9, <1>10, <1>11, <1>12 DEF Next, Writer

\* A pause is acknowledged when nobody is active and nothing is reserved.
LEMMA AckedAtZero ==
    ASSUME TypeInv, [Next]_vars, ~pause.acked, pause'.acked
    PROVE  pause'.active = 0 /\ pause'.pending = 0
<1>t. pause \in [requested : BOOLEAN, acked : BOOLEAN, active : Nat, pending : Nat]
  BY DEF TypeInv, TypeOK, PauseType
<1>1. ASSUME pause' \in {pause, Asked(pause), Resumed(pause), Entered(pause), Left(pause),
                         Reserved(pause), Released(pause)}
      PROVE  pause'.active = 0 /\ pause'.pending = 0
  <2>1. CASE pause' \in {pause, Asked(pause), Resumed(pause)}
    BY <1>t, <2>1, PauseFields
  <2>2. CASE pause' \in {Entered(pause), Reserved(pause)}
    BY <1>t, <2>2, PauseFields
  <2>3. CASE pause' \in {Left(pause), Released(pause)}
    BY <1>t, <2>3, PauseFields
  <2> QED BY <1>1, <2>1, <2>2, <2>3
<1>2. CASE Reader
  BY <1>1, <1>2 DEF Reader, ReaderPoll, ReaderRearm, ReaderHold, ReaderPut, PostSentinel, gateVars
<1>3. ASSUME NEW w \in Workers, Worker(w) PROVE pause'.active = 0 /\ pause'.pending = 0
  BY <1>1, <1>3 DEF Worker, Take, TakeNext, Admit, Begin, Work, End, Leave, Drain, Wait,
                    Fallback, Put, Retire, gateVars
<1>4. CASE Writer
  BY <1>1, <1>4 DEF Writer, Fetch, Encode, Clear, Check, Unpark, ReleaseQueued, gateVars
<1>5. CASE Join \/ Close \/ CallBegins \/ CallEnds \/ UNCHANGED vars
  BY <1>1, <1>5 DEF Join, Close, CallBegins, CallEnds, vars, gateVars
<1> QED BY <1>2, <1>3, <1>4, <1>5 DEF Next

\* What the property says of the workers and of the queues.
Drained ==
    /\ \A w \in Workers : wpc[w] # "work" /\ (HoldsOutput(w) => Replacing(w))
    /\ \A w \in Workers : \A i \in 1 .. Len(outQ[w]) : outQ[w][i].kind # "swapped"

AtZero == processing /\ pause.active = 0 /\ pause.pending = 0

\* Counters at zero mean that nobody runs and nothing is held.
LEMMA ZeroIsDrained == TypeInv /\ HonestInv /\ ReservationsExact /\ AtZero => Drained
<1> SUFFICES ASSUME TypeInv, HonestInv, ReservationsExact, processing, pause.active = 0, pause.pending = 0
             PROVE  Drained
  BY DEF AtZero
<1>1. Running = {} /\ Holders = {} /\ Queued = {}
  <2>1. /\ IsFiniteSet(Running) /\ IsFiniteSet(Holders) /\ IsFiniteSet(Queued)
        /\ Cardinality(Holders) \in Nat /\ Cardinality(Queued) \in Nat
    BY FiniteWorkers, QueuedFinite DEF Running, Holders
  <2>2. Cardinality(Running) = 0
    BY DEF HonestInv
  <2>3. InHand \in {0, 1} /\ 0 = Cardinality(Holders) + Cardinality(Queued) + InHand
    BY DEF ReservationsExact, Holders, InHand
  <2>4. Cardinality(Holders) = 0 /\ Cardinality(Queued) = 0
    BY <2>1, <2>3
  <2> QED BY <2>1, <2>2, <2>4, FS_EmptySet
<1>2. \A w \in Workers : wpc[w] # "work" /\ ~HoldsOutput(w)
  BY <1>1 DEF Running, Holders
<1>3. ASSUME NEW w \in Workers, NEW i \in 1 .. Len(outQ[w]), outQ[w][i].kind = "swapped" PROVE FALSE
  <2>1. QueueDepth \in Nat /\ Len(outQ[w]) <= QueueDepth /\ Len(outQ[w]) \in Nat
    BY ConstantsAssumption DEF ConstantsAssumption, HonestInv, TypeInv, TypeOK, QueueType
  <2>2. outQ[w][i] # EndMark
    BY <1>3 DEF EndMark
  <2>3. <<w, i>> \in Queued
    BY <2>1, <2>2 DEF Queued
  <2> QED BY <1>1, <2>3
<1> QED BY <1>2, <1>3 DEF Drained

\* While the acknowledged pause lasts, nothing comes up but originals of failed frames.
LEMMA StaysDrained ==
    ASSUME TypeInv, HonestInv, Drained, pause.active = 0, pause.acked,
           [Next]_vars, processing
    PROVE  Drained'
<1>t. /\ wpc \in [Workers -> WorkerStates]
      /\ out \in [Workers -> Kinds \cup {"oom", "error", "none"}]
      /\ outQ \in [Workers -> Seq(Output \cup {EndMark})]
  BY DEF TypeInv, TypeOK, WorkerType, QueueType
<1>h. /\ \A w \in Workers : wpc[w] \in {"end", "leave"} => out[w] # "original"
      /\ \A w \in Workers : out[w] # "refused"
      /\ Held
  BY DEF HonestInv, NoRefused, Held
<1>r. \A w \in Workers : wpc[w] \notin {"work", "end"}
  <2>1. IsFiniteSet(Running) /\ Cardinality(Running) = 0
    BY FiniteWorkers DEF Running, HonestInv
  <2> QED BY <2>1, FS_EmptySet DEF Running
<1>d. /\ \A w \in Workers : wpc[w] # "work" /\ (HoldsOutput(w) => Replacing(w))
      /\ \A w \in Workers : \A i \in 1 .. Len(outQ[w]) : outQ[w][i].kind # "swapped"
  BY DEF Drained
<1>1. ASSUME UNCHANGED <<wpc, out, outQ>> PROVE Drained'
  BY <1>1, <1>d DEF Drained, HoldsOutput, Replacing
<1>2. ASSUME NEW w \in Workers, NEW s, wpc' = [wpc EXCEPT ![w] = s],
             \A v \in Workers \ {w} : out'[v] = out[v], s # "work", HoldsOutput(w)' => Replacing(w)',
             \A v \in Workers : \A i \in 1 .. Len(outQ'[v]) : outQ'[v][i].kind # "swapped"
      PROVE  Drained'
  <2>1. \A v \in Workers \ {w} : wpc'[v] = wpc[v] /\ out'[v] = out[v]
    BY <1>2, <1>t
  <2>2. \A v \in Workers \ {w} : wpc'[v] # "work" /\ (HoldsOutput(v)' => Replacing(v)')
    BY <1>d, <2>1 DEF HoldsOutput, Replacing
  <2>3. wpc'[w] # "work"
    BY <1>2, <1>t
  <2> QED BY <1>2, <2>2, <2>3 DEF Drained
<1>3. ASSUME NEW w \in Workers, NEW s, wpc' = [wpc EXCEPT ![w] = s], UNCHANGED <<out, outQ>>,
             s \notin {"work", "end", "leave", "put"}
      PROVE  Drained'
  <2>1. ~HoldsOutput(w)'
    BY <1>3, <1>t DEF HoldsOutput
  <2> QED BY <1>2, <1>3, <1>d, <2>1
<1>4. ASSUME NEW w \in Workers, NEW o, o.kind # "swapped", outQ' = [outQ EXCEPT ![w] = Append(@, o)]
      PROVE  \A v \in Workers : \A i \in 1 .. Len(outQ'[v]) : outQ'[v][i].kind # "swapped"
  <2>1. /\ outQ[w] \in Seq(Output \cup {EndMark}) /\ outQ'[w] = Append(outQ[w], o)
        /\ \A v \in Workers \ {w} : outQ'[v] = outQ[v]
    BY <1>4, <1>t
  <2>2. /\ Len(outQ[w]) \in Nat /\ Len(outQ'[w]) = Len(outQ[w]) + 1
        /\ outQ'[w][Len(outQ[w]) + 1] = o
        /\ \A i \in 1 .. Len(outQ[w]) : outQ'[w][i] = outQ[w][i]
    BY <2>1
  <2>3. \A i \in 1 .. Len(outQ'[w]) : outQ'[w][i].kind # "swapped"
    <3>1. \A i : i \in 1 .. Len(outQ'[w]) => i \in 1 .. Len(outQ[w]) \/ i = Len(outQ[w]) + 1
      BY <2>2
    <3> QED BY <1>4, <1>d, <2>2, <3>1
  <2> QED BY <1>d, <2>1, <2>3
<1>5. ASSUME NEW w \in Workers, UNCHANGED <<wpc, out>>, outQ[w] # <<>>, outQ' = [outQ EXCEPT ![w] = Tail(@)]
      PROVE  Drained'
  <2>1. /\ outQ[w] \in Seq(Output \cup {EndMark}) /\ outQ'[w] = Tail(outQ[w])
        /\ \A v \in Workers \ {w} : outQ'[v] = outQ[v]
    BY <1>5, <1>t
  <2>2. /\ Len(outQ[w]) \in Nat /\ Len(outQ'[w]) = Len(outQ[w]) - 1
        /\ \A i \in 1 .. Len(outQ[w]) - 1 : outQ'[w][i] = outQ[w][i + 1]
    <3>1. /\ Len(outQ[w]) \in Nat /\ Len(Tail(outQ[w])) = Len(outQ[w]) - 1
          /\ \A i \in 1 .. Len(outQ[w]) - 1 : Tail(outQ[w])[i] = outQ[w][i + 1]
      BY <1>5, <2>1, FirstAndRest
    <3> QED BY <2>1, <3>1
  <2>3. \A i \in 1 .. Len(outQ'[w]) : outQ'[w][i].kind # "swapped"
    BY <1>d, <2>2
  <2> QED BY <1>5, <1>d, <2>1, <2>3 DEF Drained, HoldsOutput, Replacing
<1>6. CASE Reader
  BY <1>1, <1>6 DEF Reader, ReaderPoll, ReaderRearm, ReaderHold, ReaderPut, PostSentinel, workerVars
<1>7. ASSUME NEW w \in Workers, Worker(w) PROVE Drained'
  <2>1. CASE Take(w)
    BY <1>3, <2>1 DEF Take, TakeNext
  <2>2. CASE Admit(w) \/ Drain(w) \/ Wait(w)
    BY <1>3, <2>2 DEF Admit, Drain, Wait
  <2>3. CASE Begin(w) \/ Work(w) \/ End(w)
    BY <1>h, <1>r, <2>3 DEF Begin, Work, End
  <2>4. CASE Leave(w)
    <3>1. /\ UNCHANGED <<out, outQ>> /\ wpc[w] = "leave"
          /\ wpc' = [wpc EXCEPT ![w] = CASE out[w] = "oom" -> "drain"
                                         [] out[w] \in {"error", "none"} -> "fallback"
                                         [] OTHER -> "put"]
      BY <2>4 DEF Leave
    <3>2. out[w] # "swapped"
      BY <1>d, <3>1 DEF HoldsOutput, Replacing
    <3>3. out[w] \in {"oom", "error", "none"}
      BY <1>h, <1>t, <3>1, <3>2 DEF Kinds
    <3>4. wpc' = [wpc EXCEPT ![w] = "drain"] \/ wpc' = [wpc EXCEPT ![w] = "fallback"]
      BY <3>1, <3>3
    <3> QED BY <1>3, <3>1, <3>4
  <2>5. CASE Fallback(w)
    <3>1. /\ UNCHANGED outQ /\ wpc' = [wpc EXCEPT ![w] = "put"] /\ out' = [out EXCEPT ![w] = "original"]
      BY <2>5 DEF Fallback
    <3>2. Replacing(w)'
      BY <1>t, <3>1 DEF Replacing
    <3> QED BY <1>2, <1>d, <1>t, <3>1, <3>2
  <2>6. CASE Put(w)
    <3> DEFINE o == [frame |-> job[w], kind |-> out[w]]
    <3>1. /\ UNCHANGED out /\ wpc[w] = "put" /\ wpc' = [wpc EXCEPT ![w] = "get"]
          /\ outQ' = [outQ EXCEPT ![w] = Append(@, o)]
      BY <2>6 DEF Put
    <3>2. o.kind # "swapped"
      BY <1>d, <3>1 DEF HoldsOutput, Replacing
    <3> HIDE DEF o
    <3>3. ~HoldsOutput(w)'
      BY <1>t, <3>1 DEF HoldsOutput
    <3>4. \A v \in Workers : \A i \in 1 .. Len(outQ'[v]) : outQ'[v][i].kind # "swapped"
      BY <1>4, <3>1, <3>2
    <3> QED BY <1>2, <3>1, <3>3, <3>4
  <2>7. CASE Retire(w)
    <3>1. /\ UNCHANGED out /\ wpc' = [wpc EXCEPT ![w] = "done"]
          /\ outQ' = outQ \/ outQ' = [outQ EXCEPT ![w] = Append(@, EndMark)]
      BY <2>7 DEF Retire
    <3>2. EndMark.kind # "swapped"
      BY DEF EndMark
    <3>3. ~HoldsOutput(w)'
      BY <1>t, <3>1 DEF HoldsOutput
    <3>4. CASE outQ' = outQ
      BY <1>3, <3>1, <3>4
    <3>5. CASE outQ' = [outQ EXCEPT ![w] = Append(@, EndMark)]
      <4>1. \A v \in Workers : \A i \in 1 .. Len(outQ'[v]) : outQ'[v][i].kind # "swapped"
        BY <1>4, <3>2, <3>5
      <4> QED BY <1>2, <3>1, <3>3, <4>1
    <3> QED BY <3>1, <3>4, <3>5
  <2> QED BY <1>7, <2>1, <2>2, <2>3, <2>4, <2>5, <2>6, <2>7 DEF Worker
<1>8. CASE Writer
  <2>1. CASE Fetch
    <3>1. Turn \in Workers
      BY TurnType DEF TypeInv, TypeOK, WriterType
    <3> QED BY <1>1, <1>5, <2>1, <3>1 DEF Fetch, workerVars
  <2>2. CASE ReleaseQueued
    <3>1. sweep \in Workers
      BY DEF TypeInv, TypeOK, WriterType
    <3> QED BY <1>1, <1>5, <2>2, <3>1 DEF ReleaseQueued, workerVars
  <2>3. CASE Encode \/ Clear \/ Check \/ Unpark
    BY <1>1, <2>3 DEF Encode, Clear, Check, Unpark, workerVars
  <2> QED BY <1>8, <2>1, <2>2, <2>3 DEF Writer
<1>9. CASE Join \/ Close \/ CallBegins \/ CallEnds \/ UNCHANGED vars
  BY <1>1, <1>9 DEF Join, Close, CallBegins, CallEnds, vars, workerVars
<1> QED BY <1>6, <1>7, <1>8, <1>9 DEF Next

\* A paused run has no active worker until it is resumed.
PauseInv == HonestInv /\ ReservationsExact /\ (pause.acked /\ processing => pause.active = 0 /\ Drained)

LEMMA PauseHolds == Spec => []PauseInv
<1>1. Init => PauseInv
  <2> SUFFICES ASSUME Init PROVE PauseInv
    OBVIOUS
  <2>1. PICK h \in BOOLEAN : pause = [requested |-> h, acked |-> h, active |-> 0, pending |-> 0]
    BY DEF Init
  <2>2. /\ \A w \in Workers : wpc[w] = "get" /\ out[w] = "none" /\ outQ[w] = <<>>
        /\ xpc = "get" /\ QueueDepth \in Nat
    BY ConstantsAssumption DEF Init, ConstantsAssumption
  <2>3. \A w \in Workers : ~HoldsOutput(w) /\ Len(outQ[w]) = 0
    BY <2>2 DEF HoldsOutput
  <2>4. Running = {} /\ Holders = {} /\ Queued = {} /\ Cardinality({}) = 0
    BY <2>2, <2>3, FS_EmptySet DEF Running, Holders, Queued
  <2>5. HonestInv
    BY <2>1, <2>2, <2>3, <2>4 DEF HonestInv, NoRefused
  <2>6. ReservationsExact
    <3>1. pause.pending = 0 /\ Cardinality(Holders) = 0 /\ Cardinality(Queued) = 0
      BY <2>1, <2>4
    <3> QED BY <2>2, <3>1 DEF ReservationsExact, Holders
  <2>7. Drained
    BY <2>2, <2>3 DEF Drained
  <2> QED BY <2>1, <2>5, <2>6, <2>7 DEF PauseInv
<1>z. TypeInv' /\ HonestInv' /\ ReservationsExact' /\ AtZero' => Drained'
  BY ZeroIsDrained, PTL
<1>2. TypeInv /\ TypeInv' /\ PauseInv /\ [Next]_vars => PauseInv'
  <2> SUFFICES ASSUME TypeInv, TypeInv', HonestInv, ReservationsExact,
                      pause.acked /\ processing => pause.active = 0 /\ Drained, [Next]_vars
               PROVE  PauseInv'
    BY DEF PauseInv
  <2>1. HonestInv'
    <3>1. pause'.active = Cardinality(Running')
      BY ActiveStep DEF HonestInv
    <3>2. pause'.acked => pause'.requested
      BY AskedStep DEF HonestInv
    <3>3. /\ \A w \in Workers : Len(outQ'[w]) <= QueueDepth
          /\ \A w \in Workers : wpc'[w] \in {"end", "leave"} => out'[w] # "original"
      BY CarriesStep
    <3>4. processing' => NoRefused'
      <4>1. processing' => processing /\ NoRefused
        BY NoReturn DEF HonestInv
      <4> QED BY <4>1, NoRefusedStep
    <3> QED BY <3>1, <3>2, <3>3, <3>4 DEF HonestInv
  <2>2. ReservationsExact'
    <3> SUFFICES ASSUME processing'
                 PROVE  pause'.pending = Cardinality(Holders') + Cardinality(Queued') + InHand'
      BY DEF ReservationsExact, Holders, InHand
    <3>1. processing
      BY NoReturn
    <3> QED BY <3>1, CountStep
  <2>3. ASSUME pause'.acked, processing' PROVE pause'.active = 0 /\ Drained'
    <3>1. processing
      BY <2>3, NoReturn
    <3>2. CASE ~pause.acked
      <4>1. pause'.active = 0 /\ pause'.pending = 0
        BY <2>3, <3>2, AckedAtZero
      <4>2. Drained'
        BY <1>z, <2>1, <2>2, <2>3, <4>1 DEF AtZero
      <4> QED BY <4>1, <4>2
    <3>3. CASE pause.acked
      <4>1. Drained'
        BY <3>1, <3>3, StaysDrained
      <4>2. pause'.active = 0
        <5>1. Running = {}
          <6>1. IsFiniteSet(Running) /\ Cardinality(Running) = 0
            BY <3>1, <3>3, FiniteWorkers DEF Running, HonestInv
          <6> QED BY <6>1, FS_EmptySet
        <5>2. \A w \in Workers : wpc[w] \notin {"work", "end"}
          BY <5>1 DEF Running
        <5>3. Held
          BY <3>1, <3>3 DEF HonestInv, Held
        <5>4. pause \in [requested : BOOLEAN, acked : BOOLEAN, active : Nat, pending : Nat]
          BY DEF TypeInv, TypeOK, PauseType
        <5>5. ASSUME pause' \in {pause, Asked(pause), Resumed(pause), Reserved(pause), Released(pause)}
              PROVE  pause'.active = 0
          BY <3>1, <3>3, <5>4, <5>5, PauseFields
        <5>6. CASE Reader
          BY <5>5, <5>6 DEF Reader, ReaderPoll, ReaderRearm, ReaderHold, ReaderPut, PostSentinel, gateVars
        <5>7. ASSUME NEW w \in Workers, Worker(w) PROVE pause'.active = 0
          BY <5>2, <5>3, <5>5, <5>7 DEF Worker, Take, TakeNext, Admit, Begin, Work, End, Leave, Drain,
                                       Wait, Fallback, Put, Retire, gateVars
        <5>8. CASE Writer
          BY <5>5, <5>8 DEF Writer, Fetch, Encode, Clear, Check, Unpark, ReleaseQueued, gateVars
        <5>9. CASE Join \/ Close \/ CallBegins \/ CallEnds \/ UNCHANGED vars
          BY <5>5, <5>9 DEF Join, Close, CallBegins, CallEnds, vars, gateVars
        <5> QED BY <5>6, <5>7, <5>8, <5>9 DEF Next
      <4> QED BY <4>1, <4>2
    <3> QED BY <3>2, <3>3
  <2> QED BY <2>1, <2>2, <2>3 DEF PauseInv
<1> QED BY <1>1, <1>2, TypeInvariant, PTL DEF Spec

\* The controller's count of undelivered output is exact for any number of workers
\* (PauseController.pending_output, called from three threads).
THEOREM ReservationsAreExact == Spec => []ReservationsExact
<1>1. PauseInv => ReservationsExact
  BY DEF PauseInv
<1> QED BY <1>1, PauseHolds, PTL

\* An acknowledged pause means that no model runs and that every swapped frame is with the
\* encoder (PauseController._acknowledge_locked, pause_aware).
THEOREM PauseIsHonest == Spec => []PausedIsDrained
<1>1. TypeInv /\ PauseInv => PausedIsDrained
  <2> SUFFICES ASSUME TypeInv, PauseInv, pause.acked, processing
               PROVE  /\ pause.active = 0 /\ \A w \in Workers : wpc[w] # "work"
                      /\ \A w \in Workers : HoldsOutput(w) => Replacing(w)
                      /\ \A w \in Workers : \A i \in DOMAIN outQ[w] : outQ[w][i].kind # "swapped"
    BY DEF PausedIsDrained
  <2>1. pause.active = 0 /\ Drained
    BY DEF PauseInv
  <2>2. \A w \in Workers : DOMAIN outQ[w] = 1 .. Len(outQ[w])
    BY DEF TypeInv, TypeOK, QueueType
  <2> QED BY <2>1, <2>2 DEF Drained
<1> QED BY <1>1, PauseHolds, TypeInvariant, PTL

=============================================================================
