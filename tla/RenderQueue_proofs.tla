------------------------- MODULE RenderQueue_proofs -------------------------
(***************************************************************************)
(* Theorems about RenderQueue for every set of jobs, any number of starts, *)
(* single runs and user calls, overlapping starts included.                *)
(***************************************************************************)
EXTENDS RenderQueue, TLAPS

\* A state function of a job list: what Commit writes is well typed if its arguments are.
LEMMA CommitType ==
    ASSUME NEW o \in Seq(Jobs), NEW s \in [Jobs -> JobStates \cup {"none"}],
           NEW p \in [Jobs -> Jobs \cup {None}], Commit(o, s, p), fresh' \subseteq Jobs,
           origin' \in [Jobs -> Jobs]
    PROVE  ListType'
BY DEF Commit, ListType

\* Removing an element of a job list leaves a job list.
LEMMA WithoutType ==
    ASSUME NEW s \in Seq(Jobs), NEW i \in DOMAIN s
    PROVE  Without(s, i) \in Seq(Jobs)
<1>1. Len(s) - 1 \in Nat
  BY SMT
<1>2. \A k \in 1 .. Len(s) - 1 : k \in 1 .. Len(s) /\ k + 1 \in 1 .. Len(s)
  BY SMT
<1>3. \A k \in 1 .. Len(s) : s[k] \in Jobs
  BY SMT
<1> QED BY <1>1, <1>2, <1>3, SMT DEF Without

\* So does inserting one after a given position.
LEMMA PutAfterType ==
    ASSUME NEW s \in Seq(Jobs), NEW i \in DOMAIN s, NEW x \in Jobs
    PROVE  PutAfter(s, i, x) \in Seq(Jobs)
<1>1. Len(s) + 1 \in Nat
  BY SMT
<1>2. \A k \in 1 .. Len(s) : s[k] \in Jobs
  BY SMT
<1>3. \A k \in 1 .. Len(s) + 1 :
         (IF k <= i THEN s[k] ELSE IF k = i + 1 THEN x ELSE s[k - 1]) \in Jobs
  BY <1>2, SMT
<1> QED BY <1>1, <1>3, SMT DEF PutAfter

\* Setting the state of a job, listed or not, keeps the states well typed.
LEMMA SetStateType ==
    ASSUME ListType, NEW j, NEW s \in JobStates \cup {"none"}
    PROVE  SetState(j, s) \in [Jobs -> JobStates \cup {"none"}]
BY DEF SetState, ListType

\* The initial list and the idle threads are well typed.
LEMMA InitType == Init => TypeOK
<1> SUFFICES ASSUME Init PROVE TypeOK
  OBVIOUS
<1>1. order \in Seq(Jobs)
  BY ConstantsAssumption DEF Init, ConstantsAssumption
<1>2. st \in [Jobs -> JobStates \cup {"none"}]
  BY DEF Init, JobStates, Runnable
<1>3. project \in [Jobs -> Jobs \cup {None}]
  BY DEF Init
<1>4. ListType
  BY <1>1, <1>2, <1>3 DEF Init, ListType
<1>5. generation \in 0 .. MaxStarts /\ calls \in 0 .. MaxCalls
  BY ConstantsAssumption DEF Init, ConstantsAssumption
<1>6. FlagType
  BY <1>5 DEF Init, FlagType
<1>7. RunType
  BY DEF Init, RunType
<1>8. ThreadType
  BY DEF Init, ThreadType, Labels
<1>9. EnvType
  BY <1>5 DEF Init, EnvType
<1> QED BY <1>4, <1>6, <1>7, <1>8, <1>9 DEF TypeOK

\* What an action leaves alone keeps its type.
LEMMA SameList == ListType /\ UNCHANGED jobVars => ListType'
BY DEF ListType, jobVars, idVars

LEMMA SameFlags == FlagType /\ UNCHANGED <<flagVars, cancelVars>> => FlagType'
BY DEF FlagType, flagVars, cancelVars

LEMMA SameRun == RunType /\ UNCHANGED <<runVars, pauseVars>> => RunType'
BY DEF RunType, runVars, pauseVars

LEMMA SameThreads == ThreadType /\ UNCHANGED threadVars => ThreadType'
BY DEF ThreadType, threadVars

LEMMA SameEnv == EnvType /\ UNCHANGED envVars => EnvType'
BY DEF EnvType, envVars, handlers

\* A call of the user uses up one of the calls left.
LEMMA CallType ==
    ASSUME EnvType, Call, bench' \in BOOLEAN, stopCalls' \subseteq Jobs \cup {None},
           pauseCalls' \subseteq BOOLEAN
    PROVE  EnvType'
BY ConstantsAssumption DEF EnvType, Call, ConstantsAssumption

LEMMA SimpleCallType == EnvType /\ Call /\ UNCHANGED <<bench, handlers>> => EnvType'
BY CallType DEF EnvType, handlers

\* A call that commits a well typed list and leaves flags, run and threads alone.
LEMMA EditFrame ==
    ASSUME TypeOK, Call, ListType', FlagType',
           UNCHANGED <<runVars, pauseVars, threadVars, bench, handlers>>
    PROVE  TypeOK'
BY SimpleCallType, SameRun, SameThreads DEF TypeOK

\* Editing the list touches nothing but the list and, for some calls, the flags.
LEMMA EditType == TypeOK /\ UserEdits => TypeOK'
<1> SUFFICES ASSUME TypeOK, UserEdits PROVE TypeOK'
  OBVIOUS
<1>0. /\ order \in Seq(Jobs) /\ st \in [Jobs -> JobStates \cup {"none"}]
      /\ project \in [Jobs -> Jobs \cup {None}] /\ fresh \subseteq Jobs
      /\ origin \in [Jobs -> Jobs]
      /\ FlagType
  BY DEF TypeOK, ListType
<1>q. "QUEUED" \in JobStates
  BY DEF JobStates, Runnable
<1>1. ASSUME NEW j \in Jobs, Add(j) PROVE TypeOK'
  <2>0. Append(order, j) \in Seq(Jobs)
    BY <1>0
  <2>1. ListType'
    BY <1>0, <1>1, <1>q, <2>0, CommitType DEF idVars, Add
  <2>2. FlagType'
    BY <1>0, <1>1, SameFlags DEF Add
  <2> QED BY <1>1, <2>1, <2>2, EditFrame DEF Add
<1>2. ASSUME NEW j \in Jobs, Remove(j) PROVE TypeOK'
  <2>1. PICK i \in Positions(j) : Commit(Without(order, i), [st EXCEPT ![j] = "none"], project)
    BY <1>2 DEF Remove
  <2>2. Without(order, i) \in Seq(Jobs)
    BY <1>0, WithoutType DEF Positions
  <2>3. ListType'
    BY <1>0, <1>2, <2>1, <2>2, CommitType DEF idVars, Remove
  <2>4. FlagType'
    BY <1>0, <1>2, SameFlags DEF Remove
  <2> QED BY <1>2, <2>3, <2>4, EditFrame DEF Remove
<1>3. ASSUME NEW j \in Jobs, Reorder(j) PROVE TypeOK'
  <2>1. PICK i \in Positions(j) : Commit(<<j>> \o Without(order, i), st, project)
    BY <1>3 DEF Reorder
  <2>2. Without(order, i) \in Seq(Jobs)
    BY <1>0, WithoutType DEF Positions
  <2>3. <<j>> \o Without(order, i) \in Seq(Jobs)
    BY <2>2
  <2>4. ListType'
    BY <1>0, <1>3, <2>1, <2>3, CommitType DEF idVars, Reorder
  <2>5. FlagType'
    BY <1>0, <1>3, SameFlags DEF Reorder
  <2> QED BY <1>3, <2>4, <2>5, EditFrame DEF Reorder
<1>4. ASSUME NEW j \in Jobs, Requeue(j) PROVE TypeOK'
  <2>1. ListType'
    BY <1>0, <1>4, <1>q, CommitType DEF idVars, Requeue
  <2>2. FlagType'
    BY <1>0, <1>4 DEF Requeue, FlagType, flagVars
  <2> QED BY <1>4, <2>1, <2>2, EditFrame DEF Requeue
<1>5. ASSUME NEW keep \in BOOLEAN, Clear(keep) PROVE TypeOK'
  <2> DEFINE left == IF keep /\ current # None THEN {current} ELSE {}
             o    == IF left # {} /\ Listed(current) THEN <<current>> ELSE <<>>
             s    == [j \in Jobs |-> IF j \in left THEN st[j] ELSE "none"]
  <2>1. Commit(o, s, project) /\ running' = (running /\ left # {})
    BY <1>5 DEF Clear
  <2>2. o \in Seq(Jobs)
    BY <1>0 DEF FlagType
  <2>3. s \in [Jobs -> JobStates \cup {"none"}]
    BY <1>0
  <2> HIDE DEF o, s
  <2>4. ListType'
    BY <1>0, <1>5, <2>1, <2>2, <2>3, CommitType DEF idVars, Clear
  <2>5. FlagType'
    BY <1>0, <1>5, <2>1 DEF Clear, FlagType, cancelVars
  <2> QED BY <1>5, <2>4, <2>5, EditFrame DEF Clear
<1>6. ASSUME NEW j \in Jobs, NEW k \in Jobs, Duplicate(j, k) PROVE TypeOK'
  <2>1. PICK i \in Positions(j) :
           Commit(PutAfter(order, i, k), [st EXCEPT ![k] = "QUEUED"],
                  [project EXCEPT ![k] = project[j]])
    BY <1>6 DEF Duplicate
  <2>2. PutAfter(order, i, k) \in Seq(Jobs)
    BY <1>0, PutAfterType DEF Positions
  <2>3. ListType'
    BY <1>0, <1>6, <1>q, <2>1, <2>2, CommitType DEF idVars, Duplicate
  <2>4. FlagType'
    BY <1>0, <1>6, SameFlags DEF Duplicate
  <2> QED BY <1>6, <2>3, <2>4, EditFrame DEF Duplicate
<1>7. ASSUME RetryAll PROVE TypeOK'
  <2> DEFINE failed == {j \in Jobs : st[j] \in {"FAILED", "CANCELLED", "INTERRUPTED"}}
             s == [j \in Jobs |-> IF j \in failed THEN "QUEUED" ELSE st[j]]
  <2>1. Commit(order, s, project) /\ creq' = creq \ failed
    BY <1>7 DEF RetryAll
  <2>2. s \in [Jobs -> JobStates \cup {"none"}]
    BY <1>0, <1>q
  <2> HIDE DEF s
  <2>3. ListType'
    BY <1>0, <1>7, <2>1, <2>2, CommitType DEF idVars, RetryAll
  <2>4. FlagType'
    BY <1>0, <1>7, <2>1 DEF RetryAll, FlagType, flagVars
  <2> QED BY <1>7, <2>3, <2>4, EditFrame DEF RetryAll
<1> QED BY <1>1, <1>2, <1>3, <1>4, <1>5, <1>6, <1>7 DEF UserEdits

\* queue_start leaves flags, threads and the pause controller well typed.
LEMMA StartType ==
    ASSUME TypeOK, NEW s, StartIfAllowed(s)
    PROVE  /\ running' \in BOOLEAN /\ paused' \in BOOLEAN
           /\ current' \in Jobs \cup {None} /\ generation' \in 0 .. MaxStarts
           /\ pauseReq' \in BOOLEAN /\ pauseAck' \in BOOLEAN
           /\ pc' \in [Threads -> Labels]
<1>1. /\ running \in BOOLEAN /\ paused \in BOOLEAN
      /\ current \in Jobs \cup {None} /\ generation \in 0 .. MaxStarts
      /\ pauseReq \in BOOLEAN /\ pauseAck \in BOOLEAN
      /\ pc \in [Threads -> Labels]
  BY DEF TypeOK, FlagType, RunType, ThreadType
<1>2. CASE ~MayStart(s)
  BY <1>1, <1>2 DEF StartIfAllowed, flagVars, pauseVars
<1>3. CASE MayStart(s)
  <2>1. generation < MaxStarts /\ Launch
    BY <1>3 DEF StartIfAllowed, MayStart
  <2>2. generation + 1 \in 0 .. MaxStarts
    BY <1>1, <2>1, ConstantsAssumption DEF ConstantsAssumption
  <2> QED BY <1>1, <2>1, <2>2 DEF Launch, ClearPause, Labels
<1> QED BY <1>2, <1>3

\* stop_swap keeps the run globals well typed.
LEMMA StopSwapType == RunType /\ StopSwap => RunType'
BY DEF RunType, StopSwap, ClearPause, runVars, pauseVars

\* Starting, resuming, pausing and stopping.
LEMMA ControlType == TypeOK /\ UserControls => TypeOK'
<1> SUFFICES ASSUME TypeOK, UserControls PROVE TypeOK'
  OBVIOUS
<1>0. /\ order \in Seq(Jobs) /\ st \in [Jobs -> JobStates \cup {"none"}]
      /\ project \in [Jobs -> Jobs \cup {None}] /\ fresh \subseteq Jobs
      /\ origin \in [Jobs -> Jobs]
      /\ ListType /\ FlagType /\ RunType /\ ThreadType /\ EnvType
  BY DEF TypeOK, ListType
<1>q. {"QUEUED", "PAUSED", "PAUSE_REQUESTED", "PROCESSING", "CANCELLED"} \subseteq JobStates
  BY DEF JobStates, Runnable, Active, Done
<1>1. ASSUME Start PROVE TypeOK'
  <2>1. StartIfAllowed(st)
    BY <1>1 DEF Start, StartIfAllowed
  <2>2. FlagType' /\ RunType'
    BY <1>0, <1>1, <2>1, StartType DEF Start, FlagType, RunType, cancelVars, runVars
  <2>3. ThreadType'
    BY <1>0, <1>1, <2>1, StartType DEF Start, ThreadType
  <2> QED BY <1>0, <1>1, <2>2, <2>3, SameList, SimpleCallType DEF Start, TypeOK
<1>2. ASSUME PauseAsk PROVE TypeOK'
  <2>1. pauseReq' \in BOOLEAN /\ pauseAck' \in BOOLEAN
    BY <1>0, <1>2 DEF PauseAsk, RequestPause, RunType, pauseVars
  <2>2. RunType'
    BY <1>0, <1>2, <2>1 DEF PauseAsk, RunType, runVars
  <2>3. EnvType'
    BY <1>0, <1>2, <2>1, CallType DEF PauseAsk, EnvType
  <2> QED BY <1>0, <1>2, <2>2, <2>3, SameList, SameFlags, SameThreads DEF PauseAsk, TypeOK
<1>3. ASSUME Resume PROVE TypeOK'
  <2> DEFINE s == IF current # None /\ st[current] \in {"PAUSE_REQUESTED", "PAUSED"}
                  THEN SetState(current, "PROCESSING") ELSE st
  <2>1. s \in [Jobs -> JobStates \cup {"none"}]
    BY <1>0, <1>q, SetStateType DEF FlagType
  <2>2. Commit(order, s, project)
    BY <1>3 DEF Resume
  <2> HIDE DEF s
  <2>3. ListType'
    BY <1>0, <1>3, <2>1, <2>2, CommitType DEF idVars, Resume
  <2>4. FlagType' /\ RunType'
    BY <1>0, <1>3 DEF Resume, FlagType, RunType, ClearPause, cancelVars, runVars
  <2> QED BY <1>0, <1>3, <2>3, <2>4, SameThreads, SimpleCallType DEF Resume, TypeOK
<1>4. ASSUME PauseSwap \/ ResumeSwap PROVE TypeOK'
  <2>1. RunType'
    BY <1>0, <1>4 DEF PauseSwap, ResumeSwap, RequestPause, ClearPause, RunType, runVars
  <2> QED BY <1>0, <1>4, <2>1, SameList, SameFlags, SameThreads, SimpleCallType
          DEF PauseSwap, ResumeSwap, TypeOK
<1>5. ASSUME StopRun PROVE TypeOK'
  BY <1>0, <1>5, SameList, SameFlags, SameThreads, SimpleCallType, StopSwapType
     DEF StopRun, TypeOK
<1>6. ASSUME Stop PROVE TypeOK'
  <2>1. ListType'
    BY <1>0, <1>6, CommitType DEF idVars, Stop
  <2>2. FlagType'
    BY <1>0, <1>6 DEF Stop, EndBatch, FlagType
  <2>3. EnvType'
    BY <1>0, <1>6, CallType DEF Stop, FlagType, EnvType
  <2> QED BY <1>0, <1>6, <2>1, <2>2, <2>3, SameRun, SameThreads DEF Stop, TypeOK
<1>7. ASSUME NEW j \in Jobs, Cancel(j) PROVE TypeOK'
  <2>1. ListType'
    BY <1>0, <1>7, <1>q, CommitType DEF idVars, Cancel
  <2>2. FlagType'
    BY <1>0, <1>7 DEF Cancel, FlagType, flagVars
  <2>3. EnvType'
    BY <1>0, <1>7, CallType DEF Cancel, EnvType
  <2> QED BY <1>0, <1>7, <2>1, <2>2, <2>3, SameRun, SameThreads DEF Cancel, TypeOK
<1>8. ASSUME NEW j \in Jobs, ResumeJob(j) PROVE TypeOK'
  <2>1. PICK i \in DOMAIN order :
           LET k == order[i]
               resumed == [st EXCEPT ![k] = "QUEUED"]
           IN /\ Commit(order, resumed, project)
              /\ creq' = creq \ {k}
              /\ StartIfAllowed(resumed)
    BY <1>8 DEF ResumeJob
  <2>2. ListType'
    BY <1>0, <1>8, <1>q, <2>1, CommitType DEF idVars, ResumeJob
  <2>3. FlagType' /\ RunType'
    BY <1>0, <1>8, <2>1, StartType DEF ResumeJob, FlagType, RunType, runVars
  <2>4. ThreadType'
    BY <1>0, <1>8, <2>1, StartType DEF ResumeJob, ThreadType
  <2> QED BY <1>0, <1>8, <2>2, <2>3, <2>4, SimpleCallType DEF ResumeJob, TypeOK
<1>9. ASSUME NEW j \in Jobs, NEW start \in BOOLEAN, Rerender(j, start) PROVE TypeOK'
  <2> DEFINE again == [st EXCEPT ![j] = "QUEUED"]
  <2>1. /\ Commit(order, again, project)
        /\ IF start THEN StartIfAllowed(again) ELSE UNCHANGED <<flagVars, pc, pauseVars>>
    BY <1>9 DEF Rerender
  <2>2. ListType'
    BY <1>0, <1>9, <1>q, <2>1, CommitType DEF idVars, Rerender
  <2> HIDE DEF again
  <2>3. FlagType' /\ RunType' /\ ThreadType'
    <3>1. CASE start
      BY <1>0, <1>9, <2>1, <3>1, StartType DEF Rerender, FlagType, RunType, ThreadType, runVars
    <3>2. CASE ~start
      BY <1>0, <1>9, <2>1, <3>2
         DEF Rerender, FlagType, RunType, ThreadType, flagVars, runVars, pauseVars
    <3> QED BY <3>1, <3>2
  <2> QED BY <1>0, <1>9, <2>2, <2>3, SimpleCallType DEF Rerender, TypeOK
<1> QED BY <1>1, <1>2, <1>3, <1>4, <1>5, <1>6, <1>7, <1>8, <1>9 DEF UserControls

\* What a runner does between two renders.
LEMMA RunnerType == TypeOK /\ (\E r \in Runners : RunnerStep(r) \/ Checkpoint(r)) => TypeOK'
<1> SUFFICES ASSUME TypeOK, NEW r \in Runners, RunnerStep(r) \/ Checkpoint(r) PROVE TypeOK'
  OBVIOUS
<1>0. /\ order \in Seq(Jobs) /\ st \in [Jobs -> JobStates \cup {"none"}]
      /\ project \in [Jobs -> Jobs \cup {None}] /\ fresh \subseteq Jobs
      /\ origin \in [Jobs -> Jobs]
      /\ ListType /\ FlagType /\ RunType /\ ThreadType /\ EnvType /\ r \in Threads
  BY DEF TypeOK, ListType, Threads
<1>q. {"PREPARING", "PROCESSING", "PAUSED", "FAILED", "RECOVERABLE", "CANCELLED"} \subseteq JobStates
  BY DEF JobStates, Runnable, Active, Done
<1>1. ASSUME Retire(r) PROVE TypeOK'
  <2>1. ThreadType'
    BY <1>0, <1>1 DEF Retire, Goto, ThreadType, Labels
  <2> QED BY <1>0, <1>1, <2>1, SameList, SameFlags, SameRun, SameEnv DEF Retire, TypeOK
<1>2. ASSUME Drain(r) PROVE TypeOK'
  <2>1. ListType'
    BY <1>0, <1>2, CommitType DEF idVars, Drain
  <2>2. FlagType'
    BY <1>0, <1>2 DEF Drain, FlagType, cancelVars
  <2>3. ThreadType'
    BY <1>0, <1>2 DEF Drain, Goto, ThreadType, Labels
  <2> QED BY <1>0, <1>2, <2>1, <2>2, <2>3, SameRun, SameEnv DEF Drain, TypeOK
<1>3. ASSUME Dispatch(r) PROVE TypeOK'
  <2>1. PICK i \in DOMAIN order :
           /\ Commit(order, [st EXCEPT ![order[i]] = "PREPARING"], project)
           /\ creq' = creq \ {order[i]}
           /\ current' = order[i]
           /\ jobOf' = [jobOf EXCEPT ![r] = order[i]]
    BY <1>3 DEF Dispatch, Pending
  <2>2. order[i] \in Jobs
    BY <1>0
  <2>3. ListType'
    BY <1>0, <1>3, <1>q, <2>1, <2>2, CommitType DEF idVars, Dispatch
  <2>4. FlagType'
    BY <1>0, <1>3, <2>1, <2>2 DEF Dispatch, FlagType
  <2>5. ThreadType'
    BY <1>0, <1>3, <2>1, <2>2 DEF Dispatch, Goto, ThreadType, Labels
  <2> QED BY <1>0, <1>3, <2>3, <2>4, <2>5, SameRun, SameEnv DEF Dispatch, TypeOK
<1>4. ASSUME CheckCancel(r) PROVE TypeOK'
  <2>1. ThreadType'
    BY <1>0, <1>4 DEF CheckCancel, Goto, ThreadType, Labels, Done
  <2> QED BY <1>0, <1>4, <2>1, SameList, SameFlags, SameRun, SameEnv DEF CheckCancel, TypeOK
<1>5. ASSUME PrepareFails(r) PROVE TypeOK'
  <2>1. ThreadType'
    BY <1>0, <1>5 DEF PrepareFails, Goto, ThreadType, Labels, Done
  <2> QED BY <1>0, <1>5, <2>1, SameList, SameFlags, SameRun, SameEnv DEF PrepareFails, TypeOK
<1>6. ASSUME Prepare(r) PROVE TypeOK'
  <2> DEFINE j == jobOf[r]
             s == SetState(j, "PROCESSING")
             p == IF project[j] = None THEN [project EXCEPT ![j] = j] ELSE project
  <2>1. s \in [Jobs -> JobStates \cup {"none"}]
    BY <1>0, <1>6, <1>q, SetStateType
  <2>2. p \in [Jobs -> Jobs \cup {None}]
    BY <1>0 DEF ThreadType
  <2>3. Commit(order, s, p) /\ fresh' = fresh /\ origin' = origin
    BY <1>6 DEF Prepare, idVars
  <2>4. spec' \in Jobs \cup {None}
    BY <1>6, ConstantsAssumption DEF Prepare, SliceOf, ConstantsAssumption
  <2> HIDE DEF s, p
  <2>5. ListType'
    BY <1>0, <2>1, <2>2, <2>3, CommitType
  <2>6. RunType'
    BY <1>0, <1>6, <2>4 DEF Prepare, RunType, pauseVars
  <2>7. ThreadType'
    BY <1>0, <1>6 DEF Prepare, Goto, ThreadType, Labels
  <2> QED BY <1>0, <1>6, <2>5, <2>6, <2>7, SameFlags, SameEnv DEF Prepare, TypeOK
<1>7. ASSUME Classify(r) PROVE TypeOK'
  <2>1. Verdict(jobOf[r]) \in Done
    BY DEF Verdict, Done
  <2>2. ThreadType'
    BY <1>0, <1>7, <2>1 DEF Classify, Goto, ThreadType, Labels
  <2> QED BY <1>0, <1>7, <2>2, SameList, SameFlags, SameRun, SameEnv DEF Classify, TypeOK
<1>8. ASSUME Book(r) PROVE TypeOK'
  <2> DEFINE s == SetState(jobOf[r], verdict[r])
  <2>1. verdict[r] \in JobStates \cup {"none"}
    BY <1>0, <1>8 DEF ThreadType, JobStates, Runnable
  <2>2. s \in [Jobs -> JobStates \cup {"none"}]
    BY <1>0, <1>8, <2>1, SetStateType
  <2>3. Commit(order, s, project) /\ fresh' = fresh /\ origin' = origin
    BY <1>8 DEF Book, idVars
  <2> HIDE DEF s
  <2>4. ListType'
    BY <1>0, <2>2, <2>3, CommitType
  <2>5. FlagType'
    BY <1>0, <1>8 DEF Book, Uncancel, FlagType
  <2>6. ThreadType'
    BY <1>0, <1>8 DEF Book, Goto, ThreadType, Labels
  <2> QED BY <1>0, <1>8, <2>4, <2>5, <2>6, SameRun, SameEnv DEF Book, TypeOK
<1>9. ASSUME Checkpoint(r) PROVE TypeOK'
  <2>1. PICK i \in DOMAIN order :
           Commit(order, [st EXCEPT ![order[i]] = IF pauseAck THEN "PAUSED" ELSE "PROCESSING"],
                  project)
    BY <1>9 DEF Checkpoint
  <2>2. ListType'
    BY <1>0, <1>9, <1>q, <2>1, CommitType DEF idVars, Checkpoint
  <2> QED BY <1>0, <1>9, <2>2, SameFlags, SameRun, SameThreads, SameEnv DEF Checkpoint, TypeOK
<1> QED BY <1>1, <1>2, <1>3, <1>4, <1>5, <1>6, <1>7, <1>8, <1>9 DEF RunnerStep

\* The steps of _run_swap, of the single run that calls it, of a late stop_swap,
\* of the benchmark, and a crash.
LEMMA RunStepType ==
    TypeOK /\ (\/ \E j \in Jobs \cup {None} : StopCall(j)
               \/ \E safe \in BOOLEAN : PauseMark(safe)
               \/ \E s \in Singles : SingleAsk(s) \/ SingleClaim(s)
               \/ \E t \in Threads : SwapStep(t) \/ Report(t) \/ Acknowledge(t)
               \/ BenchStart \/ BenchEnd \/ Crash) => TypeOK'
<1> SUFFICES ASSUME TypeOK PROVE
       (\/ \E j \in Jobs \cup {None} : StopCall(j)
        \/ \E safe \in BOOLEAN : PauseMark(safe)
        \/ \E s \in Singles : SingleAsk(s) \/ SingleClaim(s)
        \/ \E t \in Threads : SwapStep(t) \/ Report(t) \/ Acknowledge(t)
        \/ BenchStart \/ BenchEnd \/ Crash) => TypeOK'
  OBVIOUS
<1>0. /\ ListType /\ FlagType /\ RunType /\ ThreadType /\ EnvType /\ Singles \subseteq Threads
  BY DEF TypeOK, Threads
<1>1. ASSUME NEW j \in Jobs \cup {None}, StopCall(j) PROVE TypeOK'
  <2>1. EnvType'
    BY <1>0, <1>1 DEF StopCall, EnvType
  <2> QED BY <1>0, <1>1, <2>1, SameList, SameFlags, SameThreads, StopSwapType
          DEF StopCall, TypeOK
<1>2. ASSUME NEW s \in Singles, SingleAsk(s) PROVE TypeOK'
  <2>1. ThreadType'
    BY <1>0, <1>2 DEF SingleAsk, Goto, ThreadType, Labels
  <2> QED BY <1>0, <1>2, <2>1, SameList, SameFlags, SameRun, SimpleCallType DEF SingleAsk, TypeOK
<1>3. ASSUME NEW s \in Singles, SingleClaim(s) PROVE TypeOK'
  <2>1. ThreadType'
    BY <1>0, <1>3 DEF SingleClaim, Goto, ThreadType, Labels
  <2>2. RunType'
    BY <1>0, <1>3 DEF SingleClaim, RunType, pauseVars
  <2> QED BY <1>0, <1>3, <2>1, <2>2, SameList, SameFlags, SameEnv DEF SingleClaim, TypeOK
<1>4. ASSUME NEW t \in Threads, Enter(t) PROVE TypeOK'
  <2>1. ThreadType'
    BY <1>0, <1>4 DEF Enter, Goto, ThreadType, Labels
  <2>2. RunType'
    BY <1>0, <1>4 DEF Enter, RunType, pauseVars
  <2> QED BY <1>0, <1>4, <2>1, <2>2, SameList, SameFlags, SameEnv DEF Enter, TypeOK
<1>5. ASSUME NEW t \in Threads, Arm(t) PROVE TypeOK'
  <2>1. ThreadType'
    BY <1>0, <1>5 DEF Arm, Goto, ThreadType, Labels
  <2>2. RunType'
    BY <1>0, <1>5 DEF Arm, RunType, pauseVars
  <2> QED BY <1>0, <1>5, <2>1, <2>2, SameList, SameFlags, SameEnv DEF Arm, TypeOK
<1>6. ASSUME NEW t \in Threads, RenderEnds(t) PROVE TypeOK'
  <2>1. ThreadType'
    BY <1>0, <1>6 DEF RenderEnds, Goto, ThreadType, Labels
  <2> QED BY <1>0, <1>6, <2>1, SameList, SameFlags, SameRun, SameEnv DEF RenderEnds, TypeOK
<1>7. ASSUME NEW t \in Threads, RunRaises(t) PROVE TypeOK'
  <2>1. ThreadType'
    BY <1>0, <1>7 DEF RunRaises, Goto, ThreadType, Labels
  <2> QED BY <1>0, <1>7, <2>1, SameList, SameFlags, SameRun, SameEnv DEF RunRaises, TypeOK
<1>8. ASSUME NEW t \in Threads, Finish(t) PROVE TypeOK'
  <2>1. RunType'
    BY <1>0, <1>8 DEF Finish, SpecAfter, RunType, ClearPause
  <2>2. retried' \subseteq Runners
    BY <1>0, <1>8 DEF Finish, FallsBack, ThreadType
  <2>3. pc' \in [Threads -> Labels]
    BY <1>0, <1>8 DEF Finish, Goto, ThreadType, Labels
  <2>4. ThreadType'
    BY <1>0, <1>8, <2>2, <2>3 DEF Finish, ThreadType
  <2> QED BY <1>0, <1>8, <2>1, <2>4, SameList, SameFlags, SameEnv DEF Finish, TypeOK
<1>9. ASSUME NEW t \in Threads, Report(t) \/ Acknowledge(t) PROVE TypeOK'
  <2>1. RunType'
    BY <1>0, <1>9 DEF Report, Acknowledge, RunType, runVars, pauseVars
  <2> QED BY <1>0, <1>9, <2>1, SameList, SameFlags, SameThreads, SameEnv
          DEF Report, Acknowledge, TypeOK
<1>10. ASSUME BenchStart PROVE TypeOK'
  <2>1. EnvType'
    BY <1>0, <1>10, CallType DEF BenchStart, handlers, EnvType
  <2> QED BY <1>0, <1>10, <2>1, SameList, SameFlags, SameRun, SameThreads DEF BenchStart, TypeOK
<1>11. ASSUME BenchEnd PROVE TypeOK'
  <2>1. EnvType'
    BY <1>0, <1>11 DEF BenchEnd, handlers, EnvType
  <2> QED BY <1>0, <1>11, <2>1, SameList, SameFlags, SameRun, SameThreads DEF BenchEnd, TypeOK
<1>12. ASSUME Crash PROVE TypeOK'
  <2> DEFINE s == Recovered(disk.st)
  <2>0. /\ disk.order \in Seq(Jobs) /\ disk.project \in [Jobs -> Jobs \cup {None}]
        /\ disk.st \in [Jobs -> JobStates \cup {"none"}]
    BY <1>0 DEF ListType
  <2>1. s \in [Jobs -> JobStates \cup {"none"}]
    BY <2>0 DEF Recovered, JobStates, Runnable
  <2>r. /\ order' = disk.order /\ st' = s /\ project' = disk.project
        /\ fresh' = fresh /\ origin' = origin /\ disk' = disk
    BY <1>12 DEF Crash, idVars
  <2> HIDE DEF s
  <2>2. ListType'
    BY <1>0, <2>0, <2>1, <2>r DEF ListType
  <2>z. 0 \in 0 .. MaxStarts
    BY ConstantsAssumption DEF ConstantsAssumption
  <2>3. FlagType'
    BY <1>0, <1>12, <2>z DEF Crash, FlagType
  <2>4. RunType'
    BY <1>12 DEF Crash, RunType, ClearPause
  <2>5. ThreadType'
    BY <1>12 DEF Crash, ThreadType, Labels
  <2>6. EnvType'
    BY <1>0, <1>12, CallType DEF Crash
  <2> QED BY <2>2, <2>3, <2>4, <2>5, <2>6 DEF TypeOK
<1>13. ASSUME NEW safe \in BOOLEAN, PauseMark(safe) PROVE TypeOK'
  <2> DEFINE s == IF current = None THEN st
                  ELSE SetState(current, IF safe THEN "PAUSED" ELSE "PAUSE_REQUESTED")
  <2>1. {"PAUSED", "PAUSE_REQUESTED"} \subseteq JobStates
    BY DEF JobStates, Active
  <2>2. s \in [Jobs -> JobStates \cup {"none"}]
    BY <1>0, <2>1, SetStateType DEF ListType
  <2>3. Commit(order, s, project)
    BY <1>13 DEF PauseMark
  <2> HIDE DEF s
  <2>4. ListType'
    BY <1>0, <1>13, <2>2, <2>3, CommitType DEF idVars, PauseMark, ListType
  <2>5. FlagType'
    BY <1>0, <1>13 DEF PauseMark, FlagType, cancelVars
  <2>6. EnvType'
    BY <1>0, <1>13 DEF PauseMark, EnvType
  <2> QED BY <1>0, <1>13, <2>4, <2>5, <2>6, SameRun, SameThreads DEF PauseMark, TypeOK
<1> QED BY <1>1, <1>2, <1>3, <1>4, <1>5, <1>6, <1>7, <1>8, <1>9, <1>10, <1>11, <1>12, <1>13
        DEF SwapStep

\* Every step keeps every variable in its type.
LEMMA StepType == TypeOK /\ [Next]_vars => TypeOK'
<1>1. TypeOK /\ Next => TypeOK'
  BY EditType, ControlType, RunnerType, RunStepType DEF Next
<1>2. TypeOK /\ UNCHANGED vars => TypeOK'
  BY SameList, SameFlags, SameRun, SameThreads, SameEnv DEF TypeOK, vars
<1> QED BY <1>1, <1>2

\* TypeOK holds in every reachable state, for every number of jobs, starts,
\* single runs and user calls.
THEOREM TypeCorrect == Spec => []TypeOK
BY InitType, StepType, PTL DEF Spec

-----------------------------------------------------------------------------
(* queue.json.  Every change of the list is a Commit, so the file is what  *)
(* memory is; after a restart memory is what the file was recovered to.    *)

ListUnchanged == UNCHANGED <<order, st, project, disk>>

\* Every step either writes list and file together, leaves both alone, or is a crash.
LEMMA StepCommits ==
    ASSUME Next
    PROVE  (\E o, s, p : Commit(o, s, p)) \/ ListUnchanged \/ Crash
<1>1. CASE UserEdits
  <2>1. ASSUME NEW j \in Jobs, Add(j) \/ Remove(j) \/ Reorder(j) \/ Requeue(j)
        PROVE  \E o, s, p : Commit(o, s, p)
    BY <2>1 DEF Add, Remove, Reorder, Requeue
  <2>2. ASSUME NEW keep \in BOOLEAN, Clear(keep) PROVE \E o, s, p : Commit(o, s, p)
    BY <2>2 DEF Clear
  <2>3. ASSUME NEW j \in Jobs, NEW k \in Jobs, Duplicate(j, k) PROVE \E o, s, p : Commit(o, s, p)
    BY <2>3 DEF Duplicate
  <2>4. ASSUME RetryAll PROVE \E o, s, p : Commit(o, s, p)
    BY <2>4 DEF RetryAll
  <2> QED BY <1>1, <2>1, <2>2, <2>3, <2>4 DEF UserEdits
<1>2. CASE UserControls
  <2>1. ASSUME Start \/ PauseAsk \/ PauseSwap \/ ResumeSwap \/ StopRun PROVE ListUnchanged
    BY <2>1 DEF Start, PauseAsk, PauseSwap, ResumeSwap, StopRun, jobVars, ListUnchanged
  <2>2. ASSUME Resume \/ Stop PROVE \E o, s, p : Commit(o, s, p)
    BY <2>2 DEF Resume, Stop
  <2>3. ASSUME NEW j \in Jobs, Cancel(j) \/ ResumeJob(j) PROVE \E o, s, p : Commit(o, s, p)
    BY <2>3 DEF Cancel, ResumeJob
  <2>4. ASSUME NEW j \in Jobs, NEW start \in BOOLEAN, Rerender(j, start)
        PROVE  \E o, s, p : Commit(o, s, p)
    BY <2>4 DEF Rerender
  <2> QED BY <1>2, <2>1, <2>2, <2>3, <2>4 DEF UserControls
<1>3. ASSUME NEW r \in Runners, RunnerStep(r) \/ Checkpoint(r)
      PROVE  (\E o, s, p : Commit(o, s, p)) \/ ListUnchanged
  <2>1. ASSUME Retire(r) \/ CheckCancel(r) \/ PrepareFails(r) \/ Classify(r) PROVE ListUnchanged
    BY <2>1 DEF Retire, CheckCancel, PrepareFails, Classify, jobVars, ListUnchanged
  <2>2. ASSUME Drain(r) \/ Dispatch(r) \/ Prepare(r) \/ Book(r) \/ Checkpoint(r)
        PROVE  \E o, s, p : Commit(o, s, p)
    BY <2>2 DEF Drain, Dispatch, Prepare, Book, Checkpoint
  <2> QED BY <1>3, <2>1, <2>2 DEF RunnerStep
<1>4. ASSUME NEW t \in Threads, SwapStep(t) \/ Report(t) \/ Acknowledge(t) PROVE ListUnchanged
  BY <1>4 DEF SwapStep, Enter, Arm, RenderEnds, RunRaises, Finish, Report, Acknowledge,
              jobVars, ListUnchanged
<1>5. ASSUME NEW s \in Singles, SingleAsk(s) \/ SingleClaim(s) PROVE ListUnchanged
  BY <1>5 DEF SingleAsk, SingleClaim, jobVars, ListUnchanged
<1>6. ASSUME NEW j \in Jobs \cup {None}, StopCall(j) PROVE ListUnchanged
  BY <1>6 DEF StopCall, jobVars, ListUnchanged
<1>7. CASE BenchStart \/ BenchEnd
  BY <1>7 DEF BenchStart, BenchEnd, jobVars, ListUnchanged
<1>8. ASSUME NEW safe \in BOOLEAN, PauseMark(safe) PROVE \E o, s, p : Commit(o, s, p)
  BY <1>8 DEF PauseMark
<1> QED BY <1>1, <1>2, <1>3, <1>4, <1>5, <1>6, <1>7, <1>8 DEF Next

\* The file stays current over every step.
LEMMA DiskStep == DiskIsCurrent /\ [Next]_vars => DiskIsCurrent'
<1> SUFFICES ASSUME DiskIsCurrent, [Next]_vars PROVE DiskIsCurrent'
  OBVIOUS
<1>1. ASSUME NEW o, NEW s, NEW p, Commit(o, s, p) PROVE DiskIsCurrent'
  BY <1>1 DEF Commit, DiskIsCurrent
<1>2. CASE ListUnchanged
  BY <1>2 DEF ListUnchanged, DiskIsCurrent
<1>3. CASE Crash
  BY <1>3 DEF Crash, DiskIsCurrent, Recovered
<1>4. CASE UNCHANGED vars
  BY <1>2, <1>4 DEF vars, jobVars, ListUnchanged
<1> QED BY <1>1, <1>2, <1>3, <1>4, StepCommits

\* queue.json always describes the list in memory, or the list memory was restored from.
THEOREM DiskCurrent == Spec => []DiskIsCurrent
<1>1. Init => DiskIsCurrent
  BY DEF Init, DiskIsCurrent
<1> QED BY <1>1, DiskStep, PTL DEF Spec

\* A crash at any point keeps the list and its order, and turns exactly the
\* active jobs into recoverable ones.
THEOREM CrashSafe == Spec => CrashKeepsQueue
<1> DEFINE Keeps == Crash => /\ order' = order
                             /\ \A j \in Jobs :
                                   st'[j] = IF st[j] \in Active THEN "RECOVERABLE" ELSE st[j]
<1>1. DiskIsCurrent => Keeps
  <2> SUFFICES ASSUME DiskIsCurrent, Crash
               PROVE  /\ order' = order
                      /\ \A j \in Jobs :
                            st'[j] = IF st[j] \in Active THEN "RECOVERABLE" ELSE st[j]
    OBVIOUS
  <2>1. order' = order
    BY DEF DiskIsCurrent, Crash
  <2>2. ASSUME NEW j \in Jobs
        PROVE  st'[j] = IF st[j] \in Active THEN "RECOVERABLE" ELSE st[j]
    <3>1. st'[j] = IF disk.st[j] \in Active THEN "RECOVERABLE" ELSE disk.st[j]
      BY DEF Crash, Recovered
    <3>2. CASE disk.st = st
      BY <3>1, <3>2
    <3>3. CASE st = Recovered(disk.st)
      <4>1. st[j] = IF disk.st[j] \in Active THEN "RECOVERABLE" ELSE disk.st[j]
        BY <3>3 DEF Recovered
      <4>2. st[j] \notin Active
        BY <4>1 DEF Active
      <4> QED BY <3>1, <4>1, <4>2
    <3> QED BY <3>2, <3>3 DEF DiskIsCurrent
  <2> QED BY <2>1, <2>2
<1>2. Spec => [][Next]_vars
  BY DEF Spec
<1> HIDE DEF Keeps
<1>3. Spec => [][Keeps]_vars
  BY <1>1, <1>2, DiskCurrent, PTL
<1> QED BY <1>3 DEF CrashKeepsQueue, Keeps

-----------------------------------------------------------------------------
(* Who holds which job.  Seen from the runners, every step is one of five. *)

Off == {"idle", "top", "gone"}     \* where a runner holds no job

\* Nobody moves; at most the current job is newly marked as cancelled.
Quiet ==
    /\ UNCHANGED <<generation, current, pc, jobOf>>
    /\ flagged' \subseteq flagged \cup ({current} \ {None})

\* A new runner starts, alone unless starts may overlap.
Launched ==
    /\ UNCHANGED <<current, jobOf, flagged>>
    /\ generation < MaxStarts /\ generation' = generation + 1
    /\ pc' = [pc EXCEPT ![generation + 1] = "top"]
    /\ OverlapStarts \/ \A r \in Runners : pc[r] \in {"idle", "gone"}

\* One thread moves on and, if it is a runner, keeps its job.
Advanced(t, l) ==
    /\ UNCHANGED <<generation, current, jobOf, flagged>>
    /\ pc' = [pc EXCEPT ![t] = l]
    /\ t \in Runners => pc[t] \notin Off /\ l \notin Off

\* A runner without a job ends, with or without the batch.
Retired(r) ==
    /\ UNCHANGED <<generation, jobOf, flagged>>
    /\ current' \in {current, None}
    /\ pc[r] = "top" /\ pc' = [pc EXCEPT ![r] = "gone"]

LEMMA StepShape ==
    ASSUME TypeOK, Next
    PROVE  \/ Quiet \/ Launched \/ Crash
           \/ \E t \in Threads, l \in Labels : Advanced(t, l)
           \/ \E r \in Runners : Retired(r) \/ Dispatch(r) \/ Book(r)
<1>1. CASE UserEdits
  <2>1. UNCHANGED <<generation, current, pc, jobOf, flagged>>
    BY <1>1 DEF UserEdits, Add, Remove, Clear, Reorder, Requeue, RetryAll, Duplicate,
                flagVars, cancelVars, threadVars
  <2> QED BY <2>1 DEF Quiet
<1>2. ASSUME NEW s, MayStart(s), Launch, UNCHANGED <<jobOf, flagged>> PROVE Launched
  BY <1>2 DEF MayStart, Launch, Launched
<1>3. ASSUME NEW s, StartIfAllowed(s), UNCHANGED <<jobOf, flagged>> PROVE Quiet \/ Launched
  <2>1. CASE MayStart(s)
    BY <1>2, <1>3, <2>1 DEF StartIfAllowed
  <2>2. CASE ~MayStart(s)
    BY <1>3, <2>2 DEF StartIfAllowed, Quiet, flagVars
  <2> QED BY <2>1, <2>2
<1>4. CASE UserControls
  <2>1. ASSUME Start PROVE Launched
    BY <1>2, <2>1 DEF Start, cancelVars
  <2>2. ASSUME PauseAsk \/ Resume \/ PauseSwap \/ ResumeSwap \/ StopRun PROVE Quiet
    BY <2>2 DEF PauseAsk, Resume, PauseSwap, ResumeSwap, StopRun, Quiet, flagVars, cancelVars,
                threadVars
  <2>3. ASSUME Stop PROVE Quiet
    BY <2>3 DEF Stop, EndBatch, Quiet, threadVars
  <2>4. ASSUME NEW j \in Jobs, Cancel(j) PROVE Quiet
    <3>1. j # None
      BY ConstantsAssumption DEF ConstantsAssumption
    <3> QED BY <2>4, <3>1 DEF Cancel, Quiet, flagVars, threadVars
  <2>5. ASSUME NEW j \in Jobs, ResumeJob(j) PROVE Quiet \/ Launched
    BY <1>3, <2>5 DEF ResumeJob
  <2>6. ASSUME NEW j \in Jobs, NEW start \in BOOLEAN, Rerender(j, start)
        PROVE  Quiet \/ Launched
    <3>1. CASE start
      BY <1>3, <2>6, <3>1 DEF Rerender
    <3>2. CASE ~start
      BY <2>6, <3>2 DEF Rerender, Quiet, flagVars
    <3> QED BY <3>1, <3>2
  <2> QED BY <1>4, <2>1, <2>2, <2>3, <2>4, <2>5, <2>6 DEF UserControls
<1>5. ASSUME NEW r \in Runners, Retire(r) \/ Drain(r) PROVE Retired(r)
  BY <1>5 DEF Retire, Drain, MayDispatch, Retired, Goto, flagVars, cancelVars
<1>6. ASSUME NEW r \in Runners,
             CheckCancel(r) \/ PrepareFails(r) \/ Prepare(r) \/ Classify(r)
      PROVE  \E l \in Labels : Advanced(r, l)
  <2>1. CASE CheckCancel(r)
    BY <2>1 DEF CheckCancel, Advanced, Goto, Off, Labels, flagVars, cancelVars
  <2>2. CASE PrepareFails(r)
    BY <2>2 DEF PrepareFails, Advanced, Goto, Off, Labels, flagVars, cancelVars
  <2>3. CASE Prepare(r)
    BY <2>3 DEF Prepare, Advanced, Goto, Off, Labels, flagVars, cancelVars
  <2>4. CASE Classify(r)
    BY <2>4 DEF Classify, Advanced, Goto, Off, Labels, flagVars, cancelVars
  <2> QED BY <1>6, <2>1, <2>2, <2>3, <2>4
<1>7. ASSUME NEW t \in Threads, SwapStep(t) PROVE \E l \in Labels : Advanced(t, l)
  <2>1. CASE Enter(t)
    BY <2>1 DEF Enter, Advanced, Goto, Off, Labels, flagVars, cancelVars
  <2>2. CASE Arm(t)
    BY <2>2 DEF Arm, Advanced, Goto, Off, Labels, flagVars, cancelVars
  <2>3. CASE RenderEnds(t)
    BY <2>3 DEF RenderEnds, Advanced, Goto, Off, Labels, flagVars, cancelVars
  <2>4. CASE RunRaises(t)
    BY <2>4 DEF RunRaises, Advanced, Goto, Off, Labels, flagVars, cancelVars
  <2>5. CASE Finish(t)
    BY <2>5 DEF Finish, Advanced, Goto, Off, Labels, flagVars, cancelVars
  <2> QED BY <1>7, <2>1, <2>2, <2>3, <2>4, <2>5 DEF SwapStep
<1>8. ASSUME NEW s \in Singles, SingleAsk(s) \/ SingleClaim(s)
      PROVE  \E l \in Labels : Advanced(s, l)
  <2>1. s \notin Runners
    BY ConstantsAssumption DEF ConstantsAssumption
  <2> QED BY <1>8, <2>1 DEF SingleAsk, SingleClaim, Advanced, Goto, Labels, flagVars, cancelVars
<1>9. ASSUME NEW t \in Threads, Report(t) \/ Acknowledge(t) PROVE Quiet
  BY <1>9 DEF Report, Acknowledge, Quiet, flagVars, cancelVars, threadVars
<1>10. ASSUME NEW r \in Runners, Checkpoint(r) PROVE Quiet
  BY <1>10 DEF Checkpoint, Quiet, flagVars, cancelVars, threadVars
<1>11. ASSUME NEW j \in Jobs \cup {None}, StopCall(j) PROVE Quiet
  BY <1>11 DEF StopCall, Quiet, flagVars, cancelVars, threadVars
<1>12. CASE BenchStart \/ BenchEnd
  <2>1. Quiet
    BY <1>12 DEF BenchStart, BenchEnd, Quiet, flagVars, cancelVars, threadVars
  <2> QED BY <2>1
<1>13. ASSUME NEW r \in Runners, RunnerStep(r)
       PROVE  \/ \E l \in Labels : Advanced(r, l)
              \/ Retired(r) \/ Dispatch(r) \/ Book(r)
  BY <1>5, <1>6, <1>13 DEF RunnerStep
<1>14. ASSUME NEW safe \in BOOLEAN, PauseMark(safe) PROVE Quiet
  BY <1>14 DEF PauseMark, Quiet, cancelVars, threadVars
<1>15. Runners \subseteq Threads /\ Singles \subseteq Threads
  BY DEF Threads
<1> QED BY <1>1, <1>4, <1>7, <1>8, <1>9, <1>10, <1>11, <1>12, <1>13, <1>14, <1>15 DEF Next


-----------------------------------------------------------------------------
(* The cancel flags.  A flag is only ever set for the current job, and the *)
(* current job is in a runner's hands, so the invariant carries both.      *)

\* Runners the queue has not started yet are idle.
Unstarted == \A r \in Runners : r > generation => pc[r] = "idle"

\* The current job is in some runner's hands.
CurrentHeld == current # None => \E r \in Runners : Holds(r, current)

HeldInv == Unstarted /\ CurrentHeld /\ FlagHasRunner

\* Holds in terms of the labels where a runner has no job.
LEMMA HoldsOff == \A r \in Runners : \A j : Holds(r, j) <=> jobOf[r] = j /\ pc[r] \notin Off
BY DEF Holds, Off

LEMMA HeldStep == TypeOK /\ HeldInv /\ [Next]_vars => HeldInv'
<1> SUFFICES ASSUME TypeOK, HeldInv, [Next]_vars PROVE HeldInv'
  OBVIOUS
<1>a. generation \in Nat /\ current \in Jobs \cup {None} /\ flagged \subseteq Jobs
  BY ConstantsAssumption DEF TypeOK, FlagType, ConstantsAssumption
<1>b. pc \in [Threads -> Labels] /\ jobOf \in [Threads -> Jobs \cup {None}]
  BY DEF TypeOK, ThreadType
<1>c. Runners \subseteq Threads /\ Runners \subseteq Nat
  BY DEF Threads, Runners
<1>d. \A r \in Runners : \A j : Holds(r, j)' <=> jobOf'[r] = j /\ pc'[r] \notin Off
  BY DEF Holds, Off
<1>1. CASE Quiet
  <2>1. \A r \in Runners : \A j : Holds(r, j)' <=> Holds(r, j)
    BY <1>1 DEF Quiet, Holds
  <2>2. Unstarted' /\ CurrentHeld'
    BY <1>1, <2>1 DEF Quiet, HeldInv, Unstarted, CurrentHeld
  <2>3. FlagHasRunner'
    BY <1>1, <2>1 DEF Quiet, HeldInv, CurrentHeld, FlagHasRunner
  <2> QED BY <2>2, <2>3 DEF HeldInv
<1>2. CASE Launched
  <2>1. generation + 1 \in Runners /\ generation + 1 > generation
    BY <1>2, <1>a, ConstantsAssumption DEF Launched, Runners, ConstantsAssumption
  <2>2. \A r \in Runners : r > generation + 1 => r > generation /\ r # generation + 1
    BY <1>a, <1>c
  <2>3. pc[generation + 1] = "idle"
    BY <2>1 DEF HeldInv, Unstarted
  <2>4. Unstarted'
    BY <1>2, <1>b, <1>c, <2>1, <2>2 DEF Launched, HeldInv, Unstarted
  <2>5. \A r \in Runners : \A j : Holds(r, j)' <=> Holds(r, j)
    BY <1>2, <1>b, <1>c, <1>d, <2>1, <2>3, HoldsOff DEF Launched, Off
  <2>6. CurrentHeld' /\ FlagHasRunner'
    BY <1>2, <2>5 DEF Launched, HeldInv, CurrentHeld, FlagHasRunner
  <2> QED BY <2>4, <2>6 DEF HeldInv
<1>3. ASSUME NEW t \in Threads, NEW l \in Labels, Advanced(t, l) PROVE HeldInv'
  <2>1. \A r \in Runners : \A j : Holds(r, j)' <=> Holds(r, j)
    BY <1>3, <1>b, <1>c, <1>d, HoldsOff DEF Advanced
  <2>2. Unstarted'
    BY <1>3, <1>b, <1>c DEF Advanced, HeldInv, Unstarted, Off
  <2>3. CurrentHeld' /\ FlagHasRunner'
    BY <1>3, <2>1 DEF Advanced, HeldInv, CurrentHeld, FlagHasRunner
  <2> QED BY <2>2, <2>3 DEF HeldInv
<1>4. ASSUME NEW r \in Runners, Retired(r) PROVE HeldInv'
  <2>1. \A q \in Runners : \A j : Holds(q, j)' <=> Holds(q, j)
    BY <1>4, <1>b, <1>c, <1>d, HoldsOff DEF Retired, Off
  <2>2. Unstarted'
    BY <1>4, <1>b, <1>c DEF Retired, HeldInv, Unstarted
  <2>3. CurrentHeld' /\ FlagHasRunner'
    BY <1>4, <2>1 DEF Retired, HeldInv, CurrentHeld, FlagHasRunner
  <2> QED BY <2>2, <2>3 DEF HeldInv
<1>5. ASSUME NEW r \in Runners, Dispatch(r) PROVE HeldInv'
  <2>0. /\ pc[r] = "top" /\ pc' = [pc EXCEPT ![r] = "prep"]
        /\ jobOf' = [jobOf EXCEPT ![r] = current']
        /\ generation' = generation /\ flagged' = flagged
    BY <1>5, <1>b, <1>c DEF Dispatch, MayDispatch, Goto
  <2>1. Holds(r, current)'
    BY <2>0, <1>b, <1>c DEF Holds, Off
  <2>2. \A q \in Runners : \A j : Holds(q, j) => Holds(q, j)'
    BY <2>0, <1>b, <1>c, <1>d, HoldsOff DEF Off
  <2>3. Unstarted'
    BY <2>0, <1>b, <1>c DEF HeldInv, Unstarted
  <2>4. CurrentHeld'
    BY <2>1 DEF CurrentHeld
  <2>5. FlagHasRunner'
    BY <2>0, <2>2 DEF HeldInv, FlagHasRunner
  <2> QED BY <2>3, <2>4, <2>5 DEF HeldInv
<1>6. ASSUME NEW r \in Runners, Book(r) PROVE HeldInv'
  <2>0. /\ pc[r] = "book" /\ pc' = [pc EXCEPT ![r] = "top"]
        /\ jobOf' = [jobOf EXCEPT ![r] = None]
        /\ generation' = generation /\ current' = None
        /\ flagged' = flagged \ {jobOf[r]}
    BY <1>6 DEF Book, Uncancel, Goto
  <2>1. \A q \in Runners : \A j : Holds(q, j) /\ j # jobOf[r] => Holds(q, j)'
    BY <2>0, <1>b, <1>c, <1>d, HoldsOff
  <2>2. Unstarted'
    BY <2>0, <1>b, <1>c DEF HeldInv, Unstarted
  <2>3. CurrentHeld'
    BY <2>0 DEF CurrentHeld
  <2>4. FlagHasRunner'
    BY <2>0, <2>1 DEF HeldInv, FlagHasRunner
  <2> QED BY <2>2, <2>3, <2>4 DEF HeldInv
<1>7. CASE Crash
  <2>1. Unstarted' /\ CurrentHeld' /\ FlagHasRunner'
    BY <1>7, <1>c DEF Crash, Unstarted, CurrentHeld, FlagHasRunner
  <2> QED BY <2>1 DEF HeldInv
<1>8. CASE UNCHANGED vars
  <2>1. Quiet
    BY <1>8 DEF Quiet, vars, flagVars, cancelVars, threadVars
  <2> QED BY <1>1, <2>1
<1> QED BY <1>1, <1>2, <1>3, <1>4, <1>5, <1>6, <1>7, <1>8, StepShape

\* A cancel flag is always for a job that a runner holds, however starts, stops,
\* cancels and retries interleave: none is left to hit a later run of the job.
THEOREM FlagHeld == Spec => []FlagHasRunner
<1>1. Init => HeldInv
  <2>1. Runners \subseteq Threads
    BY DEF Threads
  <2> QED BY <2>1 DEF Init, HeldInv, Unstarted, CurrentHeld, FlagHasRunner
<1>2. HeldInv => FlagHasRunner
  BY DEF HeldInv
<1> QED BY <1>1, <1>2, HeldStep, TypeCorrect, PTL DEF Spec

-----------------------------------------------------------------------------
(* One runner at a time.  When a batch is only started after the last      *)
(* runner retired, at most one runner is alive and the job it holds is the *)
(* current one.                                                            *)

AloneInv ==
    /\ \A r, q \in Runners : pc[r] \notin {"idle", "gone"} /\ pc[q] \notin {"idle", "gone"} => r = q
    /\ \A r \in Runners : pc[r] \notin Off => current = jobOf[r]

LEMMA AloneStep == ~OverlapStarts /\ TypeOK /\ AloneInv /\ [Next]_vars => AloneInv'
<1> SUFFICES ASSUME ~OverlapStarts, TypeOK, AloneInv, [Next]_vars PROVE AloneInv'
  OBVIOUS
<1>b. pc \in [Threads -> Labels] /\ jobOf \in [Threads -> Jobs \cup {None}]
  BY DEF TypeOK, ThreadType
<1>c. Runners \subseteq Threads
  BY DEF Threads
<1>1. CASE Quiet
  BY <1>1 DEF Quiet, AloneInv
<1>2. CASE Launched
  BY <1>2, <1>b, <1>c DEF Launched, AloneInv, Off
<1>3. ASSUME NEW t \in Threads, NEW l \in Labels, Advanced(t, l) PROVE AloneInv'
  BY <1>3, <1>b, <1>c DEF Advanced, AloneInv, Off
<1>4. ASSUME NEW r \in Runners, Retired(r) PROVE AloneInv'
  BY <1>4, <1>b, <1>c DEF Retired, AloneInv, Off
<1>5. ASSUME NEW r \in Runners, Dispatch(r) PROVE AloneInv'
  <2>1. /\ pc[r] = "top" /\ pc' = [pc EXCEPT ![r] = "prep"]
        /\ jobOf' = [jobOf EXCEPT ![r] = current']
    BY <1>5, <1>b, <1>c DEF Dispatch, MayDispatch, Goto
  <2> QED BY <2>1, <1>b, <1>c DEF AloneInv, Off
<1>6. ASSUME NEW r \in Runners, Book(r) PROVE AloneInv'
  <2>1. /\ pc[r] = "book" /\ pc' = [pc EXCEPT ![r] = "top"]
        /\ jobOf' = [jobOf EXCEPT ![r] = None]
    BY <1>6 DEF Book, Goto
  <2> QED BY <2>1, <1>b, <1>c DEF AloneInv, Off
<1>7. CASE Crash
  BY <1>7, <1>c DEF Crash, AloneInv, Off
<1>8. CASE UNCHANGED vars
  BY <1>8 DEF AloneInv, vars, flagVars, threadVars
<1> QED BY <1>1, <1>2, <1>3, <1>4, <1>5, <1>6, <1>7, <1>8, StepShape

\* Without overlapping starts the job being rendered is always the current one,
\* so the guards of remove, clear and rerender protect it, for any number of
\* single runs, stops, cancels and crashes.
THEOREM RenderGuarded == ASSUME ~OverlapStarts PROVE Spec => []RenderIsCurrent
<1>1. Init => AloneInv
  <2>1. Runners \subseteq Threads
    BY DEF Threads
  <2> QED BY <2>1 DEF Init, AloneInv, Off
<1>2. AloneInv => RenderIsCurrent
  BY DEF AloneInv, RenderIsCurrent, Off
<1>3. TypeOK /\ AloneInv /\ [Next]_vars => AloneInv'
  BY AloneStep
<1> QED BY <1>1, <1>2, <1>3, TypeCorrect, PTL DEF Spec

-----------------------------------------------------------------------------
(***************************************************************************)
(* The job list seen against the runners, for every set of jobs and any    *)
(* number of starts, single runs and calls: an active job is in a runner's *)
(* hands, and the queue implements JobLifecycle.  Both need starts that do *)
(* not overlap, and no clones: a clone shares the project of its original, *)
(* so a checkpoint of the one marks the other.                             *)
(***************************************************************************)


\* No job is ever duplicated.
NoClones == [][\A j, k \in Jobs : ~Duplicate(j, k)]_vars

\* A job list that names a job once, and the jobs it names.
Once(s)      == \A h, k \in DOMAIN s : s[h] = s[k] => h = k
Within(s, j) == \E h \in DOMAIN s : s[h] = j

\* The list names a job once, a job has a state exactly if it is listed, and an
\* id that was not handed out yet is neither listed nor the current job.
ListInv ==
    /\ Once(order)
    /\ \A j \in Jobs : Within(order, j) <=> st[j] # "none"
    /\ \A j \in fresh : ~Within(order, j)
    /\ current \notin fresh

\* A job is active exactly while it is listed and the current one.
ActiveInv == \A j \in Jobs : st[j] \in Active <=> Within(order, j) /\ current = j

\* From the claim of the run globals to the end of _run_swap.
Claimed == {"claimed", "entered", "render", "finish"}

\* A project is the one of its own job, a runner that is not between jobs has a
\* job, a claimed job has a project, and a runner that books has a verdict.
ProjectInv ==
    /\ \A j \in Jobs : project[j] \in {None, j}
    /\ \A r \in Runners : pc[r] \notin Off => jobOf[r] \in Jobs
    /\ \A r \in Runners : pc[r] \in Claimed => project[jobOf[r]] # None
    /\ \A r \in Runners : pc[r] = "book" => verdict[r] # "none"

LEMMA ListedWithin == \A j : Listed(j) <=> Within(order, j)
BY DEF Listed, Positions, Within

\* Removing a position of a list without repetition takes exactly its job away.
LEMMA WithoutOne ==
    ASSUME NEW s \in Seq(Jobs), Once(s), NEW i \in DOMAIN s
    PROVE  /\ Once(Without(s, i))
           /\ \A j : Within(Without(s, i), j) <=> Within(s, j) /\ j # s[i]
<1> DEFINE w == Without(s, i)
<1>1. Len(s) \in Nat /\ DOMAIN s = 1 .. Len(s) /\ DOMAIN w = 1 .. Len(s) - 1
  BY SMT DEF Without
<1>2. \A k \in DOMAIN w : w[k] = IF k < i THEN s[k] ELSE s[k + 1]
  BY <1>1 DEF Without
<1> HIDE DEF w
<1>3. Once(w)
  BY <1>1, <1>2, SMT DEF Once
<1>4. ASSUME NEW j, Within(w, j) PROVE Within(s, j) /\ j # s[i]
  <2>1. PICK k \in DOMAIN w : w[k] = j
    BY <1>4 DEF Within
  <2>2. CASE k < i
    BY <1>1, <1>2, <2>1, <2>2, SMT DEF Within, Once
  <2>3. CASE ~(k < i)
    BY <1>1, <1>2, <2>1, <2>3, SMT DEF Within, Once
  <2> QED BY <2>2, <2>3
<1>5. ASSUME NEW j, Within(s, j), j # s[i] PROVE Within(w, j)
  <2>1. PICK k \in DOMAIN s : s[k] = j
    BY <1>5 DEF Within
  <2>2. CASE k < i
    <3>1. k \in DOMAIN w /\ w[k] = j
      BY <1>1, <1>2, <2>1, <2>2, SMT
    <3> QED BY <3>1 DEF Within
  <2>3. CASE k > i
    <3>1. k - 1 \in DOMAIN w /\ w[k - 1] = j
      BY <1>1, <1>2, <2>1, <2>3, SMT
    <3> QED BY <3>1 DEF Within
  <2> QED BY <1>1, <1>5, <2>1, <2>2, <2>3
<1> QED BY <1>3, <1>4, <1>5 DEF w

\* Putting a job that is not in the list first or last adds exactly that job.
LEMMA WithOne ==
    ASSUME NEW s \in Seq(Jobs), Once(s), NEW j \in Jobs, ~Within(s, j)
    PROVE  /\ Once(Append(s, j)) /\ Once(<<j>> \o s)
           /\ \A k : Within(Append(s, j), k) <=> Within(s, k) \/ k = j
           /\ \A k : Within(<<j>> \o s, k) <=> Within(s, k) \/ k = j
<1> DEFINE a == Append(s, j)
           p == <<j>> \o s
<1>1. Len(s) \in Nat /\ DOMAIN s = 1 .. Len(s)
  BY SMT
<1>2. /\ DOMAIN a = 1 .. Len(s) + 1 /\ a[Len(s) + 1] = j
      /\ \A h \in DOMAIN s : a[h] = s[h]
  BY SMT
<1>3. /\ DOMAIN p = 1 .. Len(s) + 1 /\ p[1] = j
      /\ \A h \in DOMAIN s : p[h + 1] = s[h]
  BY SMT
<1> HIDE DEF a, p
<1>4. Once(a)
  BY <1>1, <1>2, SMT DEF Once, Within
<1>5. \A h \in DOMAIN p : h = 1 \/ (h - 1 \in DOMAIN s /\ p[h] = s[h - 1])
  BY <1>1, <1>3, SMT
<1>6. Once(p)
  BY <1>1, <1>3, <1>5, SMT DEF Once, Within
<1>7. \A h \in DOMAIN s : h \in DOMAIN a /\ h + 1 \in DOMAIN p
  BY <1>1, <1>2, <1>3, SMT
<1>8. Len(s) + 1 \in DOMAIN a /\ 1 \in DOMAIN p
  BY <1>1, <1>2, <1>3, SMT
<1>9. \A h \in DOMAIN a : h = Len(s) + 1 \/ h \in DOMAIN s
  BY <1>1, <1>2, SMT
<1>10. \A k : Within(a, k) <=> Within(s, k) \/ k = j
  BY <1>2, <1>7, <1>8, <1>9 DEF Within
<1>11. \A k : Within(p, k) <=> Within(s, k) \/ k = j
  BY <1>3, <1>5, <1>7, <1>8 DEF Within
<1> QED BY <1>4, <1>6, <1>10, <1>11 DEF a, p

-----------------------------------------------------------------------------
(* What a step does to the list, seen from the current job.                *)

Inv == /\ TypeOK /\ HeldInv /\ AloneInv /\ DiskIsCurrent
       /\ ListInv /\ ActiveInv /\ ProjectInv

\* List and current job stay, at most the order changes.
Idle == /\ UNCHANGED <<st, fresh, current>> /\ Once(order)'
        /\ \A j : Within(order, j)' <=> Within(order, j)

\* The list stays; only states are written.
Steady == UNCHANGED <<order, fresh, current>>

\* The current job takes another active state.
Marked == Steady /\ current \in Jobs /\ \E s \in Active : st' = SetState(current, s)

\* Listed jobs that are not active are queued.
Asked(S) ==
    /\ Steady
    /\ S \subseteq {j \in Jobs : Within(order, j) /\ st[j] \notin Active}
    /\ st' = [j \in Jobs |-> IF j \in S THEN "QUEUED" ELSE st[j]]

\* A listed job other than the current one is cancelled.
Withdrawn(j) ==
    /\ Steady /\ j \in Jobs /\ Within(order, j) /\ current # j
    /\ st' = [st EXCEPT ![j] = "CANCELLED"]

\* A new job enters.
Arrived(j) ==
    /\ j \in fresh /\ fresh' = fresh \ {j} /\ current' = current
    /\ st' = [st EXCEPT ![j] = "QUEUED"]
    /\ Once(order)' /\ \A k : Within(order, k)' <=> Within(order, k) \/ k = j

\* Jobs leave: all of them, or some without the current one.
Left(S) ==
    /\ UNCHANGED <<fresh, current>> /\ S \subseteq Jobs /\ (S = Jobs \/ current \notin S)
    /\ st' = [j \in Jobs |-> IF j \in S THEN "none" ELSE st[j]]
    /\ Once(order)' /\ \A j \in Jobs : Within(order, j)' <=> Within(order, j) /\ j \notin S

\* A job becomes the current one.
Begun(j) ==
    /\ UNCHANGED <<order, fresh>> /\ current = None /\ current' = j
    /\ j \in Jobs /\ Within(order, j) /\ st[j] \in Runnable
    /\ st' = [st EXCEPT ![j] = "PREPARING"]

\* The current job is booked.
Booked ==
    /\ UNCHANGED <<order, fresh>> /\ current \in Jobs /\ current' = None
    /\ \E v \in Done \cup {"RECOVERABLE"} : st' = SetState(current, v)

\* The list comes back after a crash.
Restarted == UNCHANGED <<order, fresh>> /\ current' = None /\ st' = Recovered(st)

ListStep ==
    \/ Idle \/ Marked \/ Booked \/ Restarted
    \/ \E S \in SUBSET Jobs : Asked(S) \/ Left(S)
    \/ \E j \in Jobs : Withdrawn(j) \/ Arrived(j) \/ Begun(j)

\* Nothing happened to the list.
LEMMA IdleStep == ListInv /\ UNCHANGED <<order, st, fresh, current>> => Idle
BY DEF ListInv, Idle, Once, Within

\* A runner that is alive holds the current job, if there is one.
LEMMA Holder ==
    ASSUME HeldInv, AloneInv, NEW r \in Runners, pc[r] \notin {"idle", "gone"}
    PROVE  /\ current # None => pc[r] \notin Off /\ jobOf[r] = current
           /\ pc[r] \notin Off => jobOf[r] = current
<1>1. ASSUME current # None PROVE pc[r] \notin Off /\ jobOf[r] = current
  <2>1. PICK q \in Runners : Holds(q, current)
    BY <1>1 DEF HeldInv, CurrentHeld
  <2>2. pc[q] \notin Off /\ jobOf[q] = current
    BY <2>1, HoldsOff
  <2>3. q = r
    BY <2>2 DEF AloneInv, Off
  <2> QED BY <2>2, <2>3
<1> QED BY <1>1 DEF AloneInv

\* Editing the list.
LEMMA EditKinds == Inv /\ UserEdits /\ (\A j, k \in Jobs : ~Duplicate(j, k)) => ListStep
<1> SUFFICES ASSUME Inv, UserEdits, \A j, k \in Jobs : ~Duplicate(j, k) PROVE ListStep
  OBVIOUS
<1>0. /\ order \in Seq(Jobs) /\ st \in [Jobs -> JobStates \cup {"none"}] /\ fresh \subseteq Jobs
      /\ Once(order) /\ current \in Jobs \cup {None} /\ ListInv
  BY DEF Inv, ListInv, TypeOK, ListType, FlagType
<1>1. ASSUME NEW j \in Jobs, Add(j) PROVE Arrived(j)
  <2>1. /\ j \in fresh /\ fresh' = fresh \ {j} /\ current' = current
        /\ order' = Append(order, j) /\ st' = [st EXCEPT ![j] = "QUEUED"]
    BY <1>1 DEF Add, Commit, flagVars
  <2>2. ~Within(order, j)
    BY <1>0, <2>1 DEF ListInv
  <2>3. Once(order') /\ \A k : Within(order', k) <=> Within(order, k) \/ k = j
    BY <1>0, <2>1, <2>2, WithOne
  <2> QED BY <2>1, <2>3 DEF Arrived, Once, Within
<1>2. ASSUME NEW j \in Jobs, Remove(j) PROVE Left({j})
  <2>1. PICK i \in DOMAIN order : order[i] = j /\ order' = Without(order, i)
    BY <1>2 DEF Remove, Commit, Positions
  <2>2. /\ current # j /\ UNCHANGED <<fresh, current>>
        /\ st' = [st EXCEPT ![j] = "none"]
    BY <1>2 DEF Remove, Commit, flagVars, idVars
  <2>3. st' = [k \in Jobs |-> IF k \in {j} THEN "none" ELSE st[k]]
    BY <1>0, <2>2
  <2>4. Once(order') /\ \A k : Within(order', k) <=> Within(order, k) /\ k # j
    BY <1>0, <2>1, WithoutOne
  <2> QED BY <2>2, <2>3, <2>4 DEF Left, Once, Within
<1>3. ASSUME NEW j \in Jobs, Reorder(j) PROVE Idle
  <2>1. PICK i \in DOMAIN order : order[i] = j /\ order' = <<j>> \o Without(order, i)
    BY <1>3 DEF Reorder, Commit, Positions
  <2>2. UNCHANGED <<st, fresh, current>>
    BY <1>3 DEF Reorder, Commit, flagVars, idVars
  <2> DEFINE w == Without(order, i)
  <2>3. w \in Seq(Jobs) /\ Once(w) /\ \A k : Within(w, k) <=> Within(order, k) /\ k # j
    BY <1>0, <2>1, WithoutOne, WithoutType
  <2>w. order' = <<j>> \o w
    BY <2>1
  <2> HIDE DEF w
  <2>4. Once(order') /\ \A k : Within(order', k) <=> Within(w, k) \/ k = j
    BY <2>3, <2>w, WithOne
  <2>5. Within(order, j)
    BY <2>1 DEF Within
  <2>6. \A k : Within(order', k) <=> Within(order, k)
    BY <2>3, <2>4, <2>5
  <2> QED BY <2>2, <2>4, <2>6 DEF Idle, Once, Within
<1>4. ASSUME NEW j \in Jobs, Requeue(j) PROVE Asked({j})
  <2>1. st' = [k \in Jobs |-> IF k \in {j} THEN "QUEUED" ELSE st[k]]
    BY <1>0, <1>4 DEF Requeue, Commit
  <2> QED BY <1>4, <2>1, ListedWithin DEF Requeue, Commit, Asked, Steady, flagVars, idVars
<1>5. ASSUME NEW keep \in BOOLEAN, Clear(keep) PROVE \E S \in SUBSET Jobs : Left(S)
  <2> DEFINE left == IF keep /\ current # None THEN {current} ELSE {}
  <2>1. /\ order' = IF left # {} /\ Listed(current) THEN <<current>> ELSE <<>>
        /\ st' = [j \in Jobs |-> IF j \in left THEN st[j] ELSE "none"]
        /\ UNCHANGED <<fresh, current>>
    BY <1>5 DEF Clear, Commit, idVars
  <2>2. st' = [j \in Jobs |-> IF j \in Jobs \ left THEN "none" ELSE st[j]]
    BY <2>1
  <2>3. Jobs \ left = Jobs \/ current \notin Jobs \ left
    OBVIOUS
  <2>4. Once(order')
    BY <1>0, <2>1 DEF Once
  <2>5. \A j \in Jobs : Within(order', j) <=> Within(order, j) /\ j \in left
    <3>1. CASE left # {} /\ Listed(current)
      <4>1. \A j : Within(<<current>>, j) <=> j = current
        BY DEF Within
      <4>2. left = {current} /\ Within(order, current)
        BY <3>1, ListedWithin
      <4> QED BY <2>1, <3>1, <4>1, <4>2
    <3>2. CASE ~(left # {} /\ Listed(current))
      <4>1. \A j : ~Within(<<>>, j)
        BY DEF Within
      <4>2. \A j \in left : ~Within(order, j)
        BY <3>2, ListedWithin
      <4> QED BY <2>1, <3>2, <4>1, <4>2
    <3> QED BY <3>1, <3>2
  <2> HIDE DEF left
  <2>6. Left(Jobs \ left)
    BY <2>1, <2>2, <2>3, <2>4, <2>5 DEF Left, Once, Within
  <2> QED BY <2>6
<1>6. ASSUME RetryAll PROVE \E S \in SUBSET Jobs : Asked(S)
  <2> DEFINE failed == {j \in Jobs : st[j] \in {"FAILED", "CANCELLED", "INTERRUPTED"}}
  <2>1. st' = [j \in Jobs |-> IF j \in failed THEN "QUEUED" ELSE st[j]] /\ Steady
    BY <1>6 DEF RetryAll, Commit, Steady, flagVars, idVars
  <2>2. \A j \in failed : Within(order, j) /\ st[j] \notin Active
    BY <1>0 DEF ListInv, Active
  <2> QED BY <2>1, <2>2 DEF Asked
<1> QED BY <1>0, <1>1, <1>2, <1>3, <1>4, <1>5, <1>6 DEF UserEdits, ListStep

\* Starting, resuming, pausing, cancelling and stopping.
LEMMA ControlKinds == Inv /\ UserControls => ListStep
<1> SUFFICES ASSUME Inv, UserControls PROVE ListStep
  OBVIOUS
<1>0. /\ order \in Seq(Jobs) /\ st \in [Jobs -> JobStates \cup {"none"}] /\ fresh \subseteq Jobs
      /\ current \in Jobs \cup {None} /\ ListInv /\ ActiveInv
  BY DEF Inv, TypeOK, ListType, FlagType
<1>a. {"PREPARING", "PROCESSING", "PAUSE_REQUESTED", "PAUSED"} = Active
  BY DEF Active
<1>s. ASSUME NEW s, StartIfAllowed(s) PROVE current' = current
  BY <1>s DEF StartIfAllowed, Launch, flagVars
<1>1. ASSUME Start PROVE Idle
  BY <1>0, <1>1, IdleStep DEF Start, Launch, jobVars, idVars
<1>2. ASSUME PauseAsk \/ PauseSwap \/ ResumeSwap \/ StopRun PROVE Idle
  BY <1>0, <1>2, IdleStep DEF PauseAsk, PauseSwap, ResumeSwap, StopRun, jobVars, idVars, flagVars
<1>3. ASSUME Resume PROVE ListStep
  <2>1. Steady
    BY <1>3 DEF Resume, Commit, Steady, idVars
  <2>2. CASE current # None /\ st[current] \in {"PAUSE_REQUESTED", "PAUSED"}
    <3>1. st' = SetState(current, "PROCESSING")
      BY <1>3, <2>2 DEF Resume, Commit
    <3> QED BY <1>0, <1>a, <2>1, <2>2, <3>1 DEF Marked, ListStep
  <2>3. CASE ~(current # None /\ st[current] \in {"PAUSE_REQUESTED", "PAUSED"})
    <3>1. st' = st
      BY <1>3, <2>3 DEF Resume, Commit
    <3> QED BY <1>0, <2>1, <3>1, IdleStep DEF Steady, ListStep
  <2> QED BY <2>2, <2>3
<1>4. ASSUME Stop PROVE Idle
  BY <1>0, <1>4, IdleStep DEF Stop, EndBatch, Commit, idVars
<1>5. ASSUME NEW j \in Jobs, Cancel(j) PROVE ListStep
  <2>1. Steady /\ Within(order, j)
    BY <1>5, ListedWithin DEF Cancel, Commit, Steady, idVars, flagVars
  <2>2. CASE current = j
    <3>1. st' = st
      BY <1>5, <2>2 DEF Cancel, Commit
    <3> QED BY <1>0, <2>1, <3>1, IdleStep DEF Steady, ListStep
  <2>3. CASE current # j
    <3>1. st' = [st EXCEPT ![j] = "CANCELLED"]
      BY <1>5, <2>3 DEF Cancel, Commit
    <3> QED BY <2>1, <2>3, <3>1 DEF Withdrawn, ListStep
  <2> QED BY <2>2, <2>3
<1>6. ASSUME NEW j \in Jobs, ResumeJob(j) PROVE ListStep
  <2>1. PICK i \in DOMAIN order :
           /\ st[order[i]] \notin Active
           /\ Commit(order, [st EXCEPT ![order[i]] = "QUEUED"], project)
           /\ StartIfAllowed([st EXCEPT ![order[i]] = "QUEUED"])
    BY <1>6 DEF ResumeJob
  <2>2. order[i] \in Jobs /\ Within(order, order[i])
    BY <1>0 DEF Within
  <2>3. Steady
    BY <1>6, <1>s, <2>1 DEF ResumeJob, Commit, Steady, idVars
  <2>4. st' = [k \in Jobs |-> IF k \in {order[i]} THEN "QUEUED" ELSE st[k]]
    BY <1>0, <2>1 DEF Commit
  <2>5. Asked({order[i]})
    BY <2>1, <2>2, <2>3, <2>4 DEF Asked
  <2>6. {order[i]} \in SUBSET Jobs
    BY <2>2
  <2> QED BY <2>5, <2>6 DEF ListStep
<1>7. ASSUME NEW j \in Jobs, NEW start \in BOOLEAN, Rerender(j, start) PROVE ListStep
  <2>1. /\ Within(order, j) /\ current # j /\ UNCHANGED <<order, fresh>>
        /\ st' = [st EXCEPT ![j] = "QUEUED"]
    BY <1>7, ListedWithin DEF Rerender, Commit, idVars
  <2>2. current' = current
    BY <1>7, <1>s DEF Rerender, flagVars
  <2>3. st[j] \notin Active
    BY <1>0, <2>1 DEF ActiveInv
  <2>4. st' = [k \in Jobs |-> IF k \in {j} THEN "QUEUED" ELSE st[k]]
    BY <1>0, <2>1
  <2>5. Asked({j}) /\ {j} \in SUBSET Jobs
    BY <2>1, <2>2, <2>3, <2>4 DEF Asked, Steady
  <2> QED BY <2>5 DEF ListStep
<1> QED BY <1>1, <1>2, <1>3, <1>4, <1>5, <1>6, <1>7 DEF UserControls, ListStep

\* The steps of a runner outside _run_swap, and the checkpoints of its render.
LEMMA RunnerKinds == Inv /\ (\E r \in Runners : RunnerStep(r) \/ Checkpoint(r)) => ListStep
<1> SUFFICES ASSUME Inv, NEW r \in Runners, RunnerStep(r) \/ Checkpoint(r) PROVE ListStep
  OBVIOUS
<1>0. /\ order \in Seq(Jobs) /\ st \in [Jobs -> JobStates \cup {"none"}] /\ fresh \subseteq Jobs
      /\ current \in Jobs \cup {None} /\ ListInv /\ ActiveInv /\ ProjectInv
      /\ HeldInv /\ AloneInv
  BY DEF Inv, TypeOK, ListType, FlagType
<1>t. verdict[r] \in Done \cup {"RECOVERABLE", "none"}
  BY DEF Inv, TypeOK, ThreadType
<1>n. None \notin Jobs
  BY ConstantsAssumption DEF ConstantsAssumption
<1>a. {"PREPARING", "PROCESSING", "PAUSE_REQUESTED", "PAUSED"} = Active
  BY DEF Active
<1>1. ASSUME Retire(r) \/ CheckCancel(r) \/ PrepareFails(r) \/ Classify(r) PROVE Idle
  BY <1>0, <1>1, IdleStep DEF Retire, CheckCancel, PrepareFails, Classify, jobVars, idVars, flagVars
<1>2. ASSUME pc[r] = "top" PROVE current = None
  BY <1>0, <1>2, Holder DEF Off
<1>3. ASSUME Drain(r) PROVE Idle
  BY <1>0, <1>2, <1>3, IdleStep DEF Drain, MayDispatch, Commit, idVars
<1>4. ASSUME Dispatch(r) PROVE \E j \in Jobs : Begun(j)
  <2>1. PICK i \in DOMAIN order :
           /\ st[order[i]] \in Runnable
           /\ Commit(order, [st EXCEPT ![order[i]] = "PREPARING"], project)
           /\ current' = order[i]
    BY <1>4 DEF Dispatch, Pending
  <2>2. order[i] \in Jobs /\ Within(order, order[i])
    BY <1>0 DEF Within
  <2>3. current = None /\ UNCHANGED <<order, fresh>>
    BY <1>2, <1>4, <2>1 DEF Dispatch, MayDispatch, Commit, idVars
  <2>4. Begun(order[i])
    BY <2>1, <2>2, <2>3 DEF Begun, Commit
  <2> QED BY <2>2, <2>4
<1>5. ASSUME pc[r] \notin Off PROVE jobOf[r] = current /\ current \in Jobs
  BY <1>0, <1>5, Holder DEF ProjectInv, Off
<1>6. ASSUME Prepare(r) PROVE Marked
  <2>1. jobOf[r] = current /\ current \in Jobs
    BY <1>5, <1>6 DEF Prepare, Off
  <2>2. st' = SetState(current, "PROCESSING") /\ Steady
    BY <1>6, <2>1 DEF Prepare, Commit, Steady, idVars, flagVars
  <2> QED BY <1>a, <2>1, <2>2 DEF Marked
<1>7. ASSUME Book(r) PROVE Booked
  <2>1. jobOf[r] = current /\ current \in Jobs /\ verdict[r] \in Done \cup {"RECOVERABLE"}
    BY <1>0, <1>5, <1>7, <1>t DEF Book, Off, ProjectInv
  <2>2. st' = SetState(current, verdict[r]) /\ current' = None /\ UNCHANGED <<order, fresh>>
    BY <1>7, <2>1 DEF Book, Commit, idVars
  <2> QED BY <2>1, <2>2 DEF Booked
<1>8. ASSUME Checkpoint(r) PROVE Marked
  <2>1. PICK i \in DOMAIN order :
           /\ project[order[i]] = project[jobOf[r]]
           /\ Commit(order,
                     [st EXCEPT ![order[i]] = IF pauseAck THEN "PAUSED" ELSE "PROCESSING"],
                     project)
    BY <1>8 DEF Checkpoint
  <2>2. jobOf[r] = current /\ current \in Jobs
    BY <1>5, <1>8 DEF Checkpoint, Off
  <2>3. project[jobOf[r]] # None
    BY <1>0, <1>8 DEF Checkpoint, ProjectInv, Claimed
  <2>4. order[i] \in Jobs
    BY <1>0
  <2>5. order[i] = current
    BY <1>0, <2>1, <2>2, <2>3, <2>4 DEF ProjectInv
  <2>6. Listed(current)
    BY <2>5 DEF Listed, Positions
  <2>7. st' = SetState(current, IF pauseAck THEN "PAUSED" ELSE "PROCESSING")
    BY <2>1, <2>5, <2>6 DEF SetState, Commit
  <2>8. (IF pauseAck THEN "PAUSED" ELSE "PROCESSING") \in Active
    BY DEF Active
  <2>9. Steady
    BY <1>8, <2>1 DEF Checkpoint, Commit, Steady, idVars, flagVars
  <2> QED BY <2>2, <2>7, <2>8, <2>9 DEF Marked
<1> QED BY <1>1, <1>3, <1>4, <1>6, <1>7, <1>8 DEF RunnerStep, ListStep

\* Every step does one of these things to the list.
LEMMA ListKinds == Inv /\ Next /\ (\A j, k \in Jobs : ~Duplicate(j, k)) => ListStep
<1> SUFFICES ASSUME Inv, Next, \A j, k \in Jobs : ~Duplicate(j, k) PROVE ListStep
  OBVIOUS
<1>0. /\ st \in [Jobs -> JobStates \cup {"none"}] /\ current \in Jobs \cup {None} /\ ListInv
  BY DEF Inv, TypeOK, ListType, FlagType
<1>1. ASSUME NEW t \in Threads, SwapStep(t) \/ Report(t) \/ Acknowledge(t) PROVE Idle
  BY <1>0, <1>1, IdleStep DEF SwapStep, Enter, Arm, RenderEnds, RunRaises, Finish, Report,
     Acknowledge, jobVars, idVars, flagVars
<1>2. ASSUME NEW s \in Singles, SingleAsk(s) \/ SingleClaim(s) PROVE Idle
  BY <1>0, <1>2, IdleStep DEF SingleAsk, SingleClaim, jobVars, idVars, flagVars
<1>3. ASSUME NEW j \in Jobs \cup {None}, StopCall(j) PROVE Idle
  BY <1>0, <1>3, IdleStep DEF StopCall, jobVars, idVars, flagVars
<1>4. ASSUME BenchStart \/ BenchEnd PROVE Idle
  BY <1>0, <1>4, IdleStep DEF BenchStart, BenchEnd, jobVars, idVars, flagVars
<1>5. ASSUME NEW safe \in BOOLEAN, PauseMark(safe) PROVE ListStep
  <2>1. Steady
    BY <1>5 DEF PauseMark, Commit, Steady, idVars
  <2>2. CASE current = None
    <3>1. st' = st
      BY <1>5, <2>2 DEF PauseMark, Commit
    <3> QED BY <1>0, <2>1, <3>1, IdleStep DEF Steady, ListStep
  <2>3. CASE current # None
    <3>1. st' = SetState(current, IF safe THEN "PAUSED" ELSE "PAUSE_REQUESTED")
      BY <1>5, <2>3 DEF PauseMark, Commit
    <3>2. (IF safe THEN "PAUSED" ELSE "PAUSE_REQUESTED") \in Active
      BY DEF Active
    <3> QED BY <1>0, <2>1, <2>3, <3>1, <3>2 DEF Marked, ListStep
  <2> QED BY <2>2, <2>3
<1>6. ASSUME Crash PROVE Restarted
  <2>1. /\ order' = disk.order /\ st' = Recovered(disk.st) /\ current' = None
        /\ fresh' = fresh
    BY <1>6 DEF Crash, idVars
  <2>2. disk.order = order /\ (disk.st = st \/ st = Recovered(disk.st))
    BY DEF Inv, DiskIsCurrent
  <2>3. Recovered(Recovered(disk.st)) = Recovered(disk.st)
    BY DEF Recovered, Active
  <2> QED BY <2>1, <2>2, <2>3 DEF Restarted
<1> QED BY <1>1, <1>2, <1>3, <1>4, <1>5, <1>6, EditKinds, ControlKinds, RunnerKinds
        DEF Next, ListStep

-----------------------------------------------------------------------------
(* The invariant.                                                          *)

\* "none", the active, the runnable and the final states are all different.
LEMMA StatesApart ==
    /\ "none" \notin JobStates /\ Active \cap (Runnable \cup Done) = {} /\ Runnable \cap Done = {}
    /\ Active \subseteq JobStates /\ Runnable \subseteq JobStates /\ Done \subseteq JobStates
    /\ "QUEUED" \in Runnable /\ "RECOVERABLE" \in Runnable
    /\ "PREPARING" \in Active /\ "CANCELLED" \in Done
BY DEF JobStates, Active, Runnable, Done

\* A step of the list keeps list and states together.
LEMMA ListInvStep == TypeOK /\ ListInv /\ ListStep => ListInv'
<1> SUFFICES ASSUME TypeOK, ListInv, ListStep PROVE ListInv'
  OBVIOUS
<1>0. st \in [Jobs -> JobStates \cup {"none"}] /\ fresh \subseteq Jobs
  BY DEF TypeOK, ListType
<1>n. None \notin fresh
  BY <1>0, ConstantsAssumption DEF ConstantsAssumption
<1>1. CASE Idle
  BY <1>1 DEF Idle, ListInv
<1>2. ASSUME UNCHANGED <<order, fresh>>, current' \notin fresh,
             \A j \in Jobs : st'[j] # "none" <=> st[j] # "none"
      PROVE  ListInv'
  BY <1>2 DEF ListInv, Once, Within
<1>3. ASSUME NEW k, NEW s \in JobStates, st' = SetState(k, s), UNCHANGED <<order, fresh>>,
             current' \notin fresh
      PROVE  ListInv'
  <2>1. \A j \in Jobs : st'[j] # "none" <=> st[j] # "none"
    BY <1>0, <1>3, StatesApart, ListedWithin DEF SetState, ListInv
  <2> QED BY <1>2, <1>3, <2>1
<1>4. CASE Marked \/ Booked
  BY <1>0, <1>3, <1>4, <1>n, StatesApart DEF Marked, Booked, Steady, ListInv
<1>5. CASE Restarted
  <2>1. \A j \in Jobs : st'[j] # "none" <=> st[j] # "none"
    BY <1>5, StatesApart DEF Restarted, Recovered
  <2> QED BY <1>2, <1>5, <1>n, <2>1 DEF Restarted
<1>6. ASSUME NEW S \in SUBSET Jobs, Asked(S) PROVE ListInv'
  <2>1. \A j \in Jobs : st'[j] # "none" <=> st[j] # "none"
    BY <1>6, StatesApart DEF Asked, ListInv
  <2> QED BY <1>2, <1>6, <2>1 DEF Asked, Steady, ListInv
<1>7. ASSUME NEW j \in Jobs, Withdrawn(j) PROVE ListInv'
  <2>1. \A k \in Jobs : st'[k] # "none" <=> st[k] # "none"
    BY <1>0, <1>7, StatesApart DEF Withdrawn, ListInv
  <2> QED BY <1>2, <1>7, <2>1 DEF Withdrawn, Steady, ListInv
<1>8. ASSUME NEW j \in Jobs, Begun(j) PROVE ListInv'
  <2>1. \A k \in Jobs : st'[k] # "none" <=> st[k] # "none"
    BY <1>0, <1>8, StatesApart DEF Begun
  <2> QED BY <1>2, <1>8, <2>1 DEF Begun, ListInv
<1>9. ASSUME NEW j \in Jobs, Arrived(j) PROVE ListInv'
  <2>1. \A k \in Jobs : st'[k] # "none" <=> st[k] # "none" \/ k = j
    BY <1>0, <1>9, StatesApart DEF Arrived
  <2> QED BY <1>9, <2>1 DEF Arrived, ListInv
<1>10. ASSUME NEW S \in SUBSET Jobs, Left(S) PROVE ListInv'
  BY <1>0, <1>10 DEF Left, ListInv
<1> QED BY <1>1, <1>4, <1>5, <1>6, <1>7, <1>8, <1>9, <1>10 DEF ListStep

\* And an active job the current one.
LEMMA ActiveStep == TypeOK /\ ListInv /\ ActiveInv /\ ListStep => ActiveInv'
<1> SUFFICES ASSUME TypeOK, ListInv, ActiveInv, ListStep, NEW j \in Jobs
             PROVE  st'[j] \in Active <=> Within(order', j) /\ current' = j
  BY DEF ActiveInv, Within
<1>0. st \in [Jobs -> JobStates \cup {"none"}] /\ (Within(order, j) <=> Listed(j)) /\ None \notin Jobs
  BY ListedWithin, ConstantsAssumption DEF TypeOK, ListType, ConstantsAssumption
<1>i. st[j] \in Active <=> Within(order, j) /\ current = j
  BY DEF ActiveInv
<1>n. "none" \notin Active
  BY StatesApart
<1>1. CASE Idle
  BY <1>1, <1>i DEF Idle, Within
<1>2. CASE Marked
  BY <1>0, <1>2, <1>i DEF Marked, Steady, SetState
<1>3. CASE Booked
  BY <1>0, <1>3, <1>i, StatesApart DEF Booked, SetState
<1>4. CASE Restarted
  BY <1>0, <1>4, StatesApart DEF Restarted, Recovered
<1>5. ASSUME NEW S \in SUBSET Jobs, Asked(S) PROVE st'[j] \in Active <=> Within(order', j) /\ current' = j
  BY <1>5, <1>i, StatesApart DEF Asked, Steady
<1>6. ASSUME NEW S \in SUBSET Jobs, Left(S) PROVE st'[j] \in Active <=> Within(order', j) /\ current' = j
  BY <1>6, <1>i, <1>n DEF Left, Within
<1>7. ASSUME NEW k \in Jobs, Withdrawn(k) PROVE st'[j] \in Active <=> Within(order', j) /\ current' = j
  BY <1>0, <1>7, <1>i, StatesApart DEF Withdrawn, Steady
<1>8. ASSUME NEW k \in Jobs, Arrived(k) PROVE st'[j] \in Active <=> Within(order', j) /\ current' = j
  <2>1. ~Within(order, k) /\ current # k
    BY <1>8 DEF Arrived, ListInv
  <2> QED BY <1>0, <1>8, <1>i, <2>1, StatesApart DEF Arrived, Within
<1>9. ASSUME NEW k \in Jobs, Begun(k) PROVE st'[j] \in Active <=> Within(order', j) /\ current' = j
  BY <1>0, <1>9, <1>i, StatesApart DEF Begun
<1> QED BY <1>1, <1>2, <1>3, <1>4, <1>5, <1>6, <1>7, <1>8, <1>9 DEF ListStep

\* Projects, jobs and verdicts stay, and a runner moves within its run or out of it.
Kept ==
    /\ UNCHANGED <<project, jobOf, verdict>>
    /\ \A r \in Runners : \/ pc'[r] = pc[r] \/ pc'[r] \in Off
                          \/ pc[r] \in Claimed /\ pc'[r] \in Claimed \cup {"post"}

\* What user calls, single runs, benchmarks and _run_swap do to them.
LEMMA KeptKinds ==
    ASSUME TypeOK, \A j, k \in Jobs : ~Duplicate(j, k),
           \/ UserEdits \/ UserControls \/ BenchStart \/ BenchEnd
           \/ \E j \in Jobs \cup {None} : StopCall(j)
           \/ \E safe \in BOOLEAN : PauseMark(safe)
           \/ \E r \in Runners : Retire(r) \/ Drain(r) \/ Checkpoint(r)
           \/ \E s \in Singles : SingleAsk(s) \/ SingleClaim(s)
           \/ \E t \in Threads : SwapStep(t) \/ Report(t) \/ Acknowledge(t)
    PROVE  Kept
<1>0. pc \in [Threads -> Labels] /\ Runners \subseteq Threads
  BY DEF TypeOK, ThreadType, Threads
<1>c. Off = {"idle", "top", "gone"} /\ Claimed = {"claimed", "entered", "render", "finish"}
  BY DEF Off, Claimed
<1>1. ASSUME UNCHANGED <<project, pc, jobOf, verdict>> PROVE Kept
  BY <1>1 DEF Kept
<1>2. ASSUME NEW t \in Threads, NEW l, pc' = [pc EXCEPT ![t] = l],
             UNCHANGED <<project, jobOf, verdict>>,
             t \notin Runners \/ l \in Off \/ (pc[t] \in Claimed /\ l \in Claimed \cup {"post"})
      PROVE  Kept
  BY <1>0, <1>2 DEF Kept
<1>3. ASSUME UNCHANGED <<project, jobOf, verdict>>, Launch PROVE Kept
  BY <1>0, <1>3 DEF Launch, Kept, Off
<1>4. ASSUME NEW s, UNCHANGED <<project, jobOf, verdict>>, StartIfAllowed(s) PROVE Kept
  BY <1>1, <1>3, <1>4 DEF StartIfAllowed
<1>5. CASE UserEdits
  BY <1>1, <1>5 DEF UserEdits, Add, Remove, Reorder, Requeue, Clear, RetryAll, Commit, threadVars
<1>6. CASE UserControls
  <2>1. ASSUME Start PROVE Kept
    BY <1>3, <2>1 DEF Start, jobVars
  <2>2. ASSUME PauseAsk \/ Resume \/ PauseSwap \/ ResumeSwap \/ StopRun \/ Stop PROVE Kept
    BY <1>1, <2>2 DEF PauseAsk, Resume, PauseSwap, ResumeSwap, StopRun, Stop, Commit, jobVars,
       threadVars
  <2>3. ASSUME NEW j \in Jobs, Cancel(j) PROVE Kept
    BY <1>1, <2>3 DEF Cancel, Commit, threadVars
  <2>4. ASSUME NEW j \in Jobs, ResumeJob(j) PROVE Kept
    BY <1>4, <2>4 DEF ResumeJob, Commit
  <2>5. ASSUME NEW j \in Jobs, NEW start \in BOOLEAN, Rerender(j, start) PROVE Kept
    BY <1>1, <1>4, <2>5 DEF Rerender, Commit
  <2> QED BY <1>6, <2>1, <2>2, <2>3, <2>4, <2>5 DEF UserControls
<1>7. CASE BenchStart \/ BenchEnd
  BY <1>1, <1>7 DEF BenchStart, BenchEnd, jobVars, threadVars
<1>8. ASSUME NEW j \in Jobs \cup {None}, StopCall(j) PROVE Kept
  BY <1>1, <1>8 DEF StopCall, jobVars, threadVars
<1>9. ASSUME NEW safe \in BOOLEAN, PauseMark(safe) PROVE Kept
  BY <1>1, <1>9 DEF PauseMark, Commit, threadVars
<1>10. ASSUME NEW r \in Runners, Retire(r) \/ Drain(r) PROVE Kept
  BY <1>0, <1>2, <1>10, <1>c DEF Retire, Drain, Goto, Commit, jobVars
<1>11. ASSUME NEW r \in Runners, Checkpoint(r) PROVE Kept
  BY <1>1, <1>11 DEF Checkpoint, Commit, threadVars
<1>12. ASSUME NEW s \in Singles, SingleAsk(s) \/ SingleClaim(s) PROVE Kept
  <2>1. s \in Threads /\ s \notin Runners
    BY ConstantsAssumption DEF ConstantsAssumption, Threads
  <2> QED BY <1>2, <1>12, <2>1 DEF SingleAsk, SingleClaim, Goto, jobVars
<1>13. ASSUME NEW t \in Threads, SwapStep(t) PROVE Kept
  BY <1>2, <1>13, <1>c DEF SwapStep, Enter, Arm, RenderEnds, RunRaises, Finish, Goto, jobVars
<1>14. ASSUME NEW t \in Threads, Report(t) \/ Acknowledge(t) PROVE Kept
  BY <1>1, <1>14 DEF Report, Acknowledge, jobVars, threadVars
<1> QED BY <1>5, <1>6, <1>7, <1>8, <1>9, <1>10, <1>11, <1>12, <1>13, <1>14

\* Projects, jobs and verdicts stay as ProjectInv says.
LEMMA ProjectStep ==
    TypeOK /\ DiskIsCurrent /\ ProjectInv /\ Next /\ (\A j, k \in Jobs : ~Duplicate(j, k))
        => ProjectInv'
<1> SUFFICES ASSUME TypeOK, DiskIsCurrent, ProjectInv, Next,
                    \A j, k \in Jobs : ~Duplicate(j, k)
             PROVE  ProjectInv'
  OBVIOUS
<1>0. /\ pc \in [Threads -> Labels] /\ Runners \subseteq Threads
      /\ jobOf \in [Threads -> Jobs \cup {None}]
      /\ verdict \in [Runners -> Done \cup {"RECOVERABLE", "none"}]
      /\ project \in [Jobs -> Jobs \cup {None}] /\ None \notin Jobs
  BY ConstantsAssumption DEF TypeOK, ThreadType, ListType, Threads, ConstantsAssumption
<1>c. Off = {"idle", "top", "gone"} /\ Claimed = {"claimed", "entered", "render", "finish"}
  BY DEF Off, Claimed
<1>1. ASSUME Kept PROVE ProjectInv'
  BY <1>0, <1>1, <1>c DEF Kept, ProjectInv
<1>2. ASSUME NEW r \in Runners, Dispatch(r) PROVE ProjectInv'
  <2>1. PICK i \in DOMAIN order : jobOf' = [jobOf EXCEPT ![r] = order[i]] /\ project' = project
    BY <1>2 DEF Dispatch, Pending, Commit
  <2>2. order[i] \in Jobs
    BY DEF TypeOK, ListType
  <2>3. pc' = [pc EXCEPT ![r] = "prep"] /\ verdict' = verdict
    BY <1>2 DEF Dispatch, Goto
  <2> QED BY <1>0, <1>c, <2>1, <2>2, <2>3 DEF ProjectInv
<1>3. ASSUME NEW r \in Runners, CheckCancel(r) PROVE ProjectInv'
  <2>1. /\ pc[r] = "prep" /\ UNCHANGED <<project, jobOf>>
        /\ \/ pc' = [pc EXCEPT ![r] = "book"] /\ verdict' = [verdict EXCEPT ![r] = "CANCELLED"]
           \/ pc' = [pc EXCEPT ![r] = "activate"] /\ verdict' = verdict
    BY <1>3 DEF CheckCancel, Goto, jobVars
  <2> QED BY <1>0, <1>c, <2>1 DEF ProjectInv
<1>4. ASSUME NEW r \in Runners, PrepareFails(r) PROVE ProjectInv'
  <2>1. PICK v \in {"FAILED", "RECOVERABLE"} : verdict' = [verdict EXCEPT ![r] = v]
    BY <1>4 DEF PrepareFails
  <2>2. /\ pc[r] = "activate" /\ UNCHANGED <<project, jobOf>>
        /\ pc' = [pc EXCEPT ![r] = "book"]
    BY <1>4 DEF PrepareFails, Goto, jobVars
  <2> QED BY <1>0, <1>c, <2>1, <2>2 DEF ProjectInv
<1>5. ASSUME NEW r \in Runners, Prepare(r) PROVE ProjectInv'
  <2>1. /\ pc[r] = "activate" /\ pc' = [pc EXCEPT ![r] = "claimed"]
        /\ UNCHANGED <<jobOf, verdict>>
        /\ project' = IF project[jobOf[r]] = None THEN [project EXCEPT ![jobOf[r]] = jobOf[r]]
                      ELSE project
    BY <1>5 DEF Prepare, Goto, Commit
  <2>2. jobOf[r] \in Jobs
    BY <1>c, <2>1 DEF ProjectInv
  <2>3. \A j \in Jobs : project[j] # None => project'[j] # None
    BY <1>0, <2>1, <2>2
  <2>4. project'[jobOf[r]] # None
    BY <1>0, <2>1, <2>2
  <2>5. \A j \in Jobs : project'[j] \in {None, j}
    BY <1>0, <2>1, <2>2 DEF ProjectInv
  <2> QED BY <1>0, <1>c, <2>1, <2>2, <2>3, <2>4, <2>5 DEF ProjectInv
<1>6. ASSUME NEW r \in Runners, Classify(r) PROVE ProjectInv'
  <2>1. /\ pc[r] = "post" /\ pc' = [pc EXCEPT ![r] = "book"] /\ UNCHANGED <<project, jobOf>>
        /\ verdict' = [verdict EXCEPT ![r] = Verdict(jobOf[r])]
    BY <1>6 DEF Classify, Goto, jobVars
  <2>2. Verdict(jobOf[r]) # "none"
    BY DEF Verdict
  <2> QED BY <1>0, <1>c, <2>1, <2>2 DEF ProjectInv
<1>7. ASSUME NEW r \in Runners, Book(r) PROVE ProjectInv'
  <2>1. /\ pc' = [pc EXCEPT ![r] = "top"] /\ jobOf' = [jobOf EXCEPT ![r] = None]
        /\ UNCHANGED <<project, verdict>>
    BY <1>7 DEF Book, Goto, Commit
  <2> QED BY <1>0, <1>c, <2>1 DEF ProjectInv
<1>8. CASE Crash
  BY <1>0, <1>8, <1>c DEF Crash, ProjectInv, DiskIsCurrent
<1> QED BY <1>1, <1>2, <1>3, <1>4, <1>5, <1>6, <1>7, <1>8, KeptKinds DEF Next, RunnerStep

\* The initial list names every job once, nothing runs and nothing is active.
LEMMA InitInv == Init => Inv
<1> SUFFICES ASSUME Init PROVE Inv
  OBVIOUS
<1>1. TypeOK
  BY InitType
<1>2. \A j : Listed(j) <=> Within(order, j)
  BY ListedWithin
<1>3. Once(order)
  BY ConstantsAssumption DEF Init, Once, ConstantsAssumption
<1>4. ListInv /\ ActiveInv
  BY <1>2, <1>3, ConstantsAssumption, StatesApart
     DEF Init, ListInv, ActiveInv, ConstantsAssumption
<1>5. Runners \subseteq Threads
  BY DEF Threads
<1>6. HeldInv /\ AloneInv /\ ProjectInv
  BY <1>5 DEF Init, HeldInv, Unstarted, CurrentHeld, FlagHasRunner, AloneInv, Off, ProjectInv,
     Claimed
<1>7. DiskIsCurrent
  BY DEF Init, DiskIsCurrent
<1> QED BY <1>1, <1>4, <1>6, <1>7 DEF Inv

\* Every step that duplicates no job keeps the invariant.
LEMMA InvStep ==
    ASSUME ~OverlapStarts
    PROVE  Inv /\ [Next]_vars /\ [\A j, k \in Jobs : ~Duplicate(j, k)]_vars => Inv'
<1> SUFFICES ASSUME Inv, [Next]_vars, [\A j, k \in Jobs : ~Duplicate(j, k)]_vars PROVE Inv'
  OBVIOUS
<1>1. TypeOK' /\ HeldInv' /\ AloneInv' /\ DiskIsCurrent'
  BY StepType, HeldStep, AloneStep, DiskStep DEF Inv
<1>2. CASE UNCHANGED vars
  <2>1. UNCHANGED <<order, st, project, fresh, current, pc, jobOf, verdict>>
    BY <1>2 DEF vars, jobVars, idVars, flagVars, threadVars
  <2>2. Idle
    BY <2>1, IdleStep DEF Inv
  <2>3. ListInv' /\ ActiveInv'
    BY <2>2, ListInvStep, ActiveStep DEF Inv, ListStep
  <2>4. ProjectInv'
    BY <2>1 DEF Inv, ProjectInv
  <2> QED BY <1>1, <2>3, <2>4 DEF Inv
<1>3. CASE Next /\ \A j, k \in Jobs : ~Duplicate(j, k)
  <2>1. ListStep
    BY <1>3, ListKinds
  <2>2. ListInv' /\ ActiveInv'
    BY <2>1, ListInvStep, ActiveStep DEF Inv
  <2>3. ProjectInv'
    BY <1>3, ProjectStep DEF Inv
  <2> QED BY <1>1, <2>2, <2>3 DEF Inv
<1> QED BY <1>2, <1>3

\* As long as starts do not overlap and nothing is cloned, a job the list shows as
\* preparing, processing or paused is in a runner's hands: no order of removals,
\* cancels, pauses, stops and crashes strands one.
THEOREM ActiveHeld == ASSUME ~OverlapStarts PROVE Spec /\ NoClones => []ActiveHasRunner
<1>1. Inv => ActiveHasRunner
  <2> SUFFICES ASSUME Inv, NEW j \in Jobs, st[j] \in Active
               PROVE  \E r \in Runners : Holds(r, j)
    BY DEF ActiveHasRunner
  <2>1. current = j /\ current # None
    BY ConstantsAssumption DEF Inv, ActiveInv, ConstantsAssumption
  <2> QED BY <2>1 DEF Inv, HeldInv, CurrentHeld
<1> QED BY <1>1, InitInv, InvStep, PTL DEF Spec, NoClones

-----------------------------------------------------------------------------
(* The refinement.                                                         *)

\* The phase of a job in state s.
PhaseOf(s) ==
    IF s \in Active THEN "running" ELSE IF s \in Runnable THEN "waiting"
    ELSE IF s \in Done THEN "ended" ELSE "absent"

\* The phases before and after a step.
phases == [j \in Jobs |-> Phase(j)]

\* The phase function is what PhaseOf says of the states.
LEMMA PhasesAre ==
    /\ phases = [j \in Jobs |-> PhaseOf(st[j])]
    /\ phases' = [j \in Jobs |-> PhaseOf(st'[j])]
BY DEF phases, Phase, PhaseOf

\* Which states make which phase.
LEMMA PhaseOfIs ==
    /\ \A s \in Active : PhaseOf(s) = "running"
    /\ \A s \in Runnable : PhaseOf(s) = "waiting"
    /\ \A s \in Done : PhaseOf(s) = "ended"
    /\ PhaseOf("none") = "absent"
    /\ \A s \in JobStates \cup {"none"} : s \in Active \cup Runnable \cup Done \/ s = "none"
BY DEF PhaseOf, JobStates, Active, Runnable, Done

\* Each thing that happens to the list is a step of the lifecycle, or none.
LEMMA LifecycleStep ==
    TypeOK /\ ListInv /\ ActiveInv /\ ListStep => Lifecycle!Next \/ phases' = phases
<1> SUFFICES ASSUME TypeOK, ListInv, ActiveInv, ListStep
             PROVE  Lifecycle!Next \/ phases' = phases
  OBVIOUS
<1>0. st \in [Jobs -> JobStates \cup {"none"}] /\ None \notin Jobs
  BY ConstantsAssumption DEF TypeOK, ListType, ConstantsAssumption
<1>w. \A j \in Jobs : Listed(j) <=> st[j] # "none"
  BY ListedWithin DEF ListInv
<1>a. \A j \in Jobs : st[j] \in Active <=> Listed(j) /\ current = j
  BY ListedWithin DEF ActiveInv
<1>m. ASSUME NEW S \in SUBSET Jobs, NEW p,
             \A j \in Jobs : PhaseOf(st'[j]) = IF j \in S THEN p ELSE PhaseOf(st[j])
      PROVE  Lifecycle!Move(S, p)
  BY <1>m, PhasesAre DEF Lifecycle!Move, phases
<1>s. ASSUME \A j \in Jobs : PhaseOf(st'[j]) = PhaseOf(st[j]) PROVE phases' = phases
  BY <1>s, PhasesAre
<1>r. Lifecycle!Running = {j \in Jobs : st[j] \in Active}
  BY <1>0, PhasesAre, PhaseOfIs, StatesApart DEF Lifecycle!Running, phases
<1>p. \A j \in Jobs : phases[j] = PhaseOf(st[j])
  BY PhasesAre
<1>1. CASE Idle
  BY <1>1, <1>s DEF Idle
<1>2. CASE Marked
  <2>1. PICK s \in Active : st' = SetState(current, s)
    BY <1>2 DEF Marked
  <2>2. \A j \in Jobs : PhaseOf(st'[j]) = PhaseOf(st[j])
    BY <1>0, <1>2, <1>a, <2>1, PhaseOfIs DEF Marked, SetState
  <2> QED BY <1>s, <2>2
<1>3. CASE Booked
  <2>1. PICK v \in Done \cup {"RECOVERABLE"} : st' = SetState(current, v)
    BY <1>3 DEF Booked
  <2>2. CASE ~Listed(current)
    BY <1>s, <2>1, <2>2 DEF SetState
  <2>3. CASE Listed(current)
    <3>1. current \in Jobs /\ phases[current] = "running"
      BY <1>3, <1>a, <1>p, <2>3, PhaseOfIs DEF Booked
    <3>2. PhaseOf(v) \in {"ended", "waiting"}
      BY PhaseOfIs, StatesApart
    <3>3. \A j \in Jobs : PhaseOf(st'[j]) = IF j \in {current} THEN PhaseOf(v) ELSE PhaseOf(st[j])
      BY <1>0, <2>1, <2>3 DEF SetState
    <3>4. Lifecycle!Move({current}, PhaseOf(v))
      BY <1>m, <3>1, <3>3
    <3> QED BY <3>1, <3>2, <3>4 DEF Lifecycle!Next, Lifecycle!End, phases
  <2> QED BY <2>2, <2>3
<1>4. CASE Restarted
  <2>1. \A j \in Jobs : PhaseOf(st'[j]) =
                          IF j \in {k \in Jobs : st[k] \in Active} THEN "waiting" ELSE PhaseOf(st[j])
    BY <1>4, PhaseOfIs, StatesApart DEF Restarted, Recovered
  <2>2. Lifecycle!Move({k \in Jobs : st[k] \in Active}, "waiting")
    BY <1>m, <2>1
  <2> QED BY <1>r, <2>2 DEF Lifecycle!Next, Lifecycle!Restart
<1>5. ASSUME NEW S \in SUBSET Jobs, Asked(S) PROVE Lifecycle!Next \/ phases' = phases
  <2> DEFINE A == {j \in S : st[j] \in Done}
  <2>1. \A j \in S : st[j] \in Runnable \cup Done
    BY <1>0, <1>5, <1>w, ListedWithin, PhaseOfIs DEF Asked
  <2>2. \A j \in Jobs : PhaseOf(st'[j]) = IF j \in A THEN "waiting" ELSE PhaseOf(st[j])
    BY <1>5, <2>1, PhaseOfIs, StatesApart DEF Asked
  <2>3. Lifecycle!Move(A, "waiting")
    BY <1>m, <2>2
  <2>4. \A j \in A : phases[j] = "ended"
    BY <1>p, PhaseOfIs
  <2>5. A \in SUBSET Jobs
    OBVIOUS
  <2> HIDE DEF A
  <2> QED BY <2>3, <2>4, <2>5 DEF Lifecycle!Next, Lifecycle!Again, phases
<1>6. ASSUME NEW S \in SUBSET Jobs, Left(S) PROVE Lifecycle!Next \/ phases' = phases
  <2>1. \A j \in Jobs : PhaseOf(st'[j]) = IF j \in S THEN "absent" ELSE PhaseOf(st[j])
    BY <1>6, PhaseOfIs DEF Left
  <2>2. Lifecycle!Move(S, "absent")
    BY <1>m, <2>1
  <2>3. S \cap Lifecycle!Running = {} \/ S = Jobs
    BY <1>6, <1>a, <1>r DEF Left
  <2> QED BY <2>2, <2>3 DEF Lifecycle!Next, Lifecycle!Leave
<1>7. ASSUME NEW j \in Jobs, Withdrawn(j) PROVE Lifecycle!Next \/ phases' = phases
  <2>1. st[j] \in Runnable \cup Done /\ st' = [st EXCEPT ![j] = "CANCELLED"]
    BY <1>0, <1>7, <1>a, <1>w, ListedWithin, PhaseOfIs DEF Withdrawn
  <2>2. CASE st[j] \in Done
    <3>1. \A k \in Jobs : PhaseOf(st'[k]) = PhaseOf(st[k])
      BY <1>0, <2>1, <2>2, PhaseOfIs, StatesApart
    <3> QED BY <1>s, <3>1
  <2>3. CASE st[j] \in Runnable
    <3>1. \A k \in Jobs : PhaseOf(st'[k]) = IF k \in {j} THEN "ended" ELSE PhaseOf(st[k])
      BY <1>0, <2>1, PhaseOfIs, StatesApart
    <3>2. Lifecycle!Move({j}, "ended") /\ phases[j] = "waiting"
      BY <1>m, <1>p, <2>3, <3>1, PhaseOfIs
    <3> QED BY <3>2 DEF Lifecycle!Next, Lifecycle!Withdraw, phases
  <2> QED BY <2>1, <2>2, <2>3
<1>8. ASSUME NEW j \in Jobs, Arrived(j) PROVE Lifecycle!Next \/ phases' = phases
  <2>1. st[j] = "none"
    BY <1>8, <1>w, ListedWithin DEF Arrived, ListInv
  <2>2. \A k \in Jobs : PhaseOf(st'[k]) = IF k \in {j} THEN "waiting" ELSE PhaseOf(st[k])
    BY <1>0, <1>8, PhaseOfIs, StatesApart DEF Arrived
  <2>3. Lifecycle!Move({j}, "waiting") /\ phases[j] = "absent"
    BY <1>m, <1>p, <2>1, <2>2, PhaseOfIs
  <2> QED BY <2>3 DEF Lifecycle!Next, Lifecycle!Arrive, phases
<1>9. ASSUME NEW j \in Jobs, Begun(j) PROVE Lifecycle!Next \/ phases' = phases
  <2>1. \A k \in Jobs : PhaseOf(st'[k]) = IF k \in {j} THEN "running" ELSE PhaseOf(st[k])
    BY <1>0, <1>9, PhaseOfIs, StatesApart DEF Begun
  <2>2. Lifecycle!Move({j}, "running") /\ phases[j] = "waiting"
    BY <1>9, <1>m, <1>p, <2>1, PhaseOfIs DEF Begun
  <2>3. Lifecycle!Running = {}
    BY <1>0, <1>9, <1>a, <1>r DEF Begun
  <2> QED BY <2>2, <2>3 DEF Lifecycle!Next, Lifecycle!Begin, phases
<1> QED BY <1>1, <1>2, <1>3, <1>4, <1>5, <1>6, <1>7, <1>8, <1>9 DEF ListStep

\* As long as starts do not overlap and nothing is cloned, the queue is an
\* implementation of JobLifecycle for every set of jobs: jobs run one at a time,
\* what ended runs again only on request, and a restart loses nothing.
THEOREM QueueImplementsLifecycle ==
    ASSUME ~OverlapStarts PROVE Spec /\ NoClones => ImplementsLifecycle
<1>1. Init => Lifecycle!Init
  <2> SUFFICES ASSUME Init PROVE Lifecycle!Init
    OBVIOUS
  <2>1. \A j \in Jobs : PhaseOf(st[j]) \in {"absent", "waiting"}
    BY PhaseOfIs, StatesApart DEF Init
  <2> QED BY <2>1, PhasesAre DEF Lifecycle!Init, phases
<1>2. Inv /\ [Next]_vars /\ [\A j, k \in Jobs : ~Duplicate(j, k)]_vars
          => [Lifecycle!Next]_phases
  <2> SUFFICES ASSUME Inv, [Next]_vars, [\A j, k \in Jobs : ~Duplicate(j, k)]_vars
               PROVE  Lifecycle!Next \/ phases' = phases
    OBVIOUS
  <2>1. CASE UNCHANGED vars
    <3>1. st' = st
      BY <2>1 DEF vars, jobVars
    <3> QED BY <3>1, PhasesAre
  <2>2. CASE Next /\ \A j, k \in Jobs : ~Duplicate(j, k)
    BY <2>2, ListKinds, LifecycleStep DEF Inv
  <2> QED BY <2>1, <2>2
<1> QED BY <1>1, <1>2, InitInv, InvStep, PTL
        DEF Spec, NoClones, ImplementsLifecycle, Lifecycle!Spec, phases

-----------------------------------------------------------------------------
(* The verdict and the name of the segment: what a runner relies on in     *)
(* globals that it does not lock.                                          *)

\* A runner that has not rendered has no outcome; after a render that failed the
\* error is set until the verdict is taken from it.
FailInv ==
    \A r \in Runners :
        /\ pc[r] \in {"prep", "activate"} => outcome[r] = "none"
        /\ pc[r] = "post" /\ outcome[r] = "failed" => error
        /\ pc[r] = "book" /\ outcome[r] = "failed" => verdict[r] \in {"FAILED", "CANCELLED"}

\* From its claim to the end of its run a runner finds its own slice named.
SliceInv == \A r \in Runners : pc[r] \in Claimed => spec = SliceOf(jobOf[r])

\* The steps that touch neither: a runner at most starts, retires or goes on.
Undisturbed ==
    /\ UNCHANGED <<outcome, verdict, error, spec, jobOf>>
    /\ \A r \in Runners : \/ pc'[r] = pc[r] \/ pc'[r] \in Off
                          \/ pc[r] \in Claimed /\ pc'[r] \in Claimed

\* User calls, benchmarks, the beginning of a runner, its end and its reports.
LEMMA UndisturbedKinds ==
    ASSUME TypeOK,
           \/ UserEdits \/ UserControls \/ BenchStart \/ BenchEnd
           \/ \E j \in Jobs \cup {None} : StopCall(j)
           \/ \E safe \in BOOLEAN : PauseMark(safe)
           \/ \E r \in Runners : Retire(r) \/ Drain(r) \/ Checkpoint(r)
           \/ \E s \in Singles : SingleAsk(s)
           \/ \E t \in Threads : Enter(t) \/ Report(t) \/ Acknowledge(t)
    PROVE  Undisturbed
<1>0. pc \in [Threads -> Labels] /\ Runners \subseteq Threads
  BY DEF TypeOK, ThreadType, Threads
<1>c. Off = {"idle", "top", "gone"} /\ Claimed = {"claimed", "entered", "render", "finish"}
  BY DEF Off, Claimed
<1>1. ASSUME UNCHANGED <<outcome, verdict, error, spec, jobOf, pc>> PROVE Undisturbed
  BY <1>1 DEF Undisturbed
<1>2. ASSUME NEW t \in Threads, NEW l, pc' = [pc EXCEPT ![t] = l],
             UNCHANGED <<outcome, verdict, error, spec, jobOf>>,
             t \notin Runners \/ l \in Off \/ (pc[t] \in Claimed /\ l \in Claimed)
      PROVE  Undisturbed
  BY <1>0, <1>2 DEF Undisturbed
<1>3. ASSUME UNCHANGED <<outcome, verdict, error, spec, jobOf>>, Launch PROVE Undisturbed
  BY <1>0, <1>3 DEF Launch, Undisturbed, Off
<1>4. ASSUME NEW s, UNCHANGED <<outcome, verdict, error, spec, jobOf>>, StartIfAllowed(s)
      PROVE  Undisturbed
  BY <1>1, <1>3, <1>4 DEF StartIfAllowed
<1>5. CASE UserEdits
  BY <1>1, <1>5 DEF UserEdits, Add, Remove, Reorder, Requeue, Clear, RetryAll, Duplicate,
     threadVars, runVars
<1>u. ASSUME StopSwap PROVE UNCHANGED <<error, spec>>
  BY <1>u DEF StopSwap, runVars
<1>6. CASE UserControls
  <2>1. ASSUME Start PROVE Undisturbed
    BY <1>3, <2>1 DEF Start, runVars
  <2>2. ASSUME PauseAsk \/ Resume \/ PauseSwap \/ ResumeSwap \/ Stop PROVE Undisturbed
    BY <1>1, <2>2 DEF PauseAsk, Resume, PauseSwap, ResumeSwap, Stop, threadVars, runVars
  <2>3. ASSUME StopRun PROVE Undisturbed
    BY <1>1, <1>u, <2>3 DEF StopRun, threadVars
  <2>4. ASSUME NEW j \in Jobs, Cancel(j) PROVE Undisturbed
    BY <1>1, <2>4 DEF Cancel, threadVars, runVars
  <2>5. ASSUME NEW j \in Jobs, ResumeJob(j) PROVE Undisturbed
    BY <1>4, <2>5 DEF ResumeJob, runVars
  <2>6. ASSUME NEW j \in Jobs, NEW start \in BOOLEAN, Rerender(j, start) PROVE Undisturbed
    BY <1>1, <1>4, <2>6 DEF Rerender, runVars
  <2> QED BY <1>6, <2>1, <2>2, <2>3, <2>4, <2>5, <2>6 DEF UserControls
<1>7. CASE BenchStart \/ BenchEnd
  BY <1>1, <1>7 DEF BenchStart, BenchEnd, runVars, threadVars
<1>8. ASSUME NEW j \in Jobs \cup {None}, StopCall(j) PROVE Undisturbed
  BY <1>1, <1>8, <1>u DEF StopCall, threadVars
<1>9. ASSUME NEW safe \in BOOLEAN, PauseMark(safe) PROVE Undisturbed
  BY <1>1, <1>9 DEF PauseMark, runVars, threadVars
<1>10. ASSUME NEW r \in Runners, Retire(r) \/ Drain(r) PROVE Undisturbed
  BY <1>0, <1>2, <1>10, <1>c DEF Retire, Drain, Goto, runVars
<1>11. ASSUME NEW r \in Runners, Checkpoint(r) PROVE Undisturbed
  BY <1>1, <1>11 DEF Checkpoint, runVars, threadVars
<1>12. ASSUME NEW s \in Singles, SingleAsk(s) PROVE Undisturbed
  <2>1. s \in Threads /\ s \notin Runners
    BY ConstantsAssumption DEF ConstantsAssumption, Threads
  <2> QED BY <1>2, <1>12, <2>1 DEF SingleAsk, Goto, runVars
<1>13. ASSUME NEW t \in Threads, Enter(t) PROVE Undisturbed
  BY <1>2, <1>13, <1>c DEF Enter, Goto
<1>14. ASSUME NEW t \in Threads, Report(t) \/ Acknowledge(t) PROVE Undisturbed
  BY <1>1, <1>14 DEF Report, Acknowledge, runVars, threadVars
<1> QED BY <1>5, <1>6, <1>7, <1>8, <1>9, <1>10, <1>11, <1>12, <1>13, <1>14

\* The error of a failed run waits for its verdict: with one runner and no single
\* run nobody else claims or arms a run in between.
LEMMA FailStep ==
    ASSUME Singles = {}
    PROVE  TypeOK /\ AloneInv /\ FailInv /\ [Next]_vars => FailInv'
<1> SUFFICES ASSUME TypeOK, AloneInv, FailInv, [Next]_vars PROVE FailInv'
  OBVIOUS
<1>0. /\ pc \in [Threads -> Labels] /\ Threads = Runners
      /\ outcome \in [Threads -> {"none", "done", "stopped", "failed"}]
      /\ verdict \in [Runners -> Done \cup {"RECOVERABLE", "none"}]
  BY DEF TypeOK, ThreadType, Threads
<1>c. Off = {"idle", "top", "gone"} /\ Claimed = {"claimed", "entered", "render", "finish"}
  BY DEF Off, Claimed
<1>a. \A r, q \in Runners : pc[r] \notin {"idle", "gone"} /\ pc[q] \notin {"idle", "gone"} => r = q
  BY DEF AloneInv
<1>1. CASE Undisturbed
  BY <1>1, <1>c DEF Undisturbed, FailInv
<1>2. ASSUME NEW r \in Runners, Dispatch(r) PROVE FailInv'
  <2>1. /\ pc' = [pc EXCEPT ![r] = "prep"] /\ outcome' = [outcome EXCEPT ![r] = "none"]
        /\ UNCHANGED <<verdict, error>>
    BY <1>2 DEF Dispatch, Goto, runVars
  <2> QED BY <1>0, <2>1 DEF FailInv
<1>3. ASSUME NEW r \in Runners, CheckCancel(r) \/ PrepareFails(r) PROVE FailInv'
  <2>1. /\ pc[r] \in {"prep", "activate"} /\ UNCHANGED <<outcome, error>>
        /\ \E l \in {"book", "activate"} : pc' = [pc EXCEPT ![r] = l]
        /\ \A q \in Runners : q # r => verdict'[q] = verdict[q]
    BY <1>0, <1>3 DEF CheckCancel, PrepareFails, Goto, runVars
  <2> QED BY <1>0, <2>1 DEF FailInv
<1>4. ASSUME NEW r \in Runners, Prepare(r) \/ Arm(r) PROVE FailInv'
  <2>1. /\ pc[r] \in {"activate", "entered"} /\ UNCHANGED <<outcome, verdict>>
        /\ \E l \in {"claimed", "render"} : pc' = [pc EXCEPT ![r] = l]
    BY <1>4 DEF Prepare, Arm, Goto
  <2> QED BY <1>0, <1>a, <2>1 DEF FailInv
<1>5. ASSUME NEW r \in Runners, RenderEnds(r) \/ RunRaises(r) PROVE FailInv'
  <2>1. /\ pc' = [pc EXCEPT ![r] = "finish"] /\ UNCHANGED <<verdict, error>>
        /\ \A q \in Runners : q # r => outcome'[q] = outcome[q]
    BY <1>0, <1>5 DEF RenderEnds, RunRaises, Goto, runVars
  <2> QED BY <1>0, <2>1 DEF FailInv
<1>6. ASSUME NEW r \in Runners, Finish(r) PROVE FailInv'
  <2>1. /\ pc[r] = "finish" /\ UNCHANGED <<outcome, verdict>>
        /\ pc' = [pc EXCEPT ![r] = IF FallsBack(r) THEN "claimed" ELSE "post"]
        /\ outcome[r] = "failed" /\ ~FallsBack(r) => error'
    BY <1>6 DEF Finish, Goto
  <2> QED BY <1>0, <1>a, <2>1 DEF FailInv
<1>7. ASSUME NEW r \in Runners, Classify(r) PROVE FailInv'
  <2>1. /\ pc[r] = "post" /\ pc' = [pc EXCEPT ![r] = "book"] /\ UNCHANGED <<outcome, error>>
        /\ verdict' = [verdict EXCEPT ![r] = Verdict(jobOf[r])]
    BY <1>7 DEF Classify, Goto, runVars
  <2>2. error => Verdict(jobOf[r]) \in {"FAILED", "CANCELLED"}
    BY DEF Verdict
  <2> QED BY <1>0, <2>1, <2>2 DEF FailInv
<1>8. ASSUME NEW r \in Runners, Book(r) PROVE FailInv'
  <2>1. pc' = [pc EXCEPT ![r] = "top"] /\ UNCHANGED <<outcome, verdict, error>>
    BY <1>8 DEF Book, Goto, runVars
  <2> QED BY <1>0, <2>1 DEF FailInv
<1>9. CASE Crash
  BY <1>0, <1>9 DEF Crash, FailInv
<1>10. CASE UNCHANGED vars
  BY <1>10 DEF FailInv, vars, threadVars, runVars
<1> QED BY <1>0, <1>1, <1>2, <1>3, <1>4, <1>5, <1>6, <1>7, <1>8, <1>9, <1>10, UndisturbedKinds
        DEF Next, RunnerStep, SwapStep

\* When the queue runs alone (no overlapping starts, no single run), a job whose
\* run raised is never booked as completed, interrupted or recoverable, whatever
\* is cancelled, stopped, cloned or retried meanwhile.
THEOREM FailureReported ==
    ASSUME ~OverlapStarts, Singles = {} PROVE Spec => []FailureIsReported
<1>1. Init => AloneInv /\ FailInv
  <2>1. Runners \subseteq Threads
    BY DEF Threads
  <2> QED BY <2>1 DEF Init, AloneInv, FailInv, Off
<1>2. FailInv => FailureIsReported
  BY DEF FailInv, FailureIsReported
<1>3. TypeOK /\ AloneInv /\ [Next]_vars => AloneInv'
  BY AloneStep
<1>4. TypeOK /\ AloneInv /\ FailInv /\ [Next]_vars => FailInv'
  BY FailStep
<1> QED BY <1>1, <1>2, <1>3, <1>4, TypeCorrect, PTL DEF Spec

\* The slice a runner named stays named, for both of its attempts: single runs
\* leave it, and no second runner is there to name another.
LEMMA SliceStep ==
    TypeOK /\ AloneInv /\ SliceInv /\ Next /\ (\A j, k \in Jobs : ~Duplicate(j, k)) => SliceInv'
<1> SUFFICES ASSUME TypeOK, AloneInv, SliceInv, Next, \A j, k \in Jobs : ~Duplicate(j, k)
             PROVE  SliceInv'
  OBVIOUS
<1>0. /\ pc \in [Threads -> Labels] /\ Threads = Runners \cup Singles
      /\ jobOf \in [Threads -> Jobs \cup {None}]
  BY DEF TypeOK, ThreadType, Threads
<1>c. Off = {"idle", "top", "gone"} /\ Claimed = {"claimed", "entered", "render", "finish"}
  BY DEF Off, Claimed
<1>a. \A r, q \in Runners : pc[r] \notin {"idle", "gone"} /\ pc[q] \notin {"idle", "gone"} => r = q
  BY DEF AloneInv
<1>s. \A t \in Singles : t \notin Runners
  BY ConstantsAssumption DEF ConstantsAssumption
<1>o. origin' = origin
  <2>1. UserEdits => origin' = origin
    BY DEF UserEdits, Add, Remove, Reorder, Requeue, Clear, RetryAll, idVars
  <2>2. UserControls => origin' = origin
    BY DEF UserControls, Start, PauseAsk, Resume, PauseSwap, ResumeSwap, StopRun, Stop, Cancel,
       ResumeJob, Rerender, jobVars, idVars
  <2>3. ASSUME NEW r \in Runners, RunnerStep(r) \/ Checkpoint(r) PROVE origin' = origin
    BY <2>3 DEF RunnerStep, Retire, Drain, Dispatch, CheckCancel, PrepareFails, Prepare, Classify,
       Book, Checkpoint, jobVars, idVars
  <2>4. ASSUME NEW t \in Threads, SwapStep(t) \/ Report(t) \/ Acknowledge(t)
        PROVE  origin' = origin
    BY <2>4 DEF SwapStep, Enter, Arm, RenderEnds, RunRaises, Finish, Report, Acknowledge, jobVars,
       idVars
  <2>5. ASSUME NEW t \in Singles, SingleAsk(t) \/ SingleClaim(t) PROVE origin' = origin
    BY <2>5 DEF SingleAsk, SingleClaim, jobVars, idVars
  <2>6. ASSUME NEW j, StopCall(j) \/ PauseMark(j) PROVE origin' = origin
    BY <2>6 DEF StopCall, PauseMark, jobVars, idVars
  <2>7. BenchStart \/ BenchEnd \/ Crash => origin' = origin
    BY DEF BenchStart, BenchEnd, Crash, jobVars, idVars
  <2> QED BY <2>1, <2>2, <2>3, <2>4, <2>5, <2>6, <2>7 DEF Next
<1>n. \A j : SliceOf(j)' = SliceOf(j)
  BY <1>o DEF SliceOf
<1>1. CASE Undisturbed
  BY <1>1, <1>c, <1>n DEF Undisturbed, SliceInv, SliceOf
<1>2. ASSUME NEW r \in Runners,
             Dispatch(r) \/ CheckCancel(r) \/ PrepareFails(r) \/ Classify(r) \/ Book(r)
      PROVE  SliceInv'
  <2>1. /\ pc[r] \in {"top", "prep", "activate", "post", "book"} /\ spec' = spec
        /\ \E l \in {"prep", "activate", "book", "top"} : pc' = [pc EXCEPT ![r] = l]
        /\ \A q \in Runners : q # r => jobOf'[q] = jobOf[q]
    BY <1>0, <1>2 DEF Dispatch, MayDispatch, CheckCancel, PrepareFails, Classify, Book, Goto, runVars
  <2> QED BY <1>0, <1>c, <1>o, <2>1 DEF SliceInv, SliceOf
<1>3. ASSUME NEW r \in Runners, Prepare(r) PROVE SliceInv'
  <2>1. /\ pc[r] = "activate" /\ pc' = [pc EXCEPT ![r] = "claimed"] /\ jobOf' = jobOf
        /\ spec' = SliceOf(jobOf[r])
    BY <1>3 DEF Prepare, Goto
  <2> QED BY <1>0, <1>a, <1>c, <1>o, <2>1 DEF SliceInv, SliceOf
<1>4. ASSUME NEW t \in Threads, Arm(t) \/ RenderEnds(t) \/ RunRaises(t) PROVE SliceInv'
  <2>1. /\ pc[t] \in Claimed /\ UNCHANGED <<spec, jobOf>>
        /\ \E l \in Claimed : pc' = [pc EXCEPT ![t] = l]
    BY <1>4, <1>c DEF Arm, RenderEnds, RunRaises, Goto, runVars
  <2> QED BY <1>0, <1>o, <2>1 DEF SliceInv, SliceOf
<1>5. ASSUME NEW t \in Threads, Finish(t) PROVE SliceInv'
  <2>1. /\ pc[t] = "finish" /\ jobOf' = jobOf /\ spec' = SpecAfter(t)
        /\ pc' = [pc EXCEPT ![t] = IF FallsBack(t) THEN "claimed"
                                  ELSE IF t \in Runners THEN "post" ELSE "idle"]
    BY <1>5 DEF Finish, Goto
  <2>2. CASE t \in Runners
    BY <1>0, <1>a, <1>c, <1>o, <2>1, <2>2 DEF SliceInv, SliceOf, SpecAfter
  <2>3. CASE t \notin Runners
    BY <1>0, <1>o, <2>1, <2>3 DEF SliceInv, SliceOf, SpecAfter
  <2> QED BY <2>2, <2>3
<1>6. ASSUME NEW t \in Singles, SingleClaim(t) PROVE SliceInv'
  BY <1>0, <1>6, <1>o, <1>s DEF SingleClaim, Goto, SliceInv, SliceOf
<1>7. CASE Crash
  BY <1>0, <1>7, <1>c DEF Crash, SliceInv
<1> QED BY <1>1, <1>2, <1>3, <1>4, <1>5, <1>6, <1>7, UndisturbedKinds
        DEF Next, RunnerStep, SwapStep

\* Without overlapping starts and clones the render of a job always writes under
\* its own segment name, through both attempts and around any single run.
THEOREM SegmentNameHeld == ASSUME ~OverlapStarts PROVE Spec /\ NoClones => []OwnSegmentName
<1>1. Init => AloneInv /\ SliceInv
  <2>1. Runners \subseteq Threads
    BY DEF Threads
  <2> QED BY <2>1 DEF Init, AloneInv, SliceInv, Claimed, Off
<1>2. SliceInv => OwnSegmentName
  BY DEF SliceInv, OwnSegmentName, Claimed
<1>3. TypeOK /\ AloneInv /\ [Next]_vars => AloneInv'
  BY AloneStep
<1>4. TypeOK /\ AloneInv /\ SliceInv /\ [Next]_vars
          /\ [\A j, k \in Jobs : ~Duplicate(j, k)]_vars => SliceInv'
  <2> SUFFICES ASSUME TypeOK, AloneInv, SliceInv, [Next]_vars,
                      [\A j, k \in Jobs : ~Duplicate(j, k)]_vars
               PROVE  SliceInv'
    OBVIOUS
  <2>1. CASE UNCHANGED vars
    BY <2>1 DEF SliceInv, SliceOf, vars, threadVars, runVars, jobVars, idVars
  <2>2. CASE Next /\ \A j, k \in Jobs : ~Duplicate(j, k)
    BY <2>2, SliceStep
  <2> QED BY <2>1, <2>2
<1> QED BY <1>1, <1>2, <1>3, <1>4, TypeCorrect, PTL DEF Spec, NoClones

=============================================================================
