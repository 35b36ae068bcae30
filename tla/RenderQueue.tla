---------------------------- MODULE RenderQueue ----------------------------
(***************************************************************************)
(* The batch queue of app/routes_queue.py together with the parts of       *)
(* app/api.py it drives: the blocking render `_run_swap`, the single run   *)
(* started by /api/swap, and the stop, pause and benchmark endpoints.      *)
(*                                                                         *)
(* Every HTTP handler runs on a thread of the server pool, every           *)
(* queue_start spawns a daemon thread that executes `_loop(gen)`, and      *)
(* /api/swap spawns a thread that executes `_run_swap`.  They share the    *)
(* job list under `_lock`, and the run globals (`_progress`, the stop      *)
(* flag, `roop_globals.processing`, `_segment_spec`) under no lock at all. *)
(* One action below is one section of code that no other thread can see    *)
(* half done, or a stretch whose intermediate states nobody reads.         *)
(***************************************************************************)
EXTENDS Integers, Sequences, FiniteSets

CONSTANTS
    Jobs,            \* job ids; uuid4 in the code, so never used twice
    Initial,         \* the job list restored by load() at startup
    MaxStarts,       \* bound on _generation within one process
    Singles,         \* the threads /api/swap may start
    Segments,        \* the jobs added as a slice of a split render
    Fallback,        \* the jobs added with auto_fallback
    OverlapStarts,   \* FALSE: the user starts again only after the last runner retired
    MaxCalls,        \* bound on user calls, benchmarks and crashes together
    None

Runners == 1 .. MaxStarts          \* a runner is named by its generation token
Threads == Runners \cup Singles

ASSUME ConstantsAssumption ==
    /\ Initial \in Seq(Jobs)
    /\ \A i, k \in DOMAIN Initial : Initial[i] = Initial[k] => i = k
    /\ MaxStarts \in Nat /\ MaxCalls \in Nat
    /\ Segments \subseteq Jobs /\ Fallback \subseteq Jobs
    /\ OverlapStarts \in BOOLEAN
    /\ Singles \cap Runners = {}
    /\ None \notin Jobs /\ None \notin Threads

Active    == {"PREPARING", "PROCESSING", "PAUSE_REQUESTED", "PAUSED"}
Runnable  == {"QUEUED", "RECOVERABLE"}
Done      == {"COMPLETED", "FAILED", "CANCELLED", "INTERRUPTED"}
JobStates == Active \cup Runnable \cup Done

VARIABLES
    \* the job list and its file, guarded by _lock
    order,       \* _queue["jobs"]
    st,          \* job["state"]; "none" for a job that is not in the list
    project,     \* job["project_id"]; a project is named by the job it was created for
    fresh,       \* ids uuid4 has not handed out yet
    origin,      \* the job this one was copied from, or itself: whose payload it carries
    disk,        \* queue.json
    \* the runner flags, never persisted
    running, paused, current, generation,
    creq,        \* jobs whose job["cancel_requested"] is set
    flagged,     \* _cancel_requested
    \* the globals of the run in progress
    processing, full, error, stopReq,   \* _progress: full stands for progress = 1.0
    stopFlag,    \* _stop_requested["flag"]
    gproc,       \* roop_globals.processing, what the workers poll
    lock,        \* owner of _target_context_lock
    spec,        \* roop_globals._segment_spec: the job whose slice is named, or None
    pauseReq, pauseAck,                 \* pause_controller
    \* threads
    pc, jobOf,
    outcome,     \* how the run of _run_swap this thread made really ended
    verdict,     \* what _run_one returned
    retried,     \* runners that used their auto-fallback attempt
    \* the environment
    bench,       \* _benchmark_state["running"]
    stopCalls,   \* handlers past their locked section, about to call stop_swap
    pauseCalls,  \* queue_pause handlers before theirs: what the controller told them
    calls        \* user calls left

idVars     == <<fresh, origin>>
jobVars    == <<order, st, project, idVars, disk>>
flagVars   == <<running, paused, current, generation>>
cancelVars == <<creq, flagged>>
runVars    == <<processing, full, error, stopReq, stopFlag, gproc, lock, spec>>
pauseVars  == <<pauseReq, pauseAck>>
threadVars == <<pc, jobOf, outcome, verdict, retried>>
handlers   == <<stopCalls, pauseCalls>>
envVars    == <<bench, handlers, calls>>
vars == <<jobVars, flagVars, cancelVars, runVars, pauseVars, threadVars, envVars>>

Positions(j) == {i \in DOMAIN order : order[i] = j}
Listed(j)    == Positions(j) # {}

\* _find(id) then _set_state: a job that was removed meanwhile is not there to change.
SetState(j, s) == IF Listed(j) THEN [st EXCEPT ![j] = s] ELSE st

\* A change of the job list, with the _save() every such handler ends with.
Commit(o, s, p) ==
    /\ order' = o /\ st' = s /\ project' = p
    /\ disk' = [order |-> o, st |-> s, project |-> p]

\* Mutants of Recovered: load() takes the states as they are, or offers an
\* interrupted render as one that never started.
RecoveredAsIs(s) == s
RecoveredAsQueued(s) == [j \in Jobs |-> IF s[j] \in Active THEN "QUEUED" ELSE s[j]]

\* _normalize_loaded_job: a render that was interrupted comes back RECOVERABLE.
Recovered(s) == [j \in Jobs |-> IF s[j] \in Active THEN "RECOVERABLE" ELSE s[j]]

\* A sequence without its i-th element.
Without(s, i) == [k \in 1 .. Len(s) - 1 |-> IF k < i THEN s[k] ELSE s[k + 1]]

\* A sequence with x put right after its i-th element.
PutAfter(s, i, x) ==
    [k \in 1 .. Len(s) + 1 |-> IF k <= i THEN s[k] ELSE IF k = i + 1 THEN x ELSE s[k - 1]]

\* A mutant of ClearPause: the acknowledgement outlives the request.
ClearRequestOnly == pauseReq' = FALSE /\ UNCHANGED pauseAck

\* pause_controller.cancel() and finish(), as far as a request is concerned.
ClearPause == pauseReq' = FALSE /\ pauseAck' = FALSE

Init ==
    /\ order = Initial
    /\ st = [j \in Jobs |-> IF Listed(j) THEN "QUEUED" ELSE "none"]
    /\ project = [j \in Jobs |-> None]
    /\ fresh = {j \in Jobs : ~Listed(j)}
    /\ origin = [j \in Jobs |-> j]
    /\ disk = [order |-> order, st |-> st, project |-> project]
    /\ running = FALSE /\ paused = FALSE /\ current = None /\ generation = 0
    /\ creq = {} /\ flagged = {}
    /\ processing = FALSE /\ full = FALSE /\ error = FALSE /\ stopReq = FALSE
    /\ stopFlag = FALSE /\ gproc = FALSE /\ lock = None /\ spec = None
    /\ pauseReq = FALSE /\ pauseAck = FALSE
    /\ pc = [t \in Threads |-> "idle"]
    /\ jobOf = [t \in Threads |-> None]
    /\ outcome = [t \in Threads |-> "none"]
    /\ verdict = [r \in Runners |-> "none"]
    /\ retried = {}
    /\ bench = FALSE /\ stopCalls = {} /\ pauseCalls = {} /\ calls = MaxCalls

-----------------------------------------------------------------------------
(* User calls that edit the list.                                          *)

Call == calls > 0 /\ calls' = calls - 1

\* queue_add; queue_add_batch is several of these in one locked section.
Add(j) ==
    /\ Call /\ j \in fresh
    /\ Commit(Append(order, j), [st EXCEPT ![j] = "QUEUED"], project)
    /\ fresh' = fresh \ {j}
    /\ UNCHANGED <<origin, flagVars, cancelVars, runVars, pauseVars, threadVars, bench, handlers>>

\* queue_remove: refused for the current job.
Remove(j) ==
    /\ Call /\ current # j
    /\ \E i \in Positions(j) :
          Commit(Without(order, i), [st EXCEPT ![j] = "none"], project)
    /\ UNCHANGED <<idVars, flagVars, cancelVars, runVars, pauseVars, threadVars, bench, handlers>>

\* queue_clear: with keep_running everything but the current job goes; without a
\* current job, or without keep_running, everything goes and the batch ends.
Clear(keep) ==
    /\ Call
    /\ LET left == IF keep /\ current # None THEN {current} ELSE {} IN
          /\ Commit(IF left # {} /\ Listed(current) THEN <<current>> ELSE <<>>,
                    [j \in Jobs |-> IF j \in left THEN st[j] ELSE "none"], project)
          /\ running' = (running /\ left # {})
    /\ UNCHANGED <<idVars, paused, current, generation, cancelVars, runVars, pauseVars,
                   threadVars, bench, handlers>>

\* queue_reorder with one id named: it comes first, the rest keeps its order.
Reorder(j) ==
    /\ Call
    /\ \E i \in Positions(j) : Commit(<<j>> \o Without(order, i), st, project)
    /\ UNCHANGED <<idVars, flagVars, cancelVars, runVars, pauseVars, threadVars, bench, handlers>>

\* queue_update with requeue, and queue_retry of one id: any job that is not active.
Requeue(j) ==
    /\ Call /\ Listed(j) /\ st[j] \notin Active
    /\ Commit(order, [st EXCEPT ![j] = "QUEUED"], project)
    /\ creq' = creq \ {j}
    /\ UNCHANGED <<idVars, flagVars, flagged, runVars, pauseVars, threadVars, bench, handlers>>

\* queue_retry without an id.
RetryAll ==
    /\ Call
    /\ LET failed == {j \in Jobs : st[j] \in {"FAILED", "CANCELLED", "INTERRUPTED"}} IN
          /\ Commit(order, [j \in Jobs |-> IF j \in failed THEN "QUEUED" ELSE st[j]], project)
          /\ creq' = creq \ failed
    /\ UNCHANGED <<idVars, flagVars, flagged, runVars, pauseVars, threadVars, bench, handlers>>

\* queue_duplicate: the clone keeps everything but id, state and outputs, so
\* also the slice, the options and the project of the original.
Duplicate(j, k) ==
    /\ Call /\ k \in fresh
    /\ \E i \in Positions(j) :
          Commit(PutAfter(order, i, k), [st EXCEPT ![k] = "QUEUED"],
                 [project EXCEPT ![k] = project[j]])
    /\ fresh' = fresh \ {k}
    /\ origin' = [origin EXCEPT ![k] = origin[j]]
    /\ UNCHANGED <<flagVars, cancelVars, runVars, pauseVars, threadVars, bench, handlers>>

-----------------------------------------------------------------------------
(* Starting, resuming, pausing.                                            *)

\* queue_start: its refusals, and what it does when none applies.  The states
\* are a parameter because some handlers requeue a job and then start.
MayStart(s) ==
    /\ ~running /\ ~processing /\ ~bench
    /\ \E i \in DOMAIN order : s[order[i]] \in Runnable
    /\ generation < MaxStarts
    /\ OverlapStarts \/ \A r \in Runners : pc[r] \in {"idle", "gone"}

Launch ==
    /\ running' = TRUE /\ paused' = FALSE /\ current' = current
    /\ generation' = generation + 1
    /\ pc' = [pc EXCEPT ![generation + 1] = "top"]
    /\ ClearPause

StartIfAllowed(s) ==
    IF MayStart(s) THEN Launch ELSE UNCHANGED <<flagVars, pc, pauseVars>>

Start ==
    /\ Call /\ MayStart(st) /\ Launch
    /\ UNCHANGED <<jobVars, cancelVars, runVars, jobOf, outcome, verdict, retried,
                   bench, handlers>>

\* queue_resume of a RECOVERABLE job: resume_project_job requeues the FIRST job
\* of that project, _resume_job the job itself; both then call queue_start.
ResumeJob(j) ==
    /\ Call /\ Listed(j) /\ st[j] = "RECOVERABLE"
    /\ \E i \in DOMAIN order :
          LET k == order[i]
              resumed == [st EXCEPT ![k] = "QUEUED"]
          IN /\ IF project[j] = None THEN k = j
                ELSE /\ project[k] = project[j]
                     /\ \A h \in 1 .. i - 1 : project[order[h]] # project[j]
             /\ st[k] \notin Active
             /\ Commit(order, resumed, project)
             /\ creq' = creq \ {k}
             /\ StartIfAllowed(resumed)
    /\ UNCHANGED <<idVars, flagged, runVars, jobOf, outcome, verdict, retried, bench, handlers>>

\* queue_segment_rerender: one slice again; start: true also starts an idle runner.
Rerender(j, start) ==
    /\ Call /\ origin[j] \in Segments /\ Listed(j) /\ current # j
    /\ st[j] \in Done \cup {"RECOVERABLE"}
    /\ LET again == [st EXCEPT ![j] = "QUEUED"] IN
          /\ Commit(order, again, project)
          /\ IF start THEN StartIfAllowed(again) ELSE UNCHANGED <<flagVars, pc, pauseVars>>
    /\ creq' = creq \ {j}
    /\ UNCHANGED <<idVars, flagged, runVars, jobOf, outcome, verdict, retried, bench, handlers>>

\* pause_controller.request(): acknowledged at once unless work is in flight.
RequestPause ==
    /\ pauseReq' = TRUE
    /\ \/ pauseAck' = TRUE
       \/ pauseAck' = pauseAck /\ \E t \in Threads : pc[t] = "render"

\* queue_pause: the controller is asked, if a run is processing, BEFORE the lock
\* is taken; under it the batch is held and the job that is current by then is
\* marked with what the controller had said.
PauseAsk ==
    /\ Call
    /\ IF processing THEN RequestPause ELSE UNCHANGED pauseVars
    /\ pauseCalls' = pauseCalls \cup {pauseAck'}
    /\ UNCHANGED <<jobVars, flagVars, cancelVars, runVars, threadVars, bench, stopCalls>>

PauseMark(safe) ==
    /\ safe \in pauseCalls /\ pauseCalls' = pauseCalls \ {safe}
    /\ paused' = TRUE
    /\ Commit(order,
              IF current = None THEN st
              ELSE SetState(current, IF safe THEN "PAUSED" ELSE "PAUSE_REQUESTED"),
              project)
    /\ UNCHANGED <<idVars, running, current, generation, cancelVars, runVars, pauseVars,
                   threadVars, bench, stopCalls, calls>>

\* queue_resume without a recoverable job.
Resume ==
    /\ Call /\ ClearPause
    /\ paused' = FALSE
    /\ Commit(order,
              IF current # None /\ st[current] \in {"PAUSE_REQUESTED", "PAUSED"}
              THEN SetState(current, "PROCESSING") ELSE st,
              project)
    /\ UNCHANGED <<idVars, running, current, generation, cancelVars, runVars, threadVars,
                   bench, handlers>>

\* /api/pause and /api/resume: the run is paused, the queue is not told.
PauseSwap ==
    /\ Call /\ processing /\ RequestPause
    /\ UNCHANGED <<jobVars, flagVars, cancelVars, runVars, threadVars, bench, handlers>>

ResumeSwap ==
    /\ Call /\ ClearPause
    /\ UNCHANGED <<jobVars, flagVars, cancelVars, runVars, threadVars, bench, handlers>>

-----------------------------------------------------------------------------
(* Stopping.                                                               *)

\* stop_swap: nothing to do unless a run is processing.
StopSwap ==
    IF processing
    THEN /\ ClearPause
         /\ gproc' = FALSE /\ stopFlag' = TRUE /\ stopReq' = TRUE
         /\ UNCHANGED <<processing, full, error, lock, spec>>
    ELSE UNCHANGED <<runVars, pauseVars>>

\* /api/stop.
StopRun ==
    /\ Call /\ StopSwap
    /\ UNCHANGED <<jobVars, flagVars, cancelVars, threadVars, bench, handlers>>

\* queue_cancel: the locked section.  The current job is flagged and its run is
\* stopped by a call made AFTER the lock is released; any other is cancelled here.
Cancel(j) ==
    /\ Call /\ Listed(j) /\ st[j] \notin {"COMPLETED", "FAILED", "CANCELLED"}
    /\ creq' = creq \cup {j}
    /\ IF current = j
       THEN /\ flagged' = flagged \cup {j}
            /\ stopCalls' = stopCalls \cup {j}
            /\ Commit(order, st, project)
       ELSE /\ Commit(order, [st EXCEPT ![j] = "CANCELLED"], project)
            /\ UNCHANGED <<flagged, stopCalls>>
    /\ UNCHANGED <<idVars, flagVars, runVars, pauseVars, threadVars, bench, pauseCalls>>

\* A mutant of EndBatch: it also forgets the current job.
EndBatchAndJob == running' = FALSE /\ paused' = FALSE /\ current' = None

\* The flags queue_stop clears.
EndBatch == running' = FALSE /\ paused' = FALSE /\ UNCHANGED current

\* queue_stop: the locked section; the run is stopped after it, if one is processing.
Stop ==
    /\ Call
    /\ EndBatch
    /\ LET hit == IF current # None /\ Listed(current) THEN {current} ELSE {} IN
          creq' = creq \cup hit /\ flagged' = flagged \cup hit
    /\ Commit(order, st, project)
    /\ stopCalls' = stopCalls \cup {current}
    /\ UNCHANGED <<idVars, generation, runVars, pauseVars, threadVars, bench, pauseCalls>>

\* The call of stop_swap that queue_cancel and queue_stop end with.
StopCall(j) ==
    /\ j \in stopCalls
    /\ stopCalls' = stopCalls \ {j}
    /\ StopSwap
    /\ UNCHANGED <<jobVars, flagVars, cancelVars, threadVars, bench, pauseCalls, calls>>

-----------------------------------------------------------------------------
(* The runner, `_loop` and `_run_one`.                                     *)

Goto(t, label) == pc' = [pc EXCEPT ![t] = label]

\* Stopped, or a newer batch owns the queue.
Retire(r) ==
    /\ pc[r] = "top" /\ (~running \/ r # generation)
    /\ Goto(r, "gone")
    /\ UNCHANGED <<jobVars, flagVars, cancelVars, runVars, pauseVars, jobOf, outcome,
                   verdict, retried, envVars>>

\* A mutant of Pending: a failed job is taken up again by the batch itself.
PendingOrFailed == {i \in DOMAIN order : st[order[i]] \in Runnable \cup {"FAILED"}}

\* _next_pending: the positions of the jobs a runner may dispatch.
Pending == {i \in DOMAIN order : st[order[i]] \in Runnable}

\* The runner still owns the batch and nothing holds it back.
MayDispatch(r) == pc[r] = "top" /\ running /\ r = generation /\ ~paused /\ ~bench

Drain(r) ==
    /\ MayDispatch(r) /\ Pending = {}
    /\ running' = FALSE /\ current' = None
    /\ Commit(order, st, project)
    /\ Goto(r, "gone")
    /\ UNCHANGED <<idVars, paused, generation, cancelVars, runVars, pauseVars, jobOf,
                   outcome, verdict, retried, envVars>>

Dispatch(r) ==
    /\ MayDispatch(r)
    /\ \E i \in Pending :
          /\ \A k \in Pending : i <= k
          /\ Commit(order, [st EXCEPT ![order[i]] = "PREPARING"], project)
          /\ creq' = creq \ {order[i]}
          /\ current' = order[i]
          /\ jobOf' = [jobOf EXCEPT ![r] = order[i]]
    /\ Goto(r, "prep")
    /\ outcome' = [outcome EXCEPT ![r] = "none"]
    /\ UNCHANGED <<idVars, running, paused, generation, flagged, runVars, pauseVars,
                   verdict, retried, envVars>>

\* The only look at the cancel flags before the render.
Cancelled(j) == j \in creq \/ j \in flagged

CheckCancel(r) ==
    /\ pc[r] = "prep"
    /\ IF Cancelled(jobOf[r])
       THEN Goto(r, "book") /\ verdict' = [verdict EXCEPT ![r] = "CANCELLED"]
       ELSE Goto(r, "activate") /\ UNCHANGED verdict
    /\ UNCHANGED <<jobVars, flagVars, cancelVars, runVars, pauseVars, jobOf, outcome,
                   retried, envVars>>

\* Target gone, selection or checkpoint invalid: the job ends before any render.
\* Activation takes the target lock, so it waits for a render in progress.
PrepareFails(r) ==
    /\ pc[r] = "activate" /\ lock = None
    /\ Goto(r, "book")
    /\ \E v \in {"FAILED"} \cup (IF project[jobOf[r]] # None THEN {"RECOVERABLE"} ELSE {}) :
          verdict' = [verdict EXCEPT ![r] = v]
    /\ UNCHANGED <<jobVars, flagVars, cancelVars, runVars, pauseVars, jobOf, outcome,
                   retried, envVars>>

\* _segment_spec_for: a slice is named by the job it was split off as.
SliceOf(j) == IF origin[j] \in Segments THEN origin[j] ELSE None

\* Activated and validated: the project is created, PROCESSING is persisted, and
\* the run globals are claimed without a look at who holds them.
Prepare(r) ==
    LET j == jobOf[r] IN
    /\ pc[r] = "activate" /\ lock = None
    /\ Commit(order, SetState(j, "PROCESSING"),
              IF project[j] = None THEN [project EXCEPT ![j] = j] ELSE project)
    /\ processing' = TRUE /\ full' = FALSE /\ error' = FALSE
    /\ spec' = SliceOf(j)
    /\ Goto(r, "claimed")
    /\ UNCHANGED <<idVars, flagVars, cancelVars, stopReq, stopFlag, gproc, lock, pauseVars,
                   jobOf, outcome, verdict, retried, envVars>>

\* A mutant of Verdict: the error is not looked at.
VerdictWithoutError(j) ==
    IF Cancelled(j) THEN "CANCELLED" ELSE IF ~gproc /\ ~full THEN "INTERRUPTED" ELSE "COMPLETED"

\* What _run_one concludes from the shared globals once _run_swap returned.
Verdict(j) ==
    IF Cancelled(j) THEN "CANCELLED"
    ELSE IF error THEN "FAILED"
    ELSE IF ~gproc /\ ~full THEN "INTERRUPTED"
    ELSE "COMPLETED"

Classify(r) ==
    /\ pc[r] = "post"
    /\ verdict' = [verdict EXCEPT ![r] = Verdict(jobOf[r])]
    /\ Goto(r, "book")
    /\ UNCHANGED <<jobVars, flagVars, cancelVars, runVars, pauseVars, jobOf, outcome,
                   retried, envVars>>

\* A mutant of Uncancel: only the job's own flag is cleared.
UncancelJobOnly(j) == creq' = creq \ {j} /\ UNCHANGED flagged

\* The cancel request was for the run that is over.
Uncancel(j) == creq' = creq \ {j} /\ flagged' = flagged \ {j}

\* The bookkeeping of _loop: the job may have been removed meanwhile, and
\* `current` is cleared whichever job it names.
Book(r) ==
    LET j == jobOf[r] IN
    /\ pc[r] = "book"
    /\ Commit(order, SetState(j, verdict[r]), project)
    /\ Uncancel(j)
    /\ current' = None
    /\ jobOf' = [jobOf EXCEPT ![r] = None]
    /\ retried' = retried \ {r}
    /\ Goto(r, "top")
    /\ UNCHANGED <<idVars, running, paused, generation, runVars, pauseVars, outcome,
                   verdict, envVars>>

-----------------------------------------------------------------------------
(* A single run, and `_run_swap` itself for either kind of thread.         *)

\* trigger_swap and _start_existing_project: the guards, then the claim.
SingleAsk(s) ==
    /\ Call /\ pc[s] = "idle" /\ ~processing /\ ~bench
    /\ Goto(s, "asked")
    /\ UNCHANGED <<jobVars, flagVars, cancelVars, runVars, pauseVars, jobOf, outcome,
                   verdict, retried, bench, handlers>>

SingleClaim(s) ==
    /\ pc[s] = "asked"
    /\ processing' = TRUE /\ full' = FALSE /\ error' = FALSE
    /\ Goto(s, "claimed")
    /\ UNCHANGED <<jobVars, flagVars, cancelVars, stopReq, stopFlag, gproc, lock, spec,
                   pauseVars, jobOf, outcome, verdict, retried, envVars>>

\* The preamble: the target lock for the whole run, and a stop flag wiped clean.
Enter(t) ==
    /\ pc[t] = "claimed" /\ lock = None
    /\ lock' = t
    /\ stopFlag' = FALSE
    /\ Goto(t, "entered")
    /\ UNCHANGED <<jobVars, flagVars, cancelVars, processing, full, error, stopReq, gproc,
                   spec, pauseVars, jobOf, outcome, verdict, retried, envVars>>

\* Input digests verified, settings applied: the workers are let loose.
Arm(t) ==
    /\ pc[t] = "entered"
    /\ processing' = TRUE /\ stopReq' = FALSE /\ full' = FALSE /\ error' = FALSE
    /\ gproc' = TRUE
    /\ Goto(t, "render")
    /\ UNCHANGED <<jobVars, flagVars, cancelVars, stopFlag, lock, spec, pauseVars, jobOf,
                   outcome, verdict, retried, envVars>>

\* ApiProgress: the analysis pass and the last frame both report 1.0, and a new
\* pass starts from 0 again.
Report(t) ==
    /\ pc[t] = "render" /\ ~pauseAck
    /\ full' = ~full
    /\ UNCHANGED <<jobVars, flagVars, cancelVars, processing, error, stopReq, stopFlag,
                   gproc, lock, spec, pauseVars, threadVars, envVars>>

\* The pipeline is quiet and its output safe.
Acknowledge(t) ==
    /\ pc[t] = "render" /\ pauseReq /\ ~pauseAck
    /\ pauseAck' = TRUE
    /\ UNCHANGED <<jobVars, flagVars, cancelVars, runVars, pauseReq, threadVars, envVars>>

\* _checkpoint_segment, then mark_project_checkpoint: the FIRST job of the
\* project takes the state of the writer.
Checkpoint(r) ==
    /\ pc[r] = "render"
    /\ \E i \in DOMAIN order :
          /\ project[order[i]] = project[jobOf[r]]
          /\ \A h \in 1 .. i - 1 : project[order[h]] # project[jobOf[r]]
          /\ Commit(order,
                    [st EXCEPT ![order[i]] = IF pauseAck THEN "PAUSED" ELSE "PROCESSING"],
                    project)
    /\ UNCHANGED <<idVars, flagVars, cancelVars, runVars, pauseVars, threadVars, envVars>>

\* batch_process_regular returned (or raised) and the stop flag was looked at;
\* the opt-in post-passes follow, and no longer change how the run ends.
RenderEnds(t) ==
    /\ pc[t] = "render" /\ ~pauseAck
    /\ outcome' = [outcome EXCEPT ![t] = IF stopFlag THEN "stopped" ELSE "done"]
    /\ Goto(t, "finish")
    /\ UNCHANGED <<jobVars, flagVars, cancelVars, runVars, pauseVars, jobOf, verdict,
                   retried, envVars>>

\* An exception anywhere between the lock and the end of the render.
RunRaises(t) ==
    /\ pc[t] \in {"entered", "render"} /\ ~(pc[t] = "render" /\ pauseAck)
    /\ outcome' = [outcome EXCEPT ![t] = "failed"]
    /\ Goto(t, "finish")
    /\ UNCHANGED <<jobVars, flagVars, cancelVars, runVars, pauseVars, jobOf, verdict,
                   retried, envVars>>

\* A mutant of FallsBack: the enhancer of the second attempt is not looked at.
FallsBackAgain(t) == outcome[t] = "failed" /\ t \in Runners /\ origin[jobOf[t]] \in Fallback

\* One more attempt, without the enhancer, if the first failed and the job asks for it.
FallsBack(t) ==
    /\ outcome[t] = "failed" /\ t \in Runners
    /\ origin[jobOf[t]] \in Fallback /\ t \notin retried

\* The slice is reset by the finally around both attempts.
SpecAfter(t) == IF t \in Runners /\ ~FallsBack(t) THEN None ELSE spec

\* The end of _run_swap and its finally block; a runner goes on to classify the run.
Finish(t) ==
    LET failed == outcome[t] = "failed" IN
    /\ pc[t] = "finish"
    /\ full' = (full \/ outcome[t] = "done")
    /\ error' = ((error \/ failed) /\ ~FallsBack(t))
    /\ processing' = FALSE /\ stopReq' = FALSE
    /\ ClearPause
    /\ lock' = None
    /\ spec' = SpecAfter(t)
    /\ retried' = IF FallsBack(t) THEN retried \cup {t} ELSE retried
    /\ Goto(t, IF FallsBack(t) THEN "claimed" ELSE IF t \in Runners THEN "post" ELSE "idle")
    /\ UNCHANGED <<jobVars, flagVars, cancelVars, stopFlag, gproc, jobOf, outcome, verdict,
                   envVars>>

-----------------------------------------------------------------------------
(* The benchmark, and the death of the process.                            *)

\* benchmark_threads: refused only while a run is processing.
BenchStart ==
    /\ Call /\ ~processing /\ ~bench
    /\ bench' = TRUE
    /\ UNCHANGED <<jobVars, flagVars, cancelVars, runVars, pauseVars, threadVars, handlers>>

BenchEnd ==
    /\ bench /\ bench' = FALSE
    /\ UNCHANGED <<jobVars, flagVars, cancelVars, runVars, pauseVars, threadVars, handlers, calls>>

\* The process dies and a new one runs load(): the list comes back from the file
\* with every interrupted job RECOVERABLE, everything else starts idle.  load()
\* does not write the file.
Crash ==
    /\ Call
    /\ order' = disk.order /\ st' = Recovered(disk.st) /\ project' = disk.project
    /\ running' = FALSE /\ paused' = FALSE /\ current' = None /\ generation' = 0
    /\ flagged' = {}
    /\ processing' = FALSE /\ full' = FALSE /\ error' = FALSE /\ stopReq' = FALSE
    /\ stopFlag' = FALSE /\ gproc' = FALSE /\ lock' = None /\ spec' = None
    /\ ClearPause
    /\ pc' = [t \in Threads |-> "idle"]
    /\ jobOf' = [t \in Threads |-> None]
    /\ outcome' = [t \in Threads |-> "none"]
    /\ verdict' = [r \in Runners |-> "none"]
    /\ retried' = {}
    /\ bench' = FALSE /\ stopCalls' = {} /\ pauseCalls' = {}
    /\ UNCHANGED <<idVars, disk, creq>>

-----------------------------------------------------------------------------
UserEdits ==
    \/ \E j \in Jobs : Add(j) \/ Remove(j) \/ Reorder(j) \/ Requeue(j)
    \/ \E keep \in BOOLEAN : Clear(keep)
    \/ \E j, k \in Jobs : Duplicate(j, k)
    \/ RetryAll

UserControls ==
    \/ Start \/ PauseAsk \/ Resume \/ PauseSwap \/ ResumeSwap \/ StopRun \/ Stop
    \/ \E j \in Jobs : Cancel(j) \/ ResumeJob(j)
    \/ \E j \in Jobs, start \in BOOLEAN : Rerender(j, start)

\* What a runner does outside _run_swap.
RunnerStep(r) ==
    \/ Retire(r) \/ Drain(r) \/ Dispatch(r) \/ CheckCancel(r)
    \/ PrepareFails(r) \/ Prepare(r) \/ Classify(r) \/ Book(r)

\* The steps that carry a run from its claim to its end.
SwapStep(t) == Enter(t) \/ Arm(t) \/ RenderEnds(t) \/ RunRaises(t) \/ Finish(t)

Next ==
    \/ UserEdits \/ UserControls
    \/ \E j \in Jobs \cup {None} : StopCall(j)
    \/ \E safe \in BOOLEAN : PauseMark(safe)
    \/ \E r \in Runners : RunnerStep(r) \/ Checkpoint(r)
    \/ \E s \in Singles : SingleAsk(s) \/ SingleClaim(s)
    \/ \E t \in Threads : SwapStep(t) \/ Report(t) \/ Acknowledge(t)
    \/ BenchStart \/ BenchEnd \/ Crash

\* A started thread keeps running, a render ends and a benchmark ends; nobody
\* owes the system a user call, a progress report or a crash.
Fairness ==
    /\ \A r \in Runners : WF_vars(RunnerStep(r))
    /\ \A s \in Singles : WF_vars(SingleClaim(s))
    /\ \A t \in Threads : WF_vars(SwapStep(t))
    /\ \A j \in Jobs \cup {None} : WF_vars(StopCall(j))
    /\ \A safe \in BOOLEAN : WF_vars(PauseMark(safe))
    /\ WF_vars(BenchEnd)

Spec == Init /\ [][Next]_vars /\ Fairness

-----------------------------------------------------------------------------
(* Properties.                                                             *)

Labels == {"idle", "asked", "top", "prep", "activate", "claimed", "entered", "render",
           "finish", "post", "book", "gone"}

ListType ==
    /\ order \in Seq(Jobs)
    /\ st \in [Jobs -> JobStates \cup {"none"}]
    /\ project \in [Jobs -> Jobs \cup {None}]
    /\ fresh \subseteq Jobs /\ origin \in [Jobs -> Jobs]
    /\ disk \in [order : Seq(Jobs), st : [Jobs -> JobStates \cup {"none"}],
                 project : [Jobs -> Jobs \cup {None}]]

FlagType ==
    /\ running \in BOOLEAN /\ paused \in BOOLEAN
    /\ current \in Jobs \cup {None} /\ generation \in 0 .. MaxStarts
    /\ creq \subseteq Jobs /\ flagged \subseteq Jobs

RunType ==
    /\ processing \in BOOLEAN /\ full \in BOOLEAN /\ error \in BOOLEAN
    /\ stopReq \in BOOLEAN /\ stopFlag \in BOOLEAN /\ gproc \in BOOLEAN
    /\ lock \in Threads \cup {None} /\ spec \in Jobs \cup {None}
    /\ pauseReq \in BOOLEAN /\ pauseAck \in BOOLEAN

ThreadType ==
    /\ pc \in [Threads -> Labels]
    /\ jobOf \in [Threads -> Jobs \cup {None}]
    /\ outcome \in [Threads -> {"none", "done", "stopped", "failed"}]
    /\ verdict \in [Runners -> Done \cup {"RECOVERABLE", "none"}]
    /\ retried \subseteq Runners

EnvType ==
    /\ bench \in BOOLEAN /\ calls \in 0 .. MaxCalls
    /\ stopCalls \subseteq Jobs \cup {None} /\ pauseCalls \subseteq BOOLEAN

\* Every variable has the type the code gives it.
TypeOK == ListType /\ FlagType /\ RunType /\ ThreadType /\ EnvType

\* A runner holds a job from its dispatch to its bookkeeping.
Holds(r, j) == jobOf[r] = j /\ pc[r] \notin {"idle", "top", "gone"}

\* queue.json is what memory is, or what memory was restored from.
DiskIsCurrent ==
    /\ disk.order = order /\ disk.project = project
    /\ disk.st = st \/ st = Recovered(disk.st)

\* A crash at any point brings the whole list back in order: nothing is lost or
\* runs as finished that was not, and what was active is offered for recovery
\* (_set_state's persist, _save, load).
CrashKeepsQueue ==
    [][Crash => /\ order' = order
                /\ \A j \in Jobs :
                      st'[j] = IF st[j] \in Active THEN "RECOVERABLE" ELSE st[j]]_vars

\* A job shown as preparing, processing or paused is really in a runner's hands:
\* no sequence of pauses, resumes, removals and restarts leaves one stranded,
\* which update, retry and resume would all refuse to touch.
ActiveHasRunner ==
    \A j \in Jobs : st[j] \in Active => \E r \in Runners : Holds(r, j)

\* A cancel flag belongs to a job some runner still holds: it cannot survive the
\* run it was meant for and cancel a later retry of the same job.
FlagHasRunner ==
    \A j \in flagged : \E r \in Runners : Holds(r, j)

\* The job being rendered is the one `current` names, which is what keeps
\* queue_remove, queue_clear and queue_cancel off a job that is mid-render.
RenderIsCurrent ==
    \A r \in Runners :
        pc[r] \in {"claimed", "entered", "render", "finish"} => current = jobOf[r]

\* A run that raised is never booked as completed, although the verdict is read
\* from globals that other threads write.
FailureIsReported ==
    \A r \in Runners :
        pc[r] = "book" /\ outcome[r] = "failed" => verdict[r] \in {"FAILED", "CANCELLED"}

\* The state of a job as JobLifecycle sees it.
Phase(j) ==
    IF st[j] \in Active THEN "running"
    ELSE IF st[j] \in Runnable THEN "waiting"
    ELSE IF st[j] \in Done THEN "ended" ELSE "absent"

Lifecycle == INSTANCE JobLifecycle WITH phase <- [j \in Jobs |-> Phase(j)]

\* The queue implements the job lifecycle: one job at a time, and a job that
\* ended runs again only on request, through every pause, cancel, retry, resume,
\* removal and restart.
ImplementsLifecycle == Lifecycle!Spec

\* The render of a queued job writes under the segment name of that job, through
\* both attempts, whatever was rendered before it.
OwnSegmentName ==
    \A r \in Runners : pc[r] = "render" => spec = SliceOf(jobOf[r])

\* A batch that was started and is not held runs until its jobs are used up, as long as
\* no checkpoint is refused: no interleaving of user calls, single runs, crashes and two
\* generations leaves a batch running with nobody to run it.
BatchEndsIfValid ==
    running ~> \/ ~running \/ paused \/ bench \/ pauseReq
               \/ \E r \in Runners : pc[r] = "book" /\ verdict[r] = "RECOVERABLE"

\* A run that claimed the processing flag gives it back unless it is paused: the
\* application never reports processing forever.
ProcessingEnds == processing ~> (~processing \/ pauseReq)

\* A run that was stopped before it was done is not booked as completed.
StoppedIsNotCompleted ==
    \A r \in Runners :
        pc[r] = "book" /\ outcome[r] = "stopped" => verdict[r] # "COMPLETED"

=============================================================================
