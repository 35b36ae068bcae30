# Formal models of Roop Ultimate

TLA+ models of the concurrent and crash-prone core of this application: the
batch queue, the three ways a render carries frames through its threads, the
two shared services those threads meet in (the swap batcher and the session
pool), and what survives a crash (the segmented writer and the project record).
Each module is translated from the Python source it names; TLC checks small
instances of it, and TLAPS proves the theorems listed below for every value of
the constants.  Paths without a directory are under `app/` or `app/roop/`.

## 1. Inventory

Roop Ultimate is a FastAPI server (`app/api.py`) with a React client.  A user
loads target media and source faces, and either starts a single render
(`/api/swap`) or queues jobs that a daemon thread runs one after the other.  A
render looks up or computes its Stage 1 and 2 results, decodes frames, swaps
faces in each, encodes the result in segments and merges them.

| component | state it keeps | operations | talks to |
|---|---|---|---|
| batch queue, `routes_queue.py` | job list and `queue.json` under `_lock`; running, paused, current, generation; cancel flags | add, remove, clear, reorder, update, duplicate, retry, start, resume, pause, cancel, stop, `_loop`, `_run_one`, `load` | calls `_run_swap` on its own thread; reads and writes the run globals; project checkpoints |
| run globals, `api.py` | `_progress`, `_stop_requested`, `roop_globals.processing`, `_segment_spec`, `_target_context_lock` | swap, stop, pause, resume, benchmark, `_run_swap` | shared by HTTP threads, the runner and the workers, mostly under no lock |
| pause controller, `procmgr_runtime.py` | requested, acknowledged, active scopes, pending output | request, resume, begin, end, pending_output, checkpoint, wait | every thread of a render |
| threaded path, `ProcessMgr.py`, `procmgr_batch.py` | one input and one output queue per worker, the error of the writer | reader, workers, writer, join and close | pause controller, recovery gate, video writer |
| stabilised path, `ProcessMgr._run_stab_parallel` | chunks in flight, blocks, carried warm-up, a write queue | reader, workers, coordinator, writer | pause controller, raw cache, segmented writer |
| raw cache, `stab_dedup.py` | slots with their owner, bytes | acquire, publish, abandon, drop_before | the workers of the stabilised path, the recovery gate |
| scheduler, `runtime_scheduler.py` | leases, two queues, reorder buffer, stop event | decoder, CUDA owner, encoder, run | pause controller, video writer |
| GPU recovery gate, `gpu_recovery.py` | active, waiting, exclusive | shared, exclusive | workers |
| swap batcher, `swap_batcher.py` | the queue of requests, batch size, stopped | submit, wait, run a batch, set_max_batch, stop | workers, VRAM governor, the owner of the run |
| session pool, `session_pool.py`, `FaceSwapInsightFace.py` | sessions, leases, closing; `self.pool`, `_trt_disabled` | lease, return, release; `_infer`, `_rebuild_without_trt` | workers |
| segmented writer, `segment_writer.py`, `journal.py` | segment files, manifest, target; open segment | load, write_frame, finalize, flush, close, merge, cleanup, abort | the writer thread; the next process |
| project record, `project_checkpoint.py`, `stage_checkpoint.py`, `stage_cache.py` | one JSON file per project and a sidecar per stage | new_project, update_state, update_checkpoint, complete_hashes, finalize_inputs, record_stage, discard_stage_cache | `_run_swap`, the writer's callback, the HTTP threads |
| bounded engine, slice join, governor, startup, update, watchdog | stages over bounded queues; finished slices; device budgets; startup phase; update transaction; breadcrumbs | | |
| models, codecs, TensorRT, previews, UI | numerical code, child processes, vendor libraries | | |

Hard behaviours.  *Interleaving:* the three flags that say "a render runs" are
checked and set by different threads under different locks or none; the swap
model's attributes are read and written by all workers without a lock.
*Ordering:* frames are dealt and collected round robin, reordered, or cut into
chunks that a pause sends back; pause, stop and resume each write several
variables.  *Failure:* a frame, an encoder, a merge, an engine or a checkpoint
may fail.  *Crash:* `queue.json`, the project record, the manifest and the
segment files are all that survives.  *Liveness:* every thread of a render can
block on a bounded queue, a lease, a condition or a gate.  What makes each
component correct is stated by the properties in section 4; `PROJECT.json`
lists every component, including the ones with no model and why, and every
hazard at its line.

## 2. Modules

| module | models | proofs |
|---|---|---|
| `RenderQueue` | `routes_queue.py`, and `_run_swap`, stop, pause and the benchmark of `api.py` | `RenderQueue_proofs` |
| `JobLifecycle` | what the queue promises about a job; implemented by `RenderQueue` | |
| `RenderedClip` | what a render promises about its video; implemented by `StreamScheduler` and `StabPipeline` | |
| `PauseController` | the pause controller, shared by the three paths below | |
| `FramePipeline` | the threaded path with the recovery gate | `FramePipeline_proofs` |
| `StabPipeline` | the stabilised path | `StabPipeline_proofs` |
| `StabDedup` | the raw cache between the blocks of that path and the recovery gate | `StabDedup_proofs` |
| `StreamScheduler` | the scheduler path | `StreamScheduler_proofs` |
| `SwapBatcher` | the swap batcher with its workers, its governor and its owner | `Swap_proofs` |
| `SwapFallback` | the session pool and the fallback off a broken engine | `Swap_proofs` |
| `SegmentWriter` | the segmented writer over several runs | `SegmentWriter_proofs` |
| `ProjectRecord` | the project record, the stage cache and the resume checks over several runs | `ProjectRecord_proofs` |
| `MC*` | the values TLC uses | |

**RenderQueue.**  The job list is `order`, `st` and `project`; a handler that
saves is an action that ends in `Commit`, which writes `disk` too.  A runner is
named by its generation, and `pc[r]` walks through `_loop`: *top* (look for a
job), *prep* (dispatched), *activate* (the checkpoint was accepted), *claimed*
(`_progress["processing"]` set), *entered* (inside `_run_swap`, the stop flag
looked at and wiped), *render*, *finish*, *post* (classify), *book*.  One
action is a section under `_lock`, or a stretch whose intermediate states no
other thread reads; a handler that leaves the lock and then acts is two actions
(`Cancel` or `Stop`, then `StopCall`; `PauseAsk`, then `PauseMark`).  A crash
restores the list from `disk`.  A single run is a thread in `Singles`.
Projects are named by the job they were made for, so a duplicate shares one.

**PauseController** is the record `pause` and its operators: a request, the
count of scopes in use, the count of reserved outputs, and the acknowledgement
that both are zero.  The legacy flag `roop.globals.pause` stays with the paths.

**FramePipeline.**  `inQ[w]` and `outQ[w]` are the queues of worker `w`, and
`pause` and `recovery` the fields of the two objects.  A worker goes from
`Take` through `Admit` (the shared gate) and `Begin` (the pause scope) to
`Work`, `End` and `Leave`, and to `Fallback` if the attempt failed, or `Drain`
and `Wait` for the retry alone.  Each condition-variable section is one action.
The writer takes queues in turn (`Turn`), encodes, clears the reservation,
checks the pause and parks.  The waits with a timeout (0.1 s, 0.25 s, 0.5 s)
are polls: the action is enabled when the poll can end.  The two long timeouts
appear as choices: the deadline of a sentinel (300 s, `LongPause`) and the end
mark a worker drops after 10 s.  User calls are taken apart where the code
writes two variables (`CallBegins`, `CallEnds`).

**StabPipeline.**  `rpc` is the reader, `wpc` and `at` the workers and the frame
of the block they are on, `phase` the coordinator and `xpc` the writer.  A chunk
in `inflight` carries its own warm-up (`carry`), its results and the blocks not
yet done; `at` names a frame by chunk and index, so that computing it under
another chunk's index would show.  A worker does not wait in a pause: it hands
the block back, and the coordinator retires each chunk in flight
(`Settle` actions), writes what is contiguous and queues the rest again behind
the end mark it may already have taken.  `Breaks` says which of decoder, block
and encoder may fail for good.

**StabDedup** keeps only the frames two neighbouring blocks share.  `table` is
the dictionary of slots, `owned` the slot a worker has promised to fill, and a
worker in `lost` holds a slot object that `drop_before` took out of the
dictionary.  The lock sections of acquire, publish and abandon are one action
each; the copy between the ceiling check and the addition is not atomic.

**StreamScheduler.**  A packet goes from the decoder (`dpc`) through `decodeQ`
to the CUDA owner (`ppc`), through `encodeQ` into the reorder buffer `pending`
and to the encoder (`epc`); `leases` is the semaphore.  Every timed wait that
finds the run stopped is a disjunct of its action.  `flushing` is set when the
encoder has met the end mark: from then on it empties the buffer in the order of
its frames and no longer waits for the one that is due.

**SwapBatcher.**  A request is named by worker, face and tile, and an output by
the request it was computed from, so an answer that belongs to another crop is
a different value.  The model run returns the whole batch, one output too few,
or nothing.  `owner` is the thread in `stop()`; `LateStop` lets it come while
workers are at work, as after a join that gave up.

**SwapFallback.**  Each read and write of `self.pool`, `_trt_disabled` and the
model attribute is an action of its own, each section under a pool's condition
one action.  A pool is a member of `pools` in the order of construction, a
session is a number in it.  Its specification is called `PoolSpec`, and the
worker threads `Callers`, so that one module can speak of it and of the batcher.

**SegmentWriter.**  `files`, `manifest` and `target` survive; everything else
belongs to the run and is reset by `Over`.  A file is a record of who wrote
which frames and whether it is playable; the manifest lists files with their
frame counts, and with a hash while the run that wrote them lives on.  `Start`
is `__init__` with `_load_resume`; `WriteFrame`, `FlushCheckpoint` and
`EndOfRender` lead to `Trailer`, `TrailerFails` or `DropEmpty`; close goes on
to the merge and the cleanup.  `ParityFails` is the check of `procmgr_batch.py`
that comes before close: a path either counts its own frames (the threaded
path) or not (the stabilised and the scheduler path), and the model tries both.
`Crash` may come between any two actions; `PowerLoss` also damages one file.

**ProjectRecord.**  `record` is the JSON file; each function that loads,
changes and saves it under `_RECORD_LOCK` is one action, except `record_stage`,
which removes files between its load (`SweepStage2`, into `held`) and its save
(`SaveScan`).  The content of the target is the number of edits so far; an edit
always gives a new one.  A digest is the content it was taken from, a stage
result the content, the version and knobs of the process (`live`, chosen again
by every `Crash`) and the ranges it was computed for.  `pc` walks through the
life of one run: *asked*, *stated*, *hashed* (the digests of a new project are
completed by its worker), the preamble, the stages, the parts, the completion.
A digest that cannot be taken or saved stays pending (`HashTarget`), and an
exception of `finalize_inputs` lets the run go on (`VerifyInputs`, which notes
in `checked` whether the run has compared a final digest).  `stopped` is
`_stop_requested` and `processing` is `roop.globals.processing`: the user's stop
writes both, `GiveUp` only the second, and `NoEncoder` ends a run with neither.
PAUSED, INTERRUPTED, RECOVERABLE and FAILED are one state, `UNFINISHED`.
Two handlers may have decided to mark the record and wait for the lock
(`marking`); one may hold a record it has loaded (`asking`, `loaded`):
GET /api/projects, or `project_resume`, which checks the parts, deletes a bad
last one (`TailDeleted`), saves what it had loaded without the lock
(`ResumeSave`), does so again if the project is a job of the queue
(`ResumeAgain`), and starts a run if none is live (`ResumeStart`).  `unsure` and
`cutShort` are history that the properties speak of and no action reads.  The
manifest is the one of `SegmentWriter`, at the granularity of committed parts.

How they meet.  A *render* of `RenderQueue` is one run of `FramePipeline`,
`StabPipeline` or `StreamScheduler`; all three use `PauseController` and end in
a write to `SegmentWriter`, whose manifest `ProjectRecord` compares with the
record; inside `Work` a worker calls `SwapBatcher` or `SwapFallback`.  The
modules are checked one by one, with the neighbour reduced to what its answers
may be: a model run succeeds, fails, runs out of memory or yields nothing; an
encoder takes a frame or raises; the user's pause, resume and stop are the same
calls in every path.

## 3. Bounds

| run | bounds | why they are enough |
|---|---|---|
| `queue_serial` | two jobs, one with a slice and a fallback, two starts one after the other, four calls | a job that runs, one that waits, a restart, and any three calls around them |
| `queue_threads` | a third id for a duplicate, overlapping starts, a single run, three calls | two runners and a single run are all the threads that can meet |
| `frames_render` | two workers, two frames, queues of one, one frame that fails, an encoder that fails, expired deadlines, three calls | the round robin wraps, a queue fills, and pause, resume and stop all happen |
| `stab_render` | four frames in two chunks of two blocks, two workers, two chunks in flight, all failures, two calls | a pause cuts two chunks at different points, with a carry between them and the end of stream before or after |
| `stab_dedup` | three blocks in two chunks, two shared frames per boundary, two workers, room for one entry, one pause | a slot is awaited, refused, dropped and redone |
| `scheduler` | five frames, three leases, queues of one, a frame that may yield nothing with three behind it, all failures, three calls | the clip is encoded whole, or the reorder buffer holds a gap with every lease behind it: the lock-up happens |
| `batcher` | two workers, three faces of two tiles, batches up to three | a batch mixes faces, is cut, comes back short; the stop meets each state of the thread |
| `swap_fallback` | three workers with one call each, a pool of two, three pools in all | two workers rebuild at once while a third holds, awaits or asks for a session |
| `segments_resume` | three frames, segments of at most two, two identities, three runs | a segment that fills, one cut by a pause, a resume of a resume |
| `project_record` | two parts, two versions, one edit, three turns (`MaxTurns`: runs, and calls that meet a run, together); the versions are symmetric | three runs, killed at each step, or two with a call at each moment of one; an edit before, between and after the parts |

`MaxCalls`, `MaxStarts`, `MaxRuns`, `MaxEdits`, `MaxTurns`, `MaxPauses`, `MaxPools`,
`Calls` and `Rounds` bound the environment, not the code.  `CHECK_DEADLOCK FALSE` is set
because a render ends and the user may do nothing more: the system then rests.
That it rests only there is what the liveness properties say.


## 4. Runs

Runs that pass:

- `queue_serial`: `ActiveHasRunner` (a job shown as active is in a runner's
  hands), `RenderIsCurrent` (the job being rendered is the one the guards of
  remove, clear and cancel look at), `FailureIsReported` (a run that raised is
  never booked as completed), `ImplementsLifecycle` (`JobLifecycle!Spec`).  It
  assumes that the user does not start again before the last runner has retired
  (`OverlapStarts = FALSE`) and duplicates nothing; section 6 says what happens
  otherwise.
- `queue_threads`: `FlagHasRunner` (a cancel flag never outlives the run it was
  meant for), `CrashKeepsQueue` (a crash brings the list back in order with
  exactly the active jobs recoverable) and, under fairness, `BatchEndsIfValid`
  and `ProcessingEnds`.
- `frames_render`: `InOrder` (the encoded frames are the decoded ones in
  order), `ReservationsExact` (the pending count is the number of undelivered
  outputs), `RetryIsAlone` (no other frame is in the gate during a retry),
  `PausedIsDrained` (what an acknowledged pause means), `RenderEnds` (every
  thread comes down unless the run is left paused).
- `stab_render`: `OutputsAccounted` (the pending count is what workers, chunks,
  queue and writer hold), `ImplementsClip` (`RenderedClip!Spec`: the encoder gets
  the clip frame by frame, in order, without repetition or gap, and whole if the
  run ended by itself), `Aligned`
  (each result in a chunk is that of its own frame, with the tail that precedes
  it), `PauseAnswered` (a pause is acknowledged, or given up with the run),
  `RenderEnds`.
- `stab_dedup`: `BytesAccounted` (the count of bytes is what the slots hold),
  `CeilingNearlyKept` (the ceiling is passed by one entry a worker at most),
  `NoOrphanedSlot` (nobody waits for a slot without a producer), `RenderEnds`.
- `scheduler`: `PacketsAccounted` (every lease is in one packet's hands, every
  reservation too), `ImplementsClip` (`RenderedClip!Spec`, where a frame for which
  the chain yields nothing may be missing), `PauseAnswered`, and `RunEnds`: the run
  ends unless it is left paused or is `LockedUp`, which is said exactly: every
  lease is in the buffer behind a frame that will never come, and nobody has
  stopped the run.  The run meets that state.
- `batcher`: `AnswersMatch` (a request is answered with its own output or an
  error), `InOnePlace` (a request is in the queue, in a batch or with its
  worker, never in two), `AllAnswered` (a submitted request is answered, and a
  stop returns).
- `swap_fallback`: `LeasesExact` (the counters of a pool are its holders and
  waiters), `PublishedIsOpen` (the pool the workers are offered is not closed),
  `CleanCallsSucceed` (a call that begins after the fallback has settled
  succeeds), `CallsReturn` (every call and every release comes to an end).
- `segments_resume`: `FilesAccounted` (what is listed is what the files hold),
  `VideoInOrder` (the parts go only once the video has every frame once, in
  order, under one identity), `CommittedSurvive` (what a crash would leave to
  resume never shrinks).
- `project_record`: `StagesMatchRun` (a stage result that is restored was
  computed for the media, version and ranges of this run), `PartsShareMedia`
  (the parts that are merged were rendered from one content, if a digest was
  final before the first part and every run that kept parts has compared it),
  `CompletedIsWhole` (COMPLETED is said of a whole video only, unless the
  application itself cut a render short), `OnlyOwnersWrite` (no writer of the
  record undoes what another owns, except where `project_resume`, or a stage
  that loaded the record before it, puts an earlier record back: `PutsBack`).
  What the exceptions stand for happens in the model, and section 6 tells it.

Runs that end in a counterexample, each a disagreement of the code with its own
comments or documents:

| run | property | what the code does |
|---|---|---|
| `queue_stopped_completed` | `StoppedIsNotCompleted` | A stop before the run is armed (`api.py:5975`) is overwritten, and the job is booked as completed. |
| `segments_resume_parity` | `WholeRenderIsMerged` | On the stabilised and the scheduler path a resumed render compares the frames of all runs with the frames of this one, and is refused after it has encoded everything. It cannot finish: the next run resumes and fails again, unless all frames are committed by then. |

## 5. Fairness

In every module a thread the code has started takes its next step eventually
(weak fairness per thread), and nobody owes the system a user call, a failure
or a crash.  Where a step stands for a model run, an encode or a build this
assumes that the device answers.

- `RenderQueue`: each runner, each single run past its guard, each handler past
  its lock, the benchmark.
- `FramePipeline`: reader, each worker, writer, the joining thread, and the
  second half of a user's call.  The gate and the queues are entered under weak
  fairness per worker, which is what the polls with a timeout give.
- `StabPipeline`: reader, coordinator, writer, each worker, the second half of a
  call.
- `StabDedup`: each worker, and the coordinator's two steps (settle, requeue).
- `StreamScheduler`: decoder, owner, encoder, the end of `run()`, and the write
  of the stop flag once a stop was asked.
- `SwapBatcher`: the thread, each worker, the steps of a stop that has begun.
- `SwapFallback`: each worker.
- `SegmentWriter` and `ProjectRecord` state no liveness: what they promise is
  about what survives a crash.

`PauseAnswered`, `RenderEnds`, `BatchEndsIfValid` and `ProcessingEnds` except a
run that the user leaves paused; the code then waits for the user as well.

## 6. Limits of the code that the models show without a run of their own

Queue:

- Stop, then Start while the first runner still prepares: both render.  The
  generation token is compared only at the top of the loop.  An old runner then
  clears `current` of the new one, which takes away the protection of the job
  that renders.  `ActiveHasRunner` and `RenderIsCurrent` fail there; the run and
  the theorems that speak of them leave overlapping starts out.
- A job whose checkpoint is refused becomes RECOVERABLE, which is runnable: the
  batch dispatches it again, forever.
- Cancel and stop decide under the lock and act after it, so the late call can
  stop the next job.  An automatic second attempt ignores the cancel flag.
- A duplicated job shares the project of its original (`routes_queue.py:522`),
  and a checkpoint of the clone marks the first job of that project as
  processing.
- A benchmark can start between the dispatch and the claim of a job: the three
  doors to the GPU check three flags without a common lock (`api.py:1684`).
- A pause asked before a resume can be applied after it (`PauseMark`).
- A single run clears the error of a batch job before it is classified.
- The join of a split render runs outside the lock.  A slice that is requeued
  meanwhile is joined in its old form or refused while it is rewritten, and the
  result is recorded on jobs whose old record the requeue has just removed; the
  automatic join and one asked for by hand share the temporary file.  (Read in
  the code; there is no model of it.)

Threaded path:

- A pause near the end that outlasts 300 s clears `processing`; the render ends
  as if stopped, against the comment at `ProcessMgr.py:1755`.
- A resume is two writes, and the reader between them asks for the pause again.
- The original that replaces a failed frame is reserved only after the failed
  attempt has left its pause scope, so a pause can be acknowledged with that
  output pending; `PausedIsDrained` says exactly this much and no more.
- After a stop the pause scope hands frames back unprocessed
  (`procmgr_runtime.py:116`); they are encoded at the end of the partial video.
- The end mark a worker cannot deliver within 10 s is dropped
  (`ProcessMgr.py:1892`); the writer is joined for a limited time.

Stabilised path:

- The same early acknowledgement, against `JOB_CONTRACT.md:13`.  The writer
  looks for the acknowledgement while it still holds its own reservation
  (`ProcessMgr.py:2663`), so the checkpoint at a safe output is practically
  never reached.
- A writer that dies during a pause with results queued leaves the pause
  unacknowledged, and its error unreported until the user resumes or stops.
- The warm-up frames of a block run outside the recovery gate, and what the
  cache calls a hard ceiling is checked in one lock section and charged in
  another.

Scheduler path:

- A frame that yields nothing leaves a gap in the reorder buffer
  (`runtime_scheduler.py:848`).  As many later frames as there are leases, and
  the run never ends (`LockedUp`); a pause behind the gap is never acknowledged.
  In the code only a frame processor without a known subtype yields nothing, and
  then for every frame, so that nothing waits behind it.
- A quick resume and pause can leave the parked encoder with an undelivered
  output until the next resume, and an encoder that fails during a pause leaves
  the owner parked until then.

Batcher and pool:

- `SwapBatcher` documents that the swap context is only touched by one thread;
  inline runs touch it from any worker.  After a join that gave up, a late
  worker finds the batcher set to `None`.
- After a failure of the engine several workers may rebuild at once; the pool of
  the one that publishes first is overwritten, never released, and stays in the
  table of the resource manager.  `_infer` calls the fallback transparent
  (`FaceSwapInsightFace.py:1424`); a second worker that failed on the broken
  engine finds the fallback taken and raises again (line 1279).
- `refresh_pressure` wakes all waiters of a full pool, who look again at once;
  a pool that is enlarged keeps its admission limit.

Persistence:

- After a discarded empty segment the render goes on, and the video has a gap.
- A crash in the cleanup (`segment_writer.py:646`) leaves a whole video and a
  manifest whose first segment is gone: the next run renders from the first
  frame.
- The merged video is not synced before the parts are removed, and a file that
  was not synced before a power loss is only noticed at the next start.
- A crash between the manifest (`segment_writer.py:478`) and the callback that
  puts its digest into the record makes every later resume refuse the project,
  although both are meant to be written together.  After a stop, or a failure
  past the merge, the parts are gone and the record still names them: refused
  as well.
- `complete_hashes` blesses an edit between the stat and the hash, and a file
  that changed before the stat keeps a pending digest that `finalize_inputs`
  passes over.  So does a file that could not be read or a record that could not
  be saved (`project_checkpoint.py:444`).  A run that goes on with a pending
  digest, or after an exception of `finalize_inputs` (`api.py:5748`), adds parts
  to those of an earlier one without comparing contents: an edit in place, of the
  same size, is not seen, and the merged video may show both (`unsure`).  In the
  second case it also uses a stage cache of the old content.
- A render that the application ends early with no stop requested is taken for a
  finished one.  The deadline of a sentinel (`ProcessMgr.py:1740`) and a Ctrl-C
  (`core.py:2107`) clear only `processing`: the parity check is skipped, the
  partial video merged, its count not compared with the trim (`core.py:1946`),
  and `api.py:6089` sees no stop, so the project becomes COMPLETED.  Without a
  working encoder `batch_process` returns normally (`core.py:1788`) and it becomes
  COMPLETED with no video at all (`cutShort`).
- `project_resume` and `resume_project_job` save a record they loaded before
  probing the parts, with no lock (`routes_projects.py:271`,
  `routes_queue.py:1167`), and look for a live run only afterwards.  Whatever was
  saved in between, a segment, a stage, a digest or COMPLETED, is undone, which
  the comment at `project_checkpoint.py:32` means to exclude.  The part they
  delete may be one a live run has committed; its merge then fails.  The record
  keeps the partial output and the manifest that named the part, so the next
  validation refuses the project.
- The last commit of a stopped run writes PROCESSING over INTERRUPTED, and a
  late mark by `stop_swap` or the project list can overwrite COMPLETED.
- When the settings changed the writer starts afresh, while the record's
  committed parts still set the base of the progress.

## 7. Proofs

`tlapm` checks every leaf.  The only assumptions are those a module makes about
its constants: `ConstantsAssumption`, `NoneAssumption` (the mark for nothing is
no member of the sets), `SizesAssumption`, `SwitchAssumption`,
`SchedulerAssumption`, `DedupAssumption`, `StabAssumption`, `PoolAssumption`,
`BuildAssumption` (bounds are natural numbers, switches are Booleans) and
`CallersAssumption` (finitely many threads).  A theorem that needs more of the
environment says so in its own ASSUME.

`RenderQueue_proofs`, with overlapping starts, duplicates and crashes included
unless said otherwise:

- `TypeCorrect`: one lemma per group of actions and per part of the type.
- `DiskCurrent`: inductive with the type, because every handler that changes the
  list ends in `Commit`, and `Crash` leaves memory as `Recovered(disk)`.
  `CrashSafe` follows: `Recovered` of either form is the recovery of what memory
  held.
- `FlagHeld`: `FlagHasRunner` alone is not inductive, because a flag is raised
  for the *current* job.  `HeldInv` adds that the current job is held by some
  runner, and that a runner beyond the generation counter has not started.
- `RenderGuarded`, of the run's assumption that starts do not overlap: `AloneInv`
  says that then at most one runner is outside *idle* and *gone*, and that the
  job it holds is the current one.

The same module, without overlapping starts, for any number of jobs, starts,
single runs, pauses and crashes:

- `ActiveHeld` and `QueueImplementsLifecycle`, without duplicates.  The list is
  seen apart from the runners: `ListKinds` says that every action does one of
  nine things to it (`Idle`, `Marked`, `Asked`, `Withdrawn`, `Arrived`, `Left`,
  `Begun`, `Booked`, `Restarted`, each a small formula), and everything after
  that is about those.  `ListInv` ties the list to the states, `ActiveInv` says
  that a job is active exactly if it is listed and the current one; `ProjectInv`
  is what makes a checkpoint mark the job that renders and no other.  For the
  refinement each of the things maps to one action of `JobLifecycle` or to none
  (`LifecycleStep`).
- `FailureReported`, duplicates included, when no single run interferes: the
  error a failed attempt leaves is still set when the verdict is taken.
- `SegmentNameHeld`: the slice a runner names stays named to the end of its run
  (`OwnSegmentName`, which no run checks).

`FramePipeline_proofs`, for any number of workers and frames:

- `GateExact`: `GateInv` relates the counters of the gate to the threads.  The
  workers inside it, the one that runs its retry aside, are as many as
  `recovery.shared` counts, the waiting ones as `recovery.waiting`; while the
  gate is held alone no other worker is inside, and at most one worker holds it.
  `RetryAlone` is a consequence.
- `TypeCorrect`: `TypeOK` needs `GateInv`, for the counters that are decremented
  without a clamp, and `CarryInv`, that the reader has a frame of the clip where
  it puts one and a worker an output where it delivers one.

The same module also proves, for any number of calls and any queue depth,
`VideoIsTheClip` (`InOrder`).  The frames of a worker form a line: its
output queue, the frame it is on, its input queue.  `QueueLines` says that every
line rises and is closed only by its end mark, that what is on a line belongs to
its worker and lies between what was fetched and what was read (`Bounded`), and
that nothing of that is missing (`Complete`).  `FirstIsNext` follows: the first
output on the line whose turn it is, is the next frame, and an end mark there
means that no frame is left anywhere.  A step of a worker moves a frame along
its line (`MovesAlong`); only the reader lengthens a line, and only the writer
takes from it.  Nothing is claimed of a stopped run, nor of the queues once the
writer sweeps them.

The same module proves the pause honest, from those queues and `HonestInv`
(`pause.active` counts the workers inside a model run, an acknowledgement
belongs to a request, no queue exceeds its depth, and until a stop no output is
refused):

- `ReservationsAreExact` (`ReservationsExact`): `pause.pending` is the number of
  workers that hold an output, plus the queue places that hold one, plus one for
  the item the writer has in hand.  A delivery moves an output from the first to
  the second, a fetch from the second to the third (`QueuedAppend`, `QueuedTail`),
  and only a model run or a fallback adds one and only the writer clears one.
- `PauseIsHonest` (`PausedIsDrained`): the controller acknowledges only with both
  counters zero, which by the first theorem means an empty pipeline
  (`ZeroIsDrained`).  From then until the resume no model run begins, so all that
  comes up is the original of a frame that had failed before (`StaysDrained`).

`Swap_proofs` has the theorems of both services that a worker calls inside `Work`.
Of `SwapBatcher`, for any number of workers, faces and tiles and any
ceiling: `TypeCorrect`, `OwnAnswers` (`AnswersMatch`), `BatchFits` (a batch is
never longer than the ceiling) and `QueueClosed` (nothing enters the queue after
the stop drained it), from one inductive invariant `Inv`.  `OnePlace`
(`InOnePlace`) counts: `Held(r)` adds up how often request `r` stands in the
queue, the batch, the answers due, the leftovers of the drain and the hands of
its own worker, and `OneInv` says that this is one while the answer is owed and
none before and after.  It needs `Hands`, what a thread may have in hand at each
of its places, and `Fresh`, that nobody has seen a request its worker has still
to make.

Of `SwapFallback`, for any number of workers, calls and pools: `PoolTypeCorrect`,
and in two layers the rest.  `Shape` says which pools exist and who may still be building one;
`Leases` counts holders and waiters per pool.  `PoolIsOpen` (`PublishedIsOpen`)
needs the first, `LeaseTable` (`LeasesExact`) both.  `CleanSucceeds`
(`CleanCallsSucceed`) needs two more: `GivenUp`, that the session is replaced and
the pool unset before anyone marks the engine as given up, and that no pool built
later has it; and `CleanInv`, that a call which began after that meets neither
the engine nor a pool that is being closed, although others may still be busy
with the fallback.

`SegmentWriter_proofs`, for any clip, chunk and settings and any number of runs,
crashes and power losses: `FilesTrue` (`FilesAccounted`), `WholeVideo`
(`VideoInOrder`) and the action property `FramesSurvive` (`CommittedSurvive`).
The invariant `Inv` has a part for the list (`ListOK`: segment `i` is file
`i - 1`, and it follows the frames before it unless a render lost some), for the
writer (`WriterOK`: what it believes is what the manifest says, and every listed
file plays), for the file it has open (`FileOK`) and for the merge (`MergeOK`:
only a whole video lets the parts go).  `FramesSurvive` names how many segments a
run would resume from (`ResumesFrom`) and shows that no step but the listed ones
lowers their frames.  The frames of a list are summed by a recursive function.
The induction theorems of the library cannot be used here, so the laws of the sum
are proved once, by an induction stated about a set of naturals (`SetInduction`:
a natural outside it would have a least one), and everything else uses the laws.

`StreamScheduler_proofs`, for any clip, any number of leases, any queue capacity,
any failures and calls: `PacketsHold` (`PacketsAccounted`), `VideoIsTheClip`
(`EncodesClip`) and `SchedulerImplementsClip` (`ImplementsClip`), from one
invariant `Inv`.

- `Phases`: where the threads can be, that an end mark stands last in its queue,
  and that an encoder which flushes has nothing more to come.
- `DecodeLine`: the frames in `decodeQ` and the one with the owner are the next of
  the clip, so `FrontIn`, the first frame the owner has not handed on, is a count:
  the frames read less those in the queue and the one in hand.
- `EncodeLine`: what is encoded, in hand, in the buffer and in `encodeQ` rises in
  this order and lies before `FrontIn`; `DueInv` ties the frame that is due to it.
- `Complete`: whatever precedes a frame the encoder has or will get was encoded, is
  with the encoder or yields nothing (`CompleteHeld`), and unless the owner or the
  encoder has given up the same holds up to `FrontIn` (`CompleteAhead`).  Both are
  needed: after a stop the queue keeps packets behind which others were thrown
  away, and the buffer may still be flushed.  `Gapless` follows for what is
  encoded, also in the flush, which takes the smallest frame there is.
- `CleanInv`: a run that nobody stopped and in which nothing failed ends stage by
  stage, so that at its end nothing is left between the threads (`WholeInv`).
- `LeasesExact`: each step hands a lease on or returns some, and a return never
  meets the clamp of the bounded semaphore.
- `ReserveInv`: the controller counts at least the outputs on their way (`Living`)
  until a stop, and at most those until the scheduler's own stop event; after it
  outputs are dropped without a release, and what bounds the counter is that a
  reservation is only made for a frame that was ahead of it (`Ahead`).
- `PauseInv`: as in `FramePipeline`, an acknowledgement needs both counters at
  zero (`NothingLiving`), and nothing that it drained comes back.

`EncodesClip` speaks of one state, `ImplementsClip` of the steps between them: what
the encoder got is never taken back, it gets frames one by one and only while the
render runs, and an outcome once given changes only from complete to partial, by
a stop that was under way.  The refinement follows from `EncodesClip` in the next
state: a packet that is written (`EncodeShows`) is the next that may come because
the longer video is without a gap, and an undisturbed return (`FinishEnds`) has
every frame.  All the other steps map to none (`ClipStep`).

`StabPipeline_proofs`, for any clip, chunk, block and warm-up, any number of
workers, any depth and capacity, any failures and calls: `GridAligned`
(`Aligned`), `VideoIsTheClip` (`EncodesClip`), `StabImplementsClip`
(`ImplementsClip`) and `ReservationsHold` (`OutputsAccounted`, the type with it),
all from one invariant:

- `Phased`: where each thread can be, and where an end mark can stand.
- `GridInv`: the chunks a pause sent back, the one in hand, those in flight, those
  the reader queued and the one it holds follow on each other without a gap up
  to the frame the decoder reads next (`Chain`, `Pieces`, `Span`), and each
  carries the raw frames before it.  A pause cuts a chunk, and the pieces must
  still be such a line.
- `BlockInv`: a block that is queued or with a worker belongs to a chunk in
  flight, none overlaps another or a result, no more are out than the chunk
  counts (`Owed`), and in a chunk that was not interrupted every frame has its
  result or is in such a block (`Covered`).  So a chunk whose count is zero is
  complete.
- `HandInv`: what was written, what the writer holds and what the first `i` items
  of its queue hold is a beginning of the clip for every `i` (`Put`, `Downward`),
  and with the results in hand it reaches to the chunk whose turn it is (`Due`).
  `EncodedInv` then says that the encoder got that beginning in order.  Nothing
  is claimed of a run that is stopped or lost its writer.
- `PauseInv`: the controller counts the workers in a model run and the results
  that are not with the encoder; while it acknowledges a pause no model runs and
  every such result is a failed frame (`Faults`).  A result moves between chunk,
  hand, queue and writer, and the sums over those sequences follow it.

The refinement is as for the scheduler, with nothing that may be missing: a frame
that is written is the one whose number is the length of the video (`NewFrame`), the
last join ends the render (`ClosedStays`), and since a failure stops the run, its
outcome is whether it is still going (`OutcomeIs`).

`ProjectRecord_proofs`, for any number of parts, runs, calls, versions and edits:
`TypeCorrect`, `OwnersOnly`, `MediaShared`, `StagesOwn` and `CompletedWhole`.
The invariant comes in five layers, each inductive given those before it.

- `Shape`: the types, where a run can be with what in hand, and that a record has
  cache entries only under a key and parts only of a list, the loaded copies
  included.
- `Digests`: a digest once taken stays, and a copy that somebody has loaded has
  the same one or none.  It rests on `StepOwners`, which sorts every step into
  those that keep to their owner's part of the record (`Owners`) and the two that
  put an earlier record back (`PutsLoaded`, `PutsHeld`); `OwnersOnly` is the same
  lemma.  The copy may be older than everything else, so the layers below are
  stated of the record and of both copies alike.
- `Media`: a digest is not later than any part, in the order of the edits
  (`Dating`), and no part is later than the media.  A run that finds its digest
  equal to the media therefore finds the parts equal to it.  `unsure` marks where
  the first half is lost: a digest taken, or not compared, while parts were there.
- `Stages`: a cached result lies between the digest of its key and the media
  (`Keyed`), so under a compared digest it is of the media (`Current`, `Memory`).
- `Completion`: a handler that could put COMPLETED back has loaded it from a whole
  project, and by then there is no part left that it could delete; a run that was
  neither stopped nor cut short closes a full list.

`StabDedup_proofs`, for any clip, any number of workers and any ceiling:

- `SlotsHaveProducers`: `Shape` says that a worker at work is at a frame of its
  block and that the slot it owns is the one of that frame; `SlotInv` that a
  slot in the making has exactly one worker that owns or stores it.  Every
  action either leaves the slots and their producers alone, or ends some slots
  together with their producers (`ClearSlots`), or makes one of each.
- `CeilingHeld`: what is counted and what is about to be stored are together at
  most `Cap + Width - 1`; only a worker that saw a count below the ceiling adds
  to the sum, and then at most all the workers are storing.
- `CountsAreExact` (`BytesAccounted`, the type invariant with it): a store counts
  only what stays in the table, so the argument is that no producer loses its
  slot (`NeverLost`).  Only the drop of a retired chunk could take it;
  `BlockInv` says that the blocks in work lie past every retired chunk and that
  no two workers share one, and a block visits nothing before the warm-up of its
  own (`VisitPlaces`), which the drop spares (`DropSpares`).  `GateInv` counts the
  workers inside the gate and before it.

Only model-checked: the liveness properties, which need fairness and `ENABLED`.
Every invariant and action property that a passing run checks is a theorem, and
so are the refinements.

## 8. Not modelled

Most of the repository is numerical code (detection, recognition, swap,
enhancement, masks, tracking) and its benchmarks, codecs and user interfaces;
its states are tensors and its questions are not about order or failure.  In
the models such code is a step that yields a frame, fails or yields nothing.

Inside the modelled components: joining the slices of a split render, the
segment progress in the snapshot, a `_save` that fails (it is logged); frame
processing without a swap, animated WebP, the camera, `begin(wait=False)`; the
deadline of ten minutes of a raw slot; the admission controller of the
scheduler; the native engine path, `resize` and `warmup` of a pool, which no
render calls; the list of parts for the UI, the recovery journal, a manifest
write that fails, the flush that the quit key of `terminal_dashboard.py` makes
from its own thread; the trajectory sidecar, renders that are not sparse, the
KEEP option, the unlocked saves of the headless commands (`project_render.py:107`,
`run.py:344`), a part that is deleted while it is being encoded, two handlers
that each hold a loaded record, edits that restore an earlier content, and edits
while a run renders.

The remaining components are listed in `PROJECT.json` with the reason.

## 9. Plan

What is left, in the order of what it would add:

| module | question | proof |
|---|---|---|
| `SegmentJoin` | a join never uses a slice that is being rendered again, and its record describes the slices that are there | |
| `FramePipeline` and `RenderedClip` | the threaded path as a third implementation: after a stop its writer may go on while the render is already closed, so its outcome needs a definition of its own | refinement |
| composition of queue, path and writer | a stop reaches the workers; what was committed is what the queue reports | |
| update transaction, startup | journal and rollback, what a failed phase leaves behind | |
