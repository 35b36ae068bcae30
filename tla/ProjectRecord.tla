--------------------------- MODULE ProjectRecord ---------------------------
(***************************************************************************)
(* The record of a project over several runs: what app/project_checkpoint.py*)
(* keeps in its JSON file and beside it, and how _run_swap, the segment      *)
(* writer's callback, the Stage 1/2 cache and the HTTP threads change it.    *)
(*                                                                         *)
(* A writer of the record loads it, changes its part and saves the whole     *)
(* under _RECORD_LOCK, one action, but for project_resume: it loads, deletes  *)
(* a bad last part and saves what it loaded, in steps of its own, with no    *)
(* lock.  Between two actions of the worker the process may die; the user    *)
(* may edit the target media in place, to the same size, until the worker    *)
(* has verified it.  A part is one frame here.                               *)
(***************************************************************************)
EXTENDS Naturals, Sequences

CONSTANTS
    Total,     \* the frames of the trim, each a part of its own
    Lives,     \* what the process adds to the cache key: the version and its ROOP_* knobs
    Scans,     \* the answers a sparse scan may give
    MaxEdits,
    MaxTurns,  \* the runs, and the calls that meet a run, are so many together
    None

ASSUME ConstantsAssumption ==
    /\ Total \in Nat \ {0}
    /\ MaxEdits \in Nat /\ MaxTurns \in Nat \ {0}

VARIABLES
    \* on disk
    target,    \* the content of the target media: the number of edits so far
    record,    \* the project's JSON file
    manifest,  \* the writer's list of committed parts, or None; a part whose file is gone is None
    sidecar,   \* the Stage 2 file beside the record, or None
    video,     \* "none", "partial", "whole"
    \* the run of the worker
    pc, ranges, faces,
    live,      \* the version and the knobs of the process it runs in
    usable,    \* what ProjectStageCache.usable() found, up to the last stage that asks
    held,      \* the record that record_stage has loaded under the lock, or None
    checked,   \* what finalize_inputs found: a digest that is "final", still "pending", or an exception
    stopped,   \* _stop_requested: the user wants the run to end
    processing,\* roop.globals.processing: the render may go on
    \* the HTTP threads
    marking,   \* the handlers that have decided to mark the record and wait for the lock
    asking,    \* where the handler that has loaded the record is: GET /api/projects in "list",
               \* project_resume in "check", "save" or "start"; "none" if there is no such handler
    loaded,    \* the record it has loaded, or None
    runs, calls,
    \* history, for the properties only
    unsure,    \* a run had no final digest to compare the media with while parts of an earlier one were there
    cutShort   \* a render ended early and nobody had stopped it, since the last whole video

disk == <<target, record, manifest, sidecar, video>>
run  == <<live, ranges, faces, usable, held, checked>>
flags == <<stopped, processing>>
http == <<marking, asking, loaded>>
env  == <<runs, calls>>
past == <<unsure, cutShort>>
vars == <<disk, pc, run, flags, http, env, past>>

Contents == 0 .. MaxEdits
Parts    == [of : Contents, by : 0 .. MaxTurns]
Lists    == {list \in Seq(Parts \cup {None}) : Len(list) <= Total}
Keys     == Contents \X Lives
Answers  == [of : Contents, live : Lives, pick : Scans]
Faces    == [of : Contents, live : Lives, pick : Scans \cup {None}]
\* PAUSED, INTERRUPTED, RECOVERABLE and FAILED are all UNFINISHED: nothing here tells them apart.
States   == {"PROCESSING", "UNFINISHED", "COMPLETED"}
Records  == [state : States, stat : Contents, sha : Contents \cup {None}, parts : 0 .. Total,
             manifest : {None} \cup Lists, key : {None} \cup Keys,
             ranges : {None} \cup Answers, faces : {None} \cup Faces]
Labels   == {"off", "asked", "stated", "hashed", "begin", "clear", "open", "lookup", "scan", "sweep1",
             "save1", "prepass", "save2", "render", "notify", "close", "ended", "complete", "seal",
             "sweep", "forget"}

\* What is not there is told apart from everything that may be there.
ASSUME NoneAssumption ==
    /\ None \notin Contents /\ None \notin Parts /\ None \notin Lists /\ None \notin Keys /\ None \notin Scans
    /\ None \notin Answers /\ None \notin Faces /\ None \notin Records

Nothing == [ranges |-> None, faces |-> FALSE]

NewRecord == [state |-> "PROCESSING", stat |-> target, sha |-> None, parts |-> 0, manifest |-> None,
              key |-> None, ranges |-> None, faces |-> None]

Init ==
    /\ target = 0 /\ manifest = None /\ sidecar = None /\ video = "none"
    /\ record = NewRecord
    /\ pc = "asked" /\ live \in Lives /\ ranges = None /\ faces = None /\ usable = Nothing /\ held = None
    /\ stopped = FALSE /\ processing = FALSE /\ checked = "pending"
    /\ marking = {} /\ asking = "none" /\ loaded = None
    /\ runs = 1 /\ calls = 0 /\ unsure = FALSE /\ cutShort = FALSE

-----------------------------------------------------------------------------
(* The user and the HTTP threads.                                          *)

\* A mutant of Marked: a handler that has a record loaded saves that one.
MarkedStale(s) == [(IF loaded = None THEN record ELSE loaded) EXCEPT !.state = s]

\* update_state, as far as the record goes: loaded again under the lock.
Marked(s) == [record EXCEPT !.state = s]

\* The media changes on disk, until the worker has read it for its digest.
Edit ==
    /\ pc \in {"off", "asked", "stated"} /\ target < MaxEdits
    /\ target' = target + 1
    /\ UNCHANGED <<record, manifest, sidecar, video, pc, run, flags, http, env, past>>

\* The partial output the record names is still what is on disk.
PartsMatch == record.manifest # None => record.manifest = manifest

\* validate(quick): a pending digest is judged by size and mtime, a final one by size alone.
Accepts == (record.sha = None => record.stat = target) /\ PartsMatch

Bounded == runs + calls < MaxTurns

\* A call that meets a run is counted; between two runs it changes little.
Counted == IF pc = "off" THEN UNCHANGED calls ELSE Bounded /\ calls' = calls + 1

\* stop_swap: the flags; the mark follows when the handler gets to it.
StopCall ==
    /\ pc # "off" /\ Counted
    /\ stopped' = TRUE /\ processing' = FALSE /\ marking' = marking \cup {"stop"}
    /\ UNCHANGED <<disk, pc, run, asking, loaded, runs, past>>

\* _recover_stale of every GET: a record that was loaded as PROCESSING, and no run.
ListLoad ==
    /\ asking = "none" /\ record.state = "PROCESSING" /\ Counted
    /\ asking' = "list" /\ loaded' = record
    /\ UNCHANGED <<disk, pc, run, flags, marking, runs, past>>

ListCheck ==
    /\ asking = "list" /\ asking' = "none" /\ loaded' = None
    /\ marking' = IF pc = "off" THEN marking \cup {"list"} ELSE marking
    /\ UNCHANGED <<disk, pc, run, flags, env, past>>

\* The worker holds _RECORD_LOCK while it removes a stage's files and saves the record.
Locked == pc \in {"save1", "forget"}

\* update_state of a handler, at whatever moment it gets the lock.
Mark ==
    /\ ~Locked
    /\ \E handler \in marking : marking' = marking \ {handler}
    /\ record' = Marked("UNFINISHED")
    /\ UNCHANGED <<target, manifest, sidecar, video, pc, run, flags, asking, loaded, env, past>>

\* project_resume loads the record, as _recover_stale leaves it; what does not validate is marked.
ResumeLoad ==
    /\ ~Locked /\ asking = "none" /\ Counted
    /\ record' = IF ~Accepts \/ (pc = "off" /\ record.state = "PROCESSING") THEN Marked("UNFINISHED") ELSE record
    /\ IF Accepts THEN asking' = "check" /\ loaded' = record' ELSE UNCHANGED <<asking, loaded>>
    /\ UNCHANGED <<target, manifest, sidecar, video, pc, run, flags, marking, runs, past>>

\* verify_and_recover_segments finds every recorded part good, or one that it may not delete.
TailKept ==
    /\ asking = "check" /\ asking' = "start" /\ loaded' = None
    /\ UNCHANGED <<disk, pc, run, flags, marking, env, past>>

\* ffprobe does not accept the last recorded part: its file is deleted, whoever may be using it.
TailDeleted ==
    LET last == loaded.parts IN
    /\ asking = "check" /\ asking' = "save"
    /\ manifest # None /\ last \in DOMAIN manifest /\ manifest[last] # None
    /\ manifest' = [manifest EXCEPT ![last] = None]
    /\ loaded' = [loaded EXCEPT !.parts = last - 1]
    /\ UNCHANGED <<target, record, sidecar, video, pc, run, flags, marking, env, past>>

\* checkpoints.save: the record as it was loaded, but for that part.  No lock is taken, and
\* resume_project_job goes on if the save fails.
ResumeSave ==
    /\ asking = "save" /\ asking' = "start"
    /\ record' \in {loaded, record} /\ loaded' = None
    /\ UNCHANGED <<target, manifest, sidecar, video, pc, run, flags, marking, env, past>>

\* resume_project_job, for a project of the queue, loads it again and checks its parts again.
ResumeAgain ==
    /\ asking = "start" /\ asking' = "check" /\ loaded' = record
    /\ Counted
    /\ UNCHANGED <<disk, pc, run, flags, marking, runs, past>>

\* An exception on the way, the save of the record included, marks the project.
ResumeFails ==
    /\ ~Locked /\ asking \in {"save", "start"} /\ asking' = "none" /\ loaded' = None
    /\ record' = Marked("UNFINISHED")
    /\ UNCHANGED <<target, manifest, sidecar, video, pc, run, flags, marking, env, past>>

\* A new run, unless one is live: it is woken up if it is paused, or the call is refused.
ResumeStart ==
    /\ asking = "start" /\ asking' = "none"
    /\ IF pc = "off" /\ Bounded THEN pc' = "asked" /\ runs' = runs + 1 ELSE UNCHANGED <<pc, runs>>
    /\ UNCHANGED <<disk, run, flags, marking, loaded, calls, past>>

-----------------------------------------------------------------------------
(* The worker: finalize_inputs, then the preamble of the run.              *)

At(label) == pc = label
To(label) == pc' = label

\* A mutant of Verified: a final digest is compared by size only, as quick does.
VerifiedQuick == PartsMatch

\* The file digests finalize_inputs compares; one still pending is passed over.
Verified == (record.sha # None => record.sha = target) /\ PartsMatch

\* What a run has in memory is released; the next one sets its flags before it reads them.
Released ==
    /\ To("off")
    /\ ranges' = None /\ faces' = None /\ usable' = Nothing /\ held' = None /\ checked' = "pending"
    /\ stopped' = FALSE /\ processing' = FALSE

\* The `finally` of _run_swap.
Over == Released /\ UNCHANGED live

\* The exception of any stage: the project has failed, and the run is over.
Fails == record' = Marked("UNFINISHED") /\ Over

\* A stop that came before is forgotten.  complete_hashes: a file that changed since its identity
\* was taken keeps its pending digest.
StatTarget ==
    /\ At("asked") /\ stopped' = FALSE
    /\ To(IF record.sha = None /\ record.stat = target THEN "stated" ELSE "hashed")
    /\ UNCHANGED <<disk, run, processing, http, env, past>>

\* The digest is taken, or the file cannot be read, or the record not saved, and it stays pending.
HashTarget ==
    /\ At("stated") /\ To("hashed")
    /\ \/ UNCHANGED <<record, unsure>>
       \/ /\ record' = [record EXCEPT !.sha = target]
          /\ unsure' = (unsure \/ manifest \notin {None, <<>>})
    /\ UNCHANGED <<target, manifest, sidecar, video, run, flags, http, env, cutShort>>

\* _run_swap swallows an exception of finalize_inputs and goes on as if nothing had changed.
VerifyInputs ==
    /\ At("hashed")
    /\ \/ ~Verified /\ Fails
       \/ /\ To("begin") /\ UNCHANGED <<record, live, ranges, faces, usable, held, flags>>
          /\ \/ Verified /\ checked' = IF record.sha = None THEN "pending" ELSE "final"
             \/ checked' = "skipped"
    /\ UNCHANGED <<target, manifest, sidecar, video, http, env, past>>

\* The state is PROCESSING again.
Begin ==
    /\ At("begin") /\ To("clear")
    /\ record' = Marked("PROCESSING")
    /\ UNCHANGED <<target, manifest, sidecar, video, run, flags, http, env, past>>

\* _clear_output_folder, if the setting is on: never for a project with committed segments.
ClearOutput ==
    /\ At("clear") /\ To("open")
    /\ \/ UNCHANGED <<manifest, video>>
       \/ record.parts = 0 /\ manifest' = None /\ video' = "none"
    /\ UNCHANGED <<target, record, sidecar, run, flags, http, env, past>>

\* _segments_that_exist: the parts before the first one whose file is gone; none if the run's
\* signature differs.
Resumable ==
    IF manifest = None THEN {<<>>}
    ELSE {<<>>} \cup {SubSeq(manifest, 1, n) : n \in {m \in 1 .. Len(manifest) :
            /\ \A i \in 1 .. m : manifest[i] # None
            /\ m < Len(manifest) => manifest[m + 1] = None}}

\* batch_process sets `processing`, whatever was asked before.  SegmentedVideoWriter.__init__ writes
\* the manifest of what it resumes.
Open ==
    /\ At("open") /\ processing' = TRUE
    /\ \E kept \in Resumable :
          /\ manifest' = kept
          /\ unsure' = (kept # <<>> /\ (unsure \/ checked # "final"))
          /\ To(IF Len(kept) = Total THEN "close" ELSE "lookup")
    /\ UNCHANGED <<target, record, sidecar, video, run, stopped, http, env, cutShort>>

\* ensure_video_encoder fails: batch_process returns normally, with nothing rendered.
NoEncoder ==
    /\ At("open") /\ To("ended") /\ processing' = TRUE /\ cutShort' = TRUE
    /\ UNCHANGED <<disk, run, stopped, http, env, unsure>>

-----------------------------------------------------------------------------
(* Stage 1 and Stage 2, and their cache.                                   *)

\* stage_cache_basis: nothing to key a cache on while a digest is pending.
Key(r) == IF r.sha = None THEN None ELSE <<r.sha, live>>

\* verify_sidecar: the file is the one the record describes.
Intact == record.faces # None /\ sidecar = record.faces

\* usable_stage_cache, looked up once per run.
Lookup ==
    /\ At("lookup") /\ To("scan")
    /\ usable' = IF record.key # Key(record) THEN Nothing
                 ELSE [ranges |-> record.ranges, faces |-> Intact]
    /\ UNCHANGED <<disk, live, ranges, faces, held, checked, flags, http, env, past>>

\* restore_stage1.
RestoreScan ==
    /\ At("scan") /\ usable.ranges # None
    /\ ranges' = usable.ranges /\ To("prepass")
    /\ UNCHANGED <<disk, live, faces, usable, held, checked, flags, http, env, past>>

\* The sparse scan, or its failure; only a settled answer of a run that goes on is recorded.
Scan ==
    /\ At("scan") /\ usable.ranges = None
    /\ \/ \E pick \in Scans :
             /\ ranges' = [of |-> target, live |-> live, pick |-> pick]
             /\ \/ processing /\ To("sweep1")
                \/ To("prepass")
       \/ ranges' = None /\ To("prepass")
    /\ UNCHANGED <<disk, live, faces, usable, held, checked, flags, http, env, past>>

\* record_stage("stage1") loads the record; the sidecars that depend on the stage go first, then it
\* saves what it has loaded.
SweepStage2 ==
    /\ At("sweep1")
    /\ IF Key(record) = None THEN To("prepass") /\ UNCHANGED <<sidecar, held>>
                             ELSE To("save1") /\ sidecar' = None /\ held' = record
    /\ UNCHANGED <<target, record, manifest, video, live, ranges, faces, usable, checked, flags, http, env, past>>

\* The cache under the current key: entries of another key are dropped.
Rekeyed(r) ==
    IF r.key = Key(r) THEN r ELSE [r EXCEPT !.key = Key(r), !.ranges = None, !.faces = None]

SaveScan ==
    /\ At("save1") /\ To("prepass") /\ held' = None
    /\ \/ UNCHANGED record
       \/ record' = [Rekeyed(held) EXCEPT !.ranges = ranges, !.faces = None]
    /\ UNCHANGED <<target, manifest, sidecar, video, live, ranges, faces, usable, checked, flags, http, env, past>>

Pick == IF ranges = None THEN None ELSE ranges.pick

\* A mutant of Fits: faces found between other ranges are taken too.
FitsAnyRanges == usable.faces /\ sidecar # None

\* restore_stage2 takes faces that were computed between the ranges of this run.
Fits == usable.faces /\ sidecar # None /\ sidecar.pick = Pick

RestoreFaces ==
    /\ At("prepass") /\ Fits
    /\ faces' = sidecar /\ usable' = Nothing /\ To("render")
    /\ UNCHANGED <<disk, live, ranges, held, checked, flags, http, env, past>>

\* The pre-pass: it finds no face or is stopped, or its result is written before it is recorded.
PrePass ==
    LET found == [of |-> target, live |-> live, pick |-> Pick] IN
    /\ At("prepass") /\ ~Fits /\ usable' = Nothing
    /\ \/ faces' = None /\ To("render") /\ UNCHANGED sidecar
       \/ faces' = found /\ To("render") /\ sidecar' \in {sidecar, None}
       \/ faces' = found /\ processing /\ To("save2") /\ sidecar' = found
    /\ UNCHANGED <<target, record, manifest, video, live, ranges, held, checked, flags, http, env, past>>

\* record_stage("stage2"); without a key, or if the save fails, only the file is left.
SaveFaces ==
    /\ At("save2") /\ To("render")
    /\ \/ UNCHANGED record
       \/ Key(record) # None /\ record' = [Rekeyed(record) EXCEPT !.faces = sidecar]
    /\ UNCHANGED <<target, manifest, sidecar, video, run, flags, http, env, past>>

-----------------------------------------------------------------------------
(* The swap pass and the end of the run.                                   *)

\* _finalize_segment: the part is in the manifest, then the callback is called.
CommitPart ==
    /\ At("render") /\ Len(manifest) < Total
    /\ manifest' = Append(manifest, [of |-> target, by |-> runs])
    /\ To("notify")
    /\ UNCHANGED <<target, record, sidecar, video, run, flags, http, env, past>>

\* _checkpoint_segment, of a run that may be paused; a checkpoint that fails must not kill the render.
Notify ==
    /\ At("notify") /\ To("render")
    /\ \/ UNCHANGED record
       \/ \E state \in {"PROCESSING", "UNFINISHED"} :
             record' = [record EXCEPT !.state = state, !.parts = Len(manifest), !.manifest = manifest]
    /\ UNCHANGED <<target, manifest, sidecar, video, run, flags, http, env, past>>

\* `processing` is cleared and nobody asked for a stop: the reader gave its sentinel up after 300 s,
\* or Ctrl-C waits in finalize_active_batch for the output.
GiveUp ==
    /\ pc \in {"lookup", "scan", "prepass", "render", "notify", "close"} /\ processing
    /\ processing' = FALSE /\ cutShort' = TRUE
    /\ UNCHANGED <<disk, pc, run, stopped, http, env, unsure>>

\* The swap pass ends: it was the last to use what the run has found.
EndOfRender ==
    /\ At("render") /\ (~processing \/ Len(manifest) = Total) /\ To("close")
    /\ ranges' = None /\ faces' = None /\ checked' = "pending"
    /\ UNCHANGED <<disk, live, usable, held, flags, http, env, past>>

\* SegmentedVideoWriter.close: merge and clean up, unless nothing was committed.  A part whose file
\* is gone makes the merge fail, and the list of a run that went on to its end must be full.
Close ==
    /\ At("close") /\ To("ended")
    /\ \A i \in DOMAIN manifest : manifest[i] # None
    /\ processing => Len(manifest) = Total
    /\ IF manifest = <<>> THEN UNCHANGED <<manifest, video>>
       ELSE manifest' = None /\ video' = IF Len(manifest) = Total THEN "whole" ELSE "partial"
    /\ cutShort' = (cutShort /\ video' # "whole")
    /\ UNCHANGED <<target, record, sidecar, run, flags, http, env, unsure>>

\* A mutant of Ends: a stopped run is completed like any other.
EndsAnyway == To("complete") /\ UNCHANGED <<run, flags>>

\* A run that was stopped returns here and leaves the record as it is.
Ends == IF stopped THEN Over ELSE To("complete") /\ UNCHANGED <<run, flags>>

Ended ==
    /\ At("ended") /\ Ends
    /\ UNCHANGED <<disk, http, env, past>>

Complete ==
    /\ At("complete") /\ To("seal")
    /\ record' = [record EXCEPT !.state = "COMPLETED", !.parts = 0, !.manifest = None]
    /\ UNCHANGED <<target, manifest, sidecar, video, run, flags, http, env, past>>

\* update_state(COMPLETED), then discard_stage_cache: the files, then the entry.
Seal ==
    /\ At("seal") /\ To("sweep")
    /\ record' = Marked("COMPLETED")
    /\ UNCHANGED <<target, manifest, sidecar, video, run, flags, http, env, past>>

Sweep ==
    /\ At("sweep") /\ To("forget")
    /\ sidecar' = None
    /\ UNCHANGED <<target, record, manifest, video, run, flags, http, env, past>>

Forgotten == [record EXCEPT !.key = None, !.ranges = None, !.faces = None]

Forget ==
    /\ At("forget") /\ Over
    /\ record' = Forgotten
    /\ UNCHANGED <<target, manifest, sidecar, video, http, env, past>>

\* An exception between the preamble and the completion, a refused merge included.
Raise ==
    /\ pc \in {"clear", "open", "scan", "prepass", "render", "close", "ended", "complete"} /\ Fails
    /\ UNCHANGED <<target, manifest, sidecar, video, http, env, past>>

\* The process ends or dies, and another one, perhaps of another version, is started.
Crash ==
    /\ Released /\ live' \in Lives
    /\ marking' = {} /\ asking' = "none" /\ loaded' = None
    /\ UNCHANGED <<disk, env, past>>

-----------------------------------------------------------------------------
Http ==
    \/ StopCall \/ ListLoad \/ ListCheck \/ Mark
    \/ ResumeLoad \/ TailKept \/ TailDeleted \/ ResumeSave \/ ResumeAgain \/ ResumeFails \/ ResumeStart

Worker ==
    \/ StatTarget \/ HashTarget \/ VerifyInputs \/ Begin \/ ClearOutput \/ Open \/ NoEncoder
    \/ Lookup \/ RestoreScan \/ Scan \/ SweepStage2 \/ SaveScan
    \/ RestoreFaces \/ PrePass \/ SaveFaces
    \/ CommitPart \/ Notify \/ GiveUp \/ EndOfRender \/ Close \/ Ended
    \/ Complete \/ Seal \/ Sweep \/ Forget \/ Raise

Next == Edit \/ Http \/ Worker \/ Crash

Spec == Init /\ [][Next]_vars

-----------------------------------------------------------------------------
\* The shape of every variable; entries of the cache exist only under a key.
TypeOK ==
    /\ target \in Contents /\ record \in Records /\ manifest \in {None} \cup Lists
    /\ sidecar \in {None} \cup Faces /\ video \in {"none", "partial", "whole"}
    /\ pc \in Labels /\ live \in Lives
    /\ ranges \in {None} \cup Answers /\ faces \in {None} \cup Faces
    /\ usable \in [ranges : {None} \cup Answers, faces : BOOLEAN]
    /\ held \in {None} \cup Records
    /\ stopped \in BOOLEAN /\ processing \in BOOLEAN /\ checked \in {"pending", "final", "skipped"}
    /\ marking \subseteq {"stop", "list"}
    /\ asking \in {"none", "list", "check", "save", "start"} /\ loaded \in {None} \cup Records
    /\ runs \in 0 .. MaxTurns /\ calls \in 0 .. MaxTurns
    /\ unsure \in BOOLEAN /\ cutShort \in BOOLEAN
    /\ record.key = None => record.ranges = None /\ record.faces = None

\* Whatever a run restores from the cache is what it would have computed: from the media as it
\* is, under this process's version and knobs, and faces between the ranges this run skips by.  A
\* run that went on after an exception of finalize_inputs has compared nothing, and is left out.
StagesMatchRun ==
    pc \in {"render", "notify"} /\ checked # "skipped" =>
        /\ ranges # None => ranges.of = target /\ ranges.live = live
        /\ faces # None => faces = [of |-> target, live |-> live, pick |-> Pick]

\* The parts that are merged into one video were all rendered from the same media, whatever the
\* user edits between two runs and wherever the runs are cut short, as long as a digest was final
\* before the first part and every run that kept parts has compared it.
PartsShareMedia ==
    manifest # None /\ pc \in {"render", "notify", "close"} /\ ~unsure =>
        \A i \in DOMAIN manifest : manifest[i] # None => manifest[i].of = target

\* A project is COMPLETED only while its output is a whole video, however runs are stopped, refused
\* or die, and whatever record project_resume puts back; but not when the application itself ended
\* a render early with no stop requested.
CompletedIsWhole == record.state = "COMPLETED" /\ ~cutShort => video = "whole"

\* project_resume puts back the record it loaded, or a stage that had loaded the record before that
\* puts back its own.
PutsBack ==
    \/ asking = "save" /\ asking' = "start"
    \/ pc = "save1" /\ held' = None /\ record # held

\* Every writer saves the whole record, and none undoes what another one saved: the checkpoint,
\* the stage cache and the digests change only in the steps of the worker that own them.  The one
\* exception is the save of project_resume, which takes no lock.
OnlyOwnersWrite ==
    [][\/ PutsBack
       \/ /\ record'.parts # record.parts \/ record'.manifest # record.manifest => pc \in {"notify", "complete"}
          /\ record'.ranges # record.ranges \/ record'.faces # record.faces => pc \in {"save1", "save2", "forget"}
          /\ record'.sha # record.sha => pc = "stated"]_vars

=============================================================================
