---------------------------- MODULE SegmentWriter ----------------------------
(***************************************************************************)
(* SegmentedVideoWriter (roop/segment_writer.py): a render encoded into    *)
(* segment files, a manifest that lists the finished ones, the merge of    *)
(* the segments into one video, and what a later run resumes from.  The    *)
(* process may die between any two actions: files and manifest stay.  With *)
(* the power, the unsynced data of a segment goes too.                     *)
(*                                                                         *)
(* A segment file is named by its index, so a run may write over a file of *)
(* an earlier run.  Left out: a manifest write that fails (it is logged    *)
(* and ignored), and data of the merged video that never reached the disk. *)
(***************************************************************************)
EXTENDS Integers, Sequences

CONSTANTS
    Total,         \* frames of the trim, frame_end - frame_start
    Chunk,         \* ROOP_RESUME_CHUNK
    Settings,      \* the identities a run may have
    None,          \* no file, no manifest, no video, no run
    Broken,        \* a video file the merge has not finished
    DeadEncoder,   \* whether an encoder may exit cleanly without writing a byte
    MaxRuns        \* bound on the runs

ASSUME ConstantsAssumption ==
    /\ Total \in Nat \ {0} /\ Chunk \in Nat \ {0} /\ MaxRuns \in Nat
    /\ DeadEncoder \in BOOLEAN
    /\ None \notin Settings /\ Broken # None

Indices == 0 .. Total - 1

VARIABLES
    files,       \* segment files by index: who wrote which frames, and the trailer
    manifest,    \* <target>.resume.json: identity and segments
    target,      \* the merged video: its segments, Broken or None
    run,         \* identity of the running writer, None when no process runs
    segments,    \* self.segments
    segIndex,    \* self._seg_index, the index of the next or the open file
    open,        \* self._writer is not None
    curFrames,   \* self._cur_frames
    pos,         \* the next frame the render hands over
    processing,  \* roop.globals.processing
    keep,        \* ROOP_RESUME_KEEP, as close() reads it
    resumed,     \* self.resume_frames
    closing,     \* close() was called
    pc,          \* where the writer is
    lost,        \* history: this render discarded an empty segment
    runs         \* runs started

diskVars == <<files, manifest, target>>
optVars  == <<run, resumed>>
memVars  == <<optVars, segments, segIndex, open, curFrames, pos, processing, closing, keep>>
vars     == <<diskVars, memVars, pc, lost, runs>>

Written(s) == LET sum[i \in 0 .. Len(s)] == IF i = 0 THEN 0 ELSE sum[i - 1] + s[i].frames
              IN sum[Len(s)]

TotalEncoded == Written(segments) + curFrames

(***************************************************************************)
(* _load_resume, if the manifest is of the same identity: the listed       *)
(* segments up to the first whose file is gone or, for an entry of the run *)
(* that wrote it, differs from its sha256; of these, the ones that play.   *)
(***************************************************************************)
\* The longest prefix of good positions.
Longest(segs, good) == SubSeq(segs, 1, CHOOSE n \in 0 .. Len(segs) : 1 .. n \subseteq good /\ n + 1 \notin good)

Plays(e)  == files[e.file] # None /\ files[e.file].whole
OnDisk(e) == files[e.file] # None /\ (e.sha => Plays(e))

Listed(segs) == Longest(segs, {i \in DOMAIN segs : OnDisk(segs[i])})
Playable(segs) == Longest(segs, {i \in DOMAIN segs : Plays(segs[i])})

Inherited(e) == [e EXCEPT !.frames = files[e.file].count, !.sha = FALSE]
Prefix(segs) == [i \in DOMAIN Playable(segs) |-> Inherited(segs[i])]

LoadAnyIdentity(s) == IF manifest = None THEN <<>> ELSE Prefix(manifest.segs)
Load(s) == IF manifest = None \/ manifest.by # s THEN <<>> ELSE Prefix(manifest.segs)

\* verify_and_recover_segments deletes a tail that does not play.
DropTail(s) ==
    IF manifest # None /\ manifest.by = s /\ Len(Load(s)) + 1 = Len(Listed(manifest.segs))
      THEN [files EXCEPT ![Listed(manifest.segs)[Len(Load(s)) + 1].file] = None]
      ELSE files

Init ==
    /\ files = [i \in Indices |-> None] /\ manifest = None /\ target = None
    /\ run = None /\ segments = <<>> /\ segIndex = 0 /\ open = FALSE
    /\ curFrames = 0 /\ pos = 0 /\ processing = FALSE /\ keep = FALSE /\ closing = FALSE
    /\ resumed = 0
    /\ pc = "off" /\ lost = FALSE /\ runs = 0

\* The process is gone, or the run is over: only what is on disk is left.
Over ==
    /\ pc' = "off" /\ run' = None /\ segments' = <<>> /\ segIndex' = 0 /\ open' = FALSE
    /\ curFrames' = 0 /\ pos' = 0 /\ processing' = FALSE /\ keep' = FALSE /\ closing' = FALSE
    /\ resumed' = 0

FirstIndexZero(segs) == 0
FirstIndex(segs) == Len(segs)

\* __init__; a render whose frames are all on disk is closed without rendering.
Start(s) ==
    /\ pc = "off" /\ runs < MaxRuns
    /\ run' = s /\ segments' = Load(s) /\ segIndex' = FirstIndex(segments')
    /\ files' = DropTail(s)
    /\ manifest' = [by |-> s, segs |-> segments']
    /\ pos' = Written(segments')
    /\ resumed' = pos' /\ processing' = TRUE
    /\ closing' = (pos' >= Total)
    /\ keep' \in IF closing' THEN BOOLEAN ELSE {FALSE}
    /\ pc' = IF closing' THEN "merge" ELSE "write"
    /\ lost' = (lost /\ segments' # <<>>)
    /\ runs' = runs + 1
    /\ UNCHANGED <<target, open, curFrames>>

(***************************************************************************)
(* write_frame, flush_checkpoint at a pause, and the ways a render ends.   *)
(***************************************************************************)
WriteFrame ==
    /\ pc = "write" /\ pos < Total
    /\ files' = IF open THEN [files EXCEPT ![segIndex].count = @ + 1]
                ELSE [files EXCEPT ![segIndex] = [by |-> run, first |-> pos, count |-> 1, whole |-> FALSE]]
    /\ open' = TRUE /\ curFrames' = curFrames + 1 /\ pos' = pos + 1
    /\ pc' = IF curFrames' >= Chunk THEN "trailer" ELSE "write"
    /\ UNCHANGED <<manifest, target, optVars, segments, segIndex, processing, closing, keep, lost, runs>>

FlushCheckpoint ==
    /\ pc = "write" /\ open
    /\ pc' = "trailer"
    /\ UNCHANGED <<diskVars, memVars, lost, runs>>

StopRender ==
    /\ pc \in {"write", "trailer", "commit", "merge"} /\ processing
    /\ processing' = FALSE
    /\ UNCHANGED <<diskVars, optVars, segments, segIndex, open, curFrames, pos, closing, keep, pc, lost, runs>>

\* The parity check of Stage 3, before close(): the frames of this run by the count of the
\* render path, or the total of the writer when the path keeps no count.
CountEncoded(counts) == IF counts THEN pos - resumed ELSE TotalEncoded
StageParity(counts)  == processing => CountEncoded(counts) = Total - resumed

Rendered == pc = "write" /\ (pos = Total \/ ~processing)

ParityFails ==
    /\ Rendered /\ \E counts \in BOOLEAN : ~StageParity(counts)
    /\ Over
    /\ UNCHANGED <<diskVars, lost, runs>>

EndOfRender ==
    /\ Rendered /\ \E counts \in BOOLEAN : StageParity(counts)
    /\ closing' = TRUE /\ keep' \in BOOLEAN
    /\ pc' = IF open THEN "trailer" ELSE "merge"
    /\ UNCHANGED <<diskVars, optVars, segments, segIndex, open, curFrames, pos, processing, lost, runs>>

\* abort(): a failed render, or a frame the encoder refused.
Abort ==
    /\ pc = "write"
    /\ files' = IF open THEN [files EXCEPT ![segIndex] = None] ELSE files
    /\ Over
    /\ UNCHANGED <<manifest, target, lost, runs>>

(***************************************************************************)
(* _finalize_segment: close the encoder, then commit the file or drop it.  *)
(***************************************************************************)
Continue == IF closing THEN "merge" ELSE "write"

TrailerFails ==
    /\ pc = "trailer"
    /\ files' = [files EXCEPT ![segIndex] = None]
    /\ Over
    /\ UNCHANGED <<manifest, target, lost, runs>>

Trailer ==
    /\ pc = "trailer"
    /\ files' = [files EXCEPT ![segIndex].whole = TRUE]
    /\ open' = FALSE /\ pc' = "commit"
    /\ UNCHANGED <<manifest, target, optVars, segments, segIndex, curFrames, pos, processing, closing, keep, lost, runs>>

DropEmpty ==
    /\ pc = "trailer" /\ DeadEncoder
    /\ files' = [files EXCEPT ![segIndex] = None]
    /\ open' = FALSE /\ curFrames' = 0 /\ lost' = TRUE
    /\ pc' = Continue
    /\ UNCHANGED <<manifest, target, optVars, segments, segIndex, pos, processing, closing, keep, runs>>

CommitSegment ==
    /\ pc = "commit"
    /\ segments' = Append(segments, [file |-> segIndex, frames |-> curFrames, sha |-> TRUE])
    /\ manifest' = [by |-> run, segs |-> segments']
    /\ segIndex' = segIndex + 1 /\ curFrames' = 0
    /\ pc' = Continue
    /\ UNCHANGED <<files, target, optVars, open, pos, processing, closing, keep, lost, runs>>

(***************************************************************************)
(* close(): the parity check, the promotion of a single segment or the     *)
(* concatenation of several, and the removal of the parts.                 *)
(***************************************************************************)
KeepsParts == ~processing /\ keep
Promotes   == Len(segments) = 1 /\ ~KeepsParts
Parts      == [i \in 1 .. Len(segments) |-> files[segments[i].file]]
Parity     == processing => TotalEncoded = Total

NothingToMerge ==
    /\ pc = "merge" /\ (segments = <<>> \/ ~Parity)
    /\ Over
    /\ UNCHANGED <<diskVars, lost, runs>>

Promote ==
    /\ pc = "merge" /\ segments # <<>> /\ Parity /\ Promotes
    /\ target' = Parts
    /\ files' = [files EXCEPT ![segments[1].file] = None]
    /\ pc' = "cleanup"
    /\ UNCHANGED <<manifest, memVars, lost, runs>>

BeginConcat ==
    /\ pc = "merge" /\ segments # <<>> /\ Parity /\ ~Promotes
    /\ target' = Broken
    /\ pc' = "concat"
    /\ UNCHANGED <<files, manifest, memVars, lost, runs>>

NoSpace ==
    /\ pc = "merge" /\ segments # <<>> /\ Parity /\ ~Promotes
    /\ Over
    /\ UNCHANGED <<diskVars, lost, runs>>

EndConcat ==
    /\ pc = "concat"
    /\ target' = Parts
    /\ IF KeepsParts THEN Over ELSE pc' = "cleanup" /\ UNCHANGED memVars
    /\ UNCHANGED <<files, manifest, lost, runs>>

MergeFailsCleaned ==
    /\ pc = "concat" \/ (pc = "merge" /\ segments # <<>> /\ Parity /\ Promotes)
    /\ target' = None
    /\ pc' = "cleanup"
    /\ UNCHANGED <<files, manifest, memVars, lost, runs>>

MergeFails ==
    /\ pc = "concat" \/ (pc = "merge" /\ segments # <<>> /\ Parity /\ Promotes)
    /\ target' = None
    /\ Over
    /\ UNCHANGED <<files, manifest, lost, runs>>

CleanupSegment ==
    /\ pc = "cleanup" /\ segments # <<>>
    /\ files' = [files EXCEPT ![Head(segments).file] = None]
    /\ segments' = Tail(segments)
    /\ UNCHANGED <<manifest, target, optVars, segIndex, open, curFrames, pos, processing, closing, keep, pc, lost, runs>>

CleanupManifest ==
    /\ pc = "cleanup" /\ segments = <<>>
    /\ manifest' = None
    /\ Over
    /\ UNCHANGED <<files, target, lost, runs>>

Crash ==
    /\ pc # "off"
    /\ Over
    /\ UNCHANGED <<diskVars, lost, runs>>

PowerLoss ==
    /\ pc # "off"
    /\ \E i \in Indices : files[i] # None /\ files[i].whole /\ files' = [files EXCEPT ![i].whole = FALSE]
    /\ Over
    /\ UNCHANGED <<manifest, target, lost, runs>>

Next ==
    \/ \E s \in Settings : Start(s)
    \/ WriteFrame \/ FlushCheckpoint \/ StopRender \/ ParityFails \/ EndOfRender \/ Abort
    \/ Trailer \/ TrailerFails \/ DropEmpty \/ CommitSegment
    \/ NothingToMerge \/ Promote \/ BeginConcat \/ NoSpace \/ EndConcat \/ MergeFails
    \/ CleanupSegment \/ CleanupManifest
    \/ Crash \/ PowerLoss

Spec == Init /\ [][Next]_vars

(***************************************************************************)
(* Correctness.                                                            *)
(***************************************************************************)
Content == [by : Settings, first : 0 .. Total - 1, count : 1 .. Total, whole : BOOLEAN]
Entry   == [file : Indices, frames : 1 .. Total, sha : BOOLEAN]

\* The marks for nothing and for an unfinished video are neither files, manifests nor videos.
ASSUME NoneAssumption ==
    /\ None \notin Content /\ None \notin [by : Settings, segs : Seq(Entry)]
    /\ None \notin Seq(Content) /\ Broken \notin Seq(Content)

\* Files, manifest and writer keep their types, and the writer never runs out of indices.
TypeOK ==
    /\ files \in [Indices -> Content \cup {None}]
    /\ manifest = None \/ (manifest.by \in Settings /\ manifest.segs \in Seq(Entry))
    /\ target \in {None, Broken} \/ target \in Seq(Content)
    /\ run \in Settings \cup {None} /\ segments \in Seq(Entry)
    /\ segIndex \in 0 .. Total /\ open \in BOOLEAN /\ curFrames \in 0 .. Chunk
    /\ pos \in 0 .. Total /\ processing \in BOOLEAN /\ keep \in BOOLEAN
    /\ resumed \in 0 .. Total /\ closing \in BOOLEAN
    /\ pc \in {"off", "write", "trailer", "commit", "merge", "concat", "cleanup"}
    /\ lost \in BOOLEAN /\ runs \in 0 .. MaxRuns

\* A listed segment whose file plays holds exactly the frames that follow those listed
\* before it, rendered under the manifest's own settings.
ManifestIsTrue ==
    manifest # None /\ ~lost =>
        \A i \in DOMAIN manifest.segs :
            LET e == manifest.segs[i] IN
            ~Plays(e) \/
                files[e.file] = [by |-> manifest.by, count |-> e.frames, whole |-> TRUE,
                                 first |-> Written(SubSeq(manifest.segs, 1, i - 1))]

\* The state is sound: files and writer have their types, and the manifest tells the truth.
FilesAccounted == TypeOK /\ ManifestIsTrue

\* A video of n frames: every frame once, in order, all under the same settings.
IsVideo(v, s, n) ==
    /\ v \notin {None, Broken} /\ v # <<>>
    /\ \A i \in DOMAIN v : v[i] # None /\ v[i].by = s /\ v[i].whole
    /\ v[1].first = 0
    /\ \A i \in 1 .. Len(v) - 1 : v[i + 1].first = v[i].first + v[i].count
    /\ v[Len(v)].first + v[Len(v)].count = n

\* The parts are only removed once the merged video holds every frame that was encoded, in
\* order and under one identity; a run that was not stopped holds all of them.
VideoInOrder ==
    pc = "cleanup" /\ ~lost => IsVideo(target, run, pos) /\ (processing => pos = Total)

\* A render that encoded every frame of its trim and lost none passes the parity check that
\* decides whether its segments are merged.
WholeRenderIsMerged == pc = "write" /\ pos = Total /\ ~lost => \A counts \in BOOLEAN : StageParity(counts)

\* What a run with the manifest's settings would resume, if the process died now.
Resumable == IF manifest = None THEN 0 ELSE Written(Load(manifest.by))

LosesData == pc' = "off" /\ \E i \in Indices : files[i] # None /\ files[i].whole /\ files'[i] # None /\ ~files'[i].whole

Holds(v, s, n) == \E m \in n .. Total : IsVideo(v, s, m)

KeepsCommitted ==
    \/ Resumable' >= Resumable
    \/ lost \/ LosesData \/ Holds(target', manifest.by, Resumable)
    \/ (run = None /\ run' \notin {None, manifest.by})

\* Committed frames survive: what a crash would leave to resume never shrinks, unless the
\* merged video holds those frames, the power went, or the user starts the render with
\* other settings.
CommittedSurvive == [][KeepsCommitted]_vars
=============================================================================
