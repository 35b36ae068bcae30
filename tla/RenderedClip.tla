---------------------------- MODULE RenderedClip ----------------------------
(***************************************************************************)
(* What a render promises about its video, without threads, queues, leases *)
(* or pauses: the encoder gets the frames of the clip one by one and in    *)
(* order, a frame is missing only if nothing can be made of it, nothing    *)
(* that was handed over is taken back, and a render is complete only with  *)
(* the whole clip rendered.  StreamScheduler and StabPipeline implement it.*)
(***************************************************************************)
EXTENDS Integers, Sequences

CONSTANTS
    TotalFrames,     \* frames of the clip
    Skippable        \* those that may be missing from its video

VARIABLES
    video,           \* the frames the encoder got, in order
    refused,         \* those of them that a stopped run handed over as they came in
    outcome          \* what the caller has of the render

clipVars == <<video, refused, outcome>>

Frames == 0 .. TotalFrames - 1

Newest == IF video = <<>> THEN -1 ELSE video[Len(video)]

Init == video = <<>> /\ refused = {} /\ outcome = "running"

\* The encoder gets frame f; those between the newest one and f can no longer come.
Show(f) ==
    /\ outcome = "running"
    /\ Newest < f
    /\ \A g \in Frames : Newest < g /\ g < f => g \in Skippable
    /\ video' = Append(video, f)
    /\ refused' \in {refused, refused \cup {f}}
    /\ UNCHANGED outcome

\* The render ends undisturbed: every frame is there and none came in and went out again.
Complete ==
    /\ outcome = "running"
    /\ refused = {} /\ \A f \in Frames \ Skippable : \E i \in DOMAIN video : video[i] = f
    /\ outcome' = "complete"
    /\ UNCHANGED <<video, refused>>

\* It ends by a stop or an error. A stop that was under way when it ended counts as well.
Abandon ==
    /\ outcome \in {"running", "complete"}
    /\ outcome' = "partial"
    /\ UNCHANGED <<video, refused>>

Next == (\E f \in Frames : Show(f)) \/ Complete \/ Abandon

Spec == Init /\ [][Next]_clipVars
=============================================================================
