SPECIFICATION Spec
CONSTANTS
    TotalFrames = 5
    Leases = 3
    QueueCap = 1
    Faulty <- FirstFaulty
    Unproduced <- OneUnproduced
    SourceFails = TRUE
    EncoderFails = TRUE
    MaxCalls = 3
INVARIANTS PacketsAccounted
PROPERTIES ImplementsClip RunEnds PauseAnswered
CHECK_DEADLOCK FALSE
