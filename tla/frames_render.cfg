SPECIFICATION Spec
CONSTANTS
    NumThreads = 2
    TotalFrames = 2
    QueueDepth = 1
    Faulty <- OneFaulty
    EncoderFails = TRUE
    LongPause = TRUE
    MaxCalls = 3
INVARIANTS InOrder ReservationsExact RetryIsAlone PausedIsDrained
PROPERTIES RenderEnds
CHECK_DEADLOCK FALSE
