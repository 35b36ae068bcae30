SPECIFICATION Spec
CONSTANTS
    TotalFrames = 4
    Chunk = 2
    Block = 1
    WarmUp = 1
    Width = 2
    Depth = 2
    QueueCap = 1
    Faulty <- FirstFaulty
    Breaks <- AllBreaks
    MaxCalls = 2
INVARIANTS OutputsAccounted Aligned
PROPERTIES ImplementsClip PauseAnswered RenderEnds
CHECK_DEADLOCK FALSE
