SPECIFICATION Spec
CONSTANTS
    Blocks = 3
    PerChunk = 2
    Depth = 2
    WarmUp = 2
    Width = 2
    Cap = 1
    Faulty <- SomeFaulty
    MaxPauses = 1
INVARIANTS BytesAccounted CeilingNearlyKept NoOrphanedSlot
PROPERTIES RenderEnds
CHECK_DEADLOCK FALSE
