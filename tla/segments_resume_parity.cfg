SPECIFICATION Spec
CONSTANTS
    Total = 3
    Chunk = 2
    Settings = {s1, s2}
    None = None
    Broken = Broken
    DeadEncoder = TRUE
    MaxRuns = 3
INVARIANT WholeRenderIsMerged
CHECK_DEADLOCK FALSE
