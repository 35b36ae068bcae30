SPECIFICATION Spec
CONSTANTS
    v1 = v1
    v2 = v2
    Total = 2
    Lives <- TwoLives
    Scans <- OneScan
    MaxEdits = 1
    MaxTurns = 3
    None = None
SYMMETRY Versions
INVARIANTS StagesMatchRun PartsShareMedia CompletedIsWhole
PROPERTIES OnlyOwnersWrite
CHECK_DEADLOCK FALSE
