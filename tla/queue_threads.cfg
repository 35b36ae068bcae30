SPECIFICATION Spec
CONSTANTS
    a = a  b = b  c = c  s = s
    Jobs = {a, b, c}
    Initial <- InitialTwo
    MaxStarts = 2
    Singles = {s}
    Segments = {a}
    Fallback = {a}
    OverlapStarts = TRUE
    MaxCalls = 3
    None = None
INVARIANTS FlagHasRunner
PROPERTIES CrashKeepsQueue BatchEndsIfValid ProcessingEnds
CHECK_DEADLOCK FALSE
