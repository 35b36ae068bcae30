SPECIFICATION Spec
CONSTANTS
    a = a  b = b  c = c  s = s
    Jobs = {a, b}
    Initial <- InitialTwo
    MaxStarts = 1
    Singles = {}
    Segments = {a}
    Fallback = {a}
    OverlapStarts = FALSE
    MaxCalls = 2
    None = None
INVARIANTS StoppedIsNotCompleted

CHECK_DEADLOCK FALSE
