SPECIFICATION Spec
CONSTANTS
    a = a  b = b  c = c  s = s
    Jobs = {a, b}
    Initial <- InitialTwo
    MaxStarts = 2
    Singles = {}
    Segments = {a}
    Fallback = {a}
    OverlapStarts = FALSE
    MaxCalls = 4
    None = None
INVARIANTS ActiveHasRunner RenderIsCurrent FailureIsReported
PROPERTIES ImplementsLifecycle
CHECK_DEADLOCK FALSE
