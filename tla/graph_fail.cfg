CONSTANTS
    NoGraph = NoGraph
    Handles = {g1, g2}
    Kernels = {k1, k2}
    MaxAsked = 5
    MaxNodes = 3
    MayFail = TRUE
SPECIFICATION Spec
SYMMETRY Alike
INVARIANT CaptureIsolated
CHECK_DEADLOCK FALSE
