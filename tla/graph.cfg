CONSTANTS
    NoGraph = NoGraph
    Handles = {g1, g2}
    Kernels = {k1, k2}
    MaxAsked = 5
    MaxNodes = 3
    MayFail = FALSE
SPECIFICATION Spec
SYMMETRY Alike
INVARIANTS TypeOK RunsWhatWasAsked CaptureIsolated OneRecorder QuietCapture
CHECK_DEADLOCK FALSE
