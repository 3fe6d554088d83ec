CONSTANTS
    Requests = {r1, r2}
    Pad = Pad
    NPages = 2
    PageSize = 2
    PageStride = 3
    MaxPages = 2
    Splits = 2
    Windows <- Both
    MaxRows = 2
    MaxTokens = 3
    MaxLen = 4
    MaxAhead = 1
    Zero = Zero
    Stale = Stale
SYMMETRY Alike
SPECIFICATION Spec
INVARIANTS TypeOK AttentionExact KeysKept
CHECK_DEADLOCK FALSE
