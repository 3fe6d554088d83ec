CONSTANTS
    NTokens = 2
    TopK = 2
    NExperts = 2
    Inputs <- AllInputs
    MaxCalls = 2
    TM = 2
    Shapes <- Accepted
SPECIFICATION LayerSpec
INVARIANTS TypeOK ClaimsDistinct Sorted LayerExact
CHECK_DEADLOCK FALSE
