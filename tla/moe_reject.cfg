CONSTANTS
    NTokens = 2
    TopK = 2
    NExperts = 2
    Inputs <- MixedInputs
    MaxCalls = 2
    TM = 2
    Shapes <- BothShapes
SPECIFICATION LayerSpec
INVARIANTS RejectKeepsOutput
CHECK_DEADLOCK FALSE
