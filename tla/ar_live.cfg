CONSTANTS
    World = 2
    NumBlocks = 2
    WgSize = 1
    MaxCalls = 1
    Numel <- SizesOne
    Capacity = 5
    TwoShotMin = 5
    GenMod = 16
    Slots = 2
    InOrder = TRUE
    Blocking = FALSE
    SpinsExpire = FALSE
    Mortal = {}
SPECIFICATION FairSpec
INVARIANT IInv
PROPERTY AllComplete
CHECK_DEADLOCK FALSE
