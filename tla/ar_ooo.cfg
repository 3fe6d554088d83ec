CONSTANTS
    World = 2
    NumBlocks = 1
    WgSize = 1
    MaxCalls = 2
    Numel <- SizesTwo
    Capacity = 5
    TwoShotMin = 3
    GenMod = 16
    Slots = 2
    InOrder = FALSE
    Blocking = FALSE
    SpinsExpire = FALSE
    Mortal = {}
SPECIFICATION Spec
INVARIANT OutputExact
CHECK_DEADLOCK FALSE
