CONSTANTS
    World = 2
    NumBlocks = 2
    WgSize = 1
    MaxCalls = 2
    Numel <- SizesMixed
    Capacity = 4
    TwoShotMin = 3
    GenMod = 16
    Slots = 2
    InOrder = TRUE
    Blocking = FALSE
    SpinsExpire = FALSE
    Mortal = {}
SPECIFICATION Spec
INVARIANTS TypeOK NoRace OutputExact Abreast
PROPERTY ImplementsCollective
CHECK_DEADLOCK FALSE
