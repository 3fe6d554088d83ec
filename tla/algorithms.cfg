CONSTANTS
    NExperts = 4
    MTotal = 6
    TM = 2
    RowThreads = 4
    V = 2
    NegInf = 0
    Halvings = 3
    Subgroups = 2
    TargetWGs = 2
    VecW = 2
    RowVec = 2
    RowLanes = 4
    MxGroup = 2
    DotLanes = 2
    RowsPerWG = 2
    Tile = 2
    TileM = 3
    TileN = 2
    TileK = 4
    MmaLanes = 2
    AccLane <- LanesByRow
    SizeMod = 16
SPECIFICATION Spec
INVARIANTS EveryRowOnce RanksExact DrawInvertsCdf NucleusExact EncodeNearest DecodeExact GgufBlocksTiled KernelsRaceFree KernelsExact CallOrdered CallDelivers CaptureSafe
