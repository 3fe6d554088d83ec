CONSTANTS
    Requests = {r1, r2}
    Pad = Pad
    NoSlot = NoSlot
    NSlots = 2
    StateLen = 2
    MaxRows = 2
    MaxTokens = 3
    MaxFed = 4
    Zero = Zero
    Stale = Stale
SYMMETRY Alike
SPECIFICATION Spec
INVARIANTS TypeOK IInv ChunkingInvariant SlotsFollowStreams
CHECK_DEADLOCK FALSE
