SPECIFICATION Spec
CONSTANTS
    Discs <- TheDiscs
    Streams = {0, 1}
    Chunks = {15}
    Directions = {FALSE, TRUE}
    Video = TRUE
    FrameBytes = 6
    Pairs = 1
    EraseAt = 12
    BufferLimit = 64
    Capacity = 6
    Prime = 3
    PrimeTimeout = 2
    Update = 1
    Div = 2
    DryTicks = 3
    SavesBehind = TRUE
INVARIANTS
    FramesInOrder
