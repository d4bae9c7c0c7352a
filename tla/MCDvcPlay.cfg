CONSTANTS
    Limit = 3
    Mark = 2
    Sizes <- OneSize
    BigSizes <- NoSizes
    Commands = {"play", "pause", "continue", "stop", "step", "clear_fifo"}
    StartDelay = 1
    PauseDelay = 1
    Period = 2
    Slows <- OneSlow
    Shows = {TRUE}
    Watched = {"NDAT"}
    Scanned = FALSE
    Scans = TRUE
    Saves = FALSE
    MaxGap = 1
    MaxNr = 3
    Anchors = {"I", "P"}
    Ends = TRUE
SPECIFICATION Spec
INVARIANTS
    TypeOK
    HaltIsKept
    ValidFramesAreGood
    EndIsKept
PROPERTIES
    ShownInOrder
    DryIsReportedOnce
