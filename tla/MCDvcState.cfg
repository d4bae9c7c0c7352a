CONSTANTS
    Limit = 2
    Mark = 1
    Sizes <- TwoSizes
    BigSizes <- Big
    Commands = {"play", "dec_on", "dec_off"}
    StartDelay = 1
    PauseDelay = 1
    Period = 1
    Slows <- OneSlow
    Shows <- Plain
    Watched <- Plain
    Scanned = TRUE
    Scans = FALSE
    Saves = TRUE
    MaxGap = 0
    MaxNr = 4
    Anchors = {"I"}
    Ends = TRUE
SPECIFICATION Spec
INVARIANTS
    BuffersMatchDimensions
    NoStaleClip
CONSTRAINT
    SavedMidSwap
