SPECIFICATION TitleSpec
CONSTANTS
    d1 = d1
    NoDisc = NoDisc
    Media = {d1}
    Commands <- AllCommands
    Times <- TimeZero
    Sectors <- SectorKinds
    AudctlRuns = {TRUE, FALSE}
    Codings <- AllCodings
    DiscSize = 2
    FramesPerSecond = 2
    SpinupTicks = 1
INVARIANTS
    RequestAnnounced
    DriveMatchesEnable
    NoBankRepeated
    NoBufferRepeated
PROPERTIES
    ReadIsAnswered
    BufferIsReported
