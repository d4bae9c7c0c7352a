SPECIFICATION FairSpec
CONSTANTS
    Queries <- AllQueries
    Commands2 <- AllCommands2
    PointerMoves = TRUE
    BufSize = 5
INVARIANTS
    PendingIsSignalled
PROPERTIES
    MediumIsLearnt
