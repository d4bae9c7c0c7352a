SPECIFICATION MediaSpec
CONSTANTS
    Paths = {p1, p2}
    NoPath = NoPath
    NoDisc = NoDisc
    MaxUnsigned = 2
SYMMETRY Alike
INVARIANTS
    TrayMatchesDrive
    GuestFindsOut
    ReadsMountedDisc
    NoFalseRemoval
PROPERTIES
    SelectionIsKept
