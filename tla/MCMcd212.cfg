SPECIFICATION Spec
CONSTANTS
    Height <- Lines
    IcaHeight <- BlankLines
    Border = 1
    Pictures = {10}
    Lists = {1, 3}
    Blocks = 6
    Dca <- Memory
    None = None
    Writes = 3
INVARIANTS
    FieldFollowsGuest
