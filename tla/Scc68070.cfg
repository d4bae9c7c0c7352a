SPECIFICATION Spec
CONSTANTS
    Levels = {0, 4}
    Channels = {c1}
    Paths = {0}
INVARIANTS IplIsHighest DisplayInterruptIsSeen
PROPERTY AcknowledgeIsExact
