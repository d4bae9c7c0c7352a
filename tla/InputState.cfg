SPECIFICATION InputSpec
CONSTANTS
    PortRange = 4
    Width = 1
    Height = 1
    Reach = 1
    MaxDelta = 1
INVARIANTS
    ButtonIsTold
PROPERTIES
    PointerFollows
