SPECIFICATION Spec
CONSTANTS
    MaxLen = 5
    LongText = 17
    LongList = 6
    Width = 5
    IntWidth = 3
    PointerBytes = 2
    FirstChars = 1
    FirstItems = 1
    Sources <- MCSources
INVARIANTS
    TypeOK
    PositionsRight
    TreeOfText
    AcceptsBalanced
    CapacityKept
PROPERTIES
    Terminates
CHECK_DEADLOCK FALSE
