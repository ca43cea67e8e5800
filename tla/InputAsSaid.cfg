SPECIFICATION LineSpec
CONSTANTS
    MaxWords = 3
    Words = {"-o", "-oa", "-S", "-I", "-Id", "f", "g"}
INVARIANTS
    InputAsSaid
CHECK_DEADLOCK FALSE
