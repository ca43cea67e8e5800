SPECIFICATION BackendSpec
CONSTANTS
    Levels = {0, 2}
    MaxCalls = 4
INVARIANTS
    LiveWhenUsed
CHECK_DEADLOCK FALSE
