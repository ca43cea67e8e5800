SPECIFICATION MCSpec
CONSTANTS
    Programs <- MCPrograms
    Forms <- MCForms
    MaxForms = 2
    Shapes <- NotEqual
INVARIANTS
    HoldingPasses
CHECK_DEADLOCK FALSE
