SPECIFICATION MCSpec
CONSTANTS
    Programs <- MCPrograms
    Forms <- MCForms
    MaxForms = 2
    Shapes <- Told
INVARIANTS
    FailuresTold
CHECK_DEADLOCK FALSE
