SPECIFICATION MCSpec
CONSTANTS
    Programs <- MCPrograms
    Forms <- MCForms
    MaxForms = 2
    Shapes <- AllShapes
INVARIANTS
    FieldsValidated
CHECK_DEADLOCK FALSE
