SPECIFICATION MCSpec
CONSTANTS
    Programs <- MCPrograms
    Forms <- MCForms
    MaxForms = 2
    Shapes <- AllShapes
INVARIANTS
    TypeOK
    OperandsChecked
    NamesDenote
    DefinedOnce
    CallsAgree
    AssignmentsKept
    TestsTypeOK
    WellFormedText
    TestsReport
    RunsEachTest
CHECK_DEADLOCK FALSE
