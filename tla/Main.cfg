SPECIFICATION MainSpec
CONSTANTS
    MaxWords = 4
    Words = {"-o", "--output", "--input", "--input=f", "--input=", "-test",
             "-S", "-c", "--run-tests", "--list-tests", "f", "-I", "-Id"}
    Followed <- MCFollowed
    Procs = {"p", "q"}
    LLVMBuilt = {"q"}
    Pids = {"7", "8"}
    Nobody = "nobody"
    Levels = {0, 2}
    MaxCalls = 4
INVARIANTS
    AnswersDecided
    TypeOK
    OwnText
    TempsRemoved
    FailureHasCause
    OwnershipSound
    ResultTruthful
PROPERTIES
    Ends
CHECK_DEADLOCK FALSE
