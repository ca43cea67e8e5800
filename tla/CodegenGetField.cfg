SPECIFICATION MCSpec
CONSTANTS
    Names = {"x"}
    Params <- MCParams
    RetTypes = {"i8ptr"}
    Fns <- MCFns
    StmtForms = {"return"}
    ExprForms = {"get-field"}
    MaxNodes = 5
    MaxDepth = 3
PROPERTIES
    GetFieldReads
