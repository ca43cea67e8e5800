SPECIFICATION MCSpec
CONSTANTS
    Names = {"x"}
    Params <- MCParams
    RetTypes = {"i32", "i8ptr", "void"}
    Fns <- MCFns
    StmtForms = {"return", "store", "let", "set", "do", "if-stmt", "while", "expr"}
    ExprForms = {"var", "string", "addr", "addr-of", "load", "arith", "logic", "cmp", "bitcast", "ptr-add", "call", "get-field", "block"}
    MaxNodes = 6
    MaxDepth = 4
INVARIANTS
    TypeOK
    BlocksWellFormed
    ReturnFlagSound
    TempsDominate
    NoTrap
    RegistersSound
