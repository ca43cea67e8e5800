SPECIFICATION MCSpec
CONSTANTS
    Files = {"main", "a", "b", "lb"}
    Main = "main"
    Disk <- MCDisk
    DirOf <- MCDirOf
    Input = "input"
    Dirs = {"src", "lib"}
    IncludeDirs <- MCIncludeDirs
    CWD = "src"
    Incs <- MCIncs
    Texts <- MCTexts
    NotFound = "none"
    Names = {"src", "stdlib", "stage0", "stage1", "/", "bootstrap", ".", "..", "main", "a", "b", "gone"}
    Sources = {"main", "a", "b"}
    PathDisk <- MCPathDisk
    Root <- MCRoot
    SourceTexts <- MCSourceTexts
    MaxPath = 6
INVARIANTS
    NoDuplicates
