CONSTANTS
    x = x
    y = y
    s = s
    Vars <- DeclaredNames
    StrVars = {}
    SymbolTables <- DeclarationTables
    Payloads = {}
    IntLiterals = {1}
    Increments = {}
    ImageBytes = 32
    MinDataBase = 20
    RamBase = 0
    AddrMod = 64
    BranchMax = 127
    MaxStmts = 0
SPECIFICATION Spec
INVARIANT FailsSafely
CHECK_DEADLOCK FALSE
