CONSTANTS
    x = x
    y = y
    s = s
    Vars = {x, y, s}
    StrVars = {s}
    SymbolTables <- SmallTables
    Payloads <- SmallPayloads
    IntLiterals = {1, 200, 256}
    Increments = {0, 1}
    ImageBytes = 48
    MinDataBase = 24
    RamBase = 0
    AddrMod = 65536
    BranchMax = 14
    MaxStmts = 2
SPECIFICATION Spec
INVARIANTS TypeOK SlotsDistinct RegionsDisjoint OperandsRelocated BranchesResolved StringsIntact CodeIntact
CHECK_DEADLOCK FALSE
