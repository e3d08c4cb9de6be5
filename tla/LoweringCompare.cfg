\* A comparison whose right operand is a sum above MaxIncrement.
CONSTANTS
    Names <- AllNames
    TypeOf <- Types
    DeclType <- Types
    Exprs <- SumExprs
    Printed <- SumPrinted
    Conditions <- SumConditions
    Preludes <- SumPreludes
    Capture = FALSE
    MaxUnroll = 2
    MaxIncrement = 2
    IntMod = 16
    WordMod = 16
    HostMod = 1000
    DeclResets = FALSE
    LoopDepth = 5
    MaxSize = 3
    MaxDepth = 2
    Fuel = 20
    HostFuel = 8
    MaxOut = 3
SPECIFICATION Spec
INVARIANT OutputFollows
CHECK_DEADLOCK FALSE
