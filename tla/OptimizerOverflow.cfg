\* A sum that does not fit in an int.
CONSTANTS
    Names <- OneName
    TypeOf <- Types
    Exprs <- CountExprs
    Printed <- CountPrinted
    Conditions <- SumConditions
    Preludes <- CountPreludes
    Capture = FALSE
    MaxUnroll = 2
    IntMod = 8
    DeclResets = FALSE
    LoopDepth = 6
    MaxSize = 3
    MaxDepth = 2
    Fuel = 40
SPECIFICATION Spec
INVARIANTS Equivalent
CHECK_DEADLOCK FALSE
