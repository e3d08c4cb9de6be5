\* A loop may redeclare its counter in its body.
CONSTANTS
    Names <- OneName
    TypeOf <- Types
    Exprs <- CountExprs
    Printed <- CountPrinted
    Conditions <- CountConditions
    Preludes <- CountPreludes
    Capture = TRUE
    MaxUnroll = 2
    IntMod = 8
    DeclResets = FALSE
    LoopDepth = 6
    MaxSize = 4
    MaxDepth = 2
    Fuel = 40
SPECIFICATION Spec
INVARIANTS Equivalent
CHECK_DEADLOCK FALSE
