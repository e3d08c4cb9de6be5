\* An int and a boolean; ints of three bits.
CONSTANTS
    Names <- TwoNames
    TypeOf <- Types
    Exprs <- MixedExprs
    Printed <- MixedPrinted
    Conditions <- MixedConditions
    Preludes <- MixedPreludes
    Capture = FALSE
    MaxUnroll = 2
    IntMod = 8
    DeclResets = FALSE
    LoopDepth = 6
    MaxSize = 4
    MaxDepth = 3
    Fuel = 33
SPECIFICATION Spec
INVARIANTS Equivalent ScopesKept TypesKept
CHECK_DEADLOCK FALSE
