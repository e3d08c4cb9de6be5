\* Two ints, a boolean and a string; a word of four bits, sums up to 2 by INC.
CONSTANTS
    Names <- AllNames
    TypeOf <- Types
    DeclType <- Types
    Exprs <- MixedExprs
    Printed <- MixedPrinted
    Conditions <- MixedConditions
    Preludes <- MixedPreludes
    Capture = FALSE
    MaxUnroll = 2
    MaxIncrement = 2
    IntMod = 16
    WordMod = 16
    HostMod = 1000
    DeclResets = FALSE
    LoopDepth = 5
    MaxSize = 3
    MaxDepth = 2
    Fuel = 20
    HostFuel = 8
    MaxOut = 3
SPECIFICATION FairSpec
INVARIANTS TypeOK OutputFollows ConstantsHold TextAgrees JavaNames IrWellFormed
PROPERTY Halts
CHECK_DEADLOCK FALSE
