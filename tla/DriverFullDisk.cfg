\* A disk that refuses the data when the stream is closed.
CONSTANTS
    Targets <- ObjectTarget
    MaxFixPasses = 1
    MaxPrograms = 1
    MaxErrors = 1
    LateLoss = TRUE
SPECIFICATION Spec
INVARIANTS ExitHonest
CHECK_DEADLOCK FALSE
