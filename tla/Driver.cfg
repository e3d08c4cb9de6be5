\* The whole run, every target; three programs, three turns of the fix loop.
CONSTANTS
    Targets <- AllTargets
    MaxFixPasses = 3
    MaxPrograms = 3
    MaxErrors = 2
    LateLoss = FALSE
SPECIFICATION FairSpec
INVARIANTS TypeOK TokensCurrent BlameIsLocal AllOrNothing ExitHonest
PROPERTIES UntouchedUnlessSound Terminates KeepsPromise
CHECK_DEADLOCK FALSE
