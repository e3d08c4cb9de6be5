\* Short texts, and programs with a mistake or two in them.
CONSTANTS
    Letters = {"x"}
    Digits = {"1"}
    Others = {"A"}
    Texts <- SomeTexts
    MaxFixPasses = 8
SPECIFICATION Spec
INVARIANTS TypeOK FixesApply AcceptsGrammar NothingLost TreesMatchText ExceedsOnlyBySlash
PROPERTIES GetsFurther Settles
CHECK_DEADLOCK FALSE
