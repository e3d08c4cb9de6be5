\* A comment that begins with a slash only.
CONSTANTS
    Letters = {"x"}
    Digits = {"1"}
    Others = {"A"}
    Texts <- SlashTexts
    MaxFixPasses = 8
SPECIFICATION Spec
INVARIANT StarFollowsSlash
CHECK_DEADLOCK FALSE
