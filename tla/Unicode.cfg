SPECIFICATION UnicodeSpec
CONSTANTS
    Inputs <- MCInputs
    Texts <- MCTexts
    SafeCodePoints <- MCSafeCodePoints
    Names = {"plain", "odd"}
    UnsafeNames = {"odd"}
    MaxDepth = 1
    MaxAllowed = 2
    MaxLine = 7
CHECK_DEADLOCK FALSE
INVARIANTS PathMatchesRules ResultIsSafe InBuffers Faithful
