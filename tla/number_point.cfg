CONSTANTS
    Spelling <- MCSpelling
    Texts <- NumberTexts
SPECIFICATION Spec
CHECK_DEADLOCK FALSE
INVARIANT
    NumbersAsDocumented
