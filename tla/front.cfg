CONSTANTS
    Spelling <- MCSpelling
    Texts <- MCTexts
SPECIFICATION Spec
CHECK_DEADLOCK FALSE
INVARIANTS
    TypeOK
    LexerExact
    AcceptsGrammar
    FirstErrorAtFault
    Resynchronises
    PrintsText
PROPERTY
    Terminates
