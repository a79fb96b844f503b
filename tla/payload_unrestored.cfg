SPECIFICATION Spec
CONSTANTS
    Givens <- NameGivens
    Prompts <- MCPrompts
    Spelling <- MCSpelling
    MaxDigits = 6
INVARIANTS
    AnswersRestored
CHECK_DEADLOCK FALSE
