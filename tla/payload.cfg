SPECIFICATION Spec
CONSTANTS
    Givens <- MCGivens
    Prompts <- MCPrompts
    Spelling <- MCSpelling
    MaxDigits = 6
INVARIANTS
    TypeOK
    SentAsDecided
    MergeIsBest
    DecisionIsPublished
    IntervalsSurvive
    
    MaskingIsReversible
CHECK_DEADLOCK FALSE
