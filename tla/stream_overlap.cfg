SPECIFICATION Spec
CONSTANTS
    Chars = {"1", "2", "3"}
    Surrogates <- Numbers
    Original <- NumberOriginals
    LatencyCap = 4
    MaxChunk = 3
    MaxText = 5
CHECK_DEADLOCK FALSE
INVARIANTS
    StreamMatchesWhole
