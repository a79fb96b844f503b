SPECIFICATION Spec
CONSTANTS
    Chars = {"m", "f", "d", "x"}
    Surrogates <- NamePool
    Original <- NameOriginals
    LatencyCap = 4
    MaxChunk = 3
    MaxText = 6
CHECK_DEADLOCK FALSE
INVARIANTS
    TypeOK
    StreamMatchesWhole
    OriginalsAreBack
    HoldIsBounded
