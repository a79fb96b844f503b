SPECIFICATION Spec
CONSTANTS
    Ids = {1, 2, 3}
    Records <- MCRecords
    Capture = TRUE
    CaptureTtl = 1
    Retention = 1
    PageSize = 1
    TopLimit = 1
    Readers = {"auditor"}
    ScopeOf <- MCScopeOf
    TeamOf <- MCTeamOf
    MaxClock = 2
    MaxFaults = 1
    Loads <- MCLoads
    Ranges <- MCRanges
INVARIANTS
    TypeOK
    RecordedUntilPurged
    PurgeIsClean
    PagingIsExact
    PanelsCountRecorded
    EventsAreTrue
    AnsweredIsLogged
    RolesAreKept
CHECK_DEADLOCK FALSE
