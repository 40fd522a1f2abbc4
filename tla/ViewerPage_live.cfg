SPECIFICATION FairSpec
CONSTANTS
    MaxCaptures = 3
    MaxInFlight = 3
    HasToolbar = TRUE
INVARIANTS
    TypeOK
    GraphSettlesOnSelection
    FollowingSelectsLatest
PROPERTIES
    ResponseKeepsUserSelection
    PollingStarts
    CatchesUp
    ShowsLatest
