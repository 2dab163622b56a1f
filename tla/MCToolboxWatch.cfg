SPECIFICATION Spec
CONSTANTS
    Addr <- MCAddr
    Endpoints <- MCEndpoints
    MaxPublished = 4
    MaxRestarts = 1
    QuietStart = TRUE
    DistinctTimes = TRUE
INVARIANTS
    TypeOK
    RememberedIsWritten
PROPERTIES
    FollowsMonitors
