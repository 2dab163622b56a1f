SPECIFICATION Spec
CONSTANTS
    Addr <- MCAddr
    Endpoints <- MCEndpoints
    MaxPublished = 4
    MaxRestarts = 1
    QuietStart = FALSE
    DistinctTimes = TRUE
PROPERTIES
    FollowsMonitors
