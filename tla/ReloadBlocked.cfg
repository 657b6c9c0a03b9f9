SPECIFICATION FairSpec
CONSTANTS
    CellsAllocated = TRUE
    StopSends = FALSE
    Written <- MCWritten
    MaxEdits = 3
PROPERTIES
    ReloadReachesServers
CHECK_DEADLOCK FALSE
