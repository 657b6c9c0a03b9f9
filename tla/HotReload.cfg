SPECIFICATION FairSpec
CONSTANTS
    CellsAllocated = TRUE
    StopSends = TRUE
    Written <- MCWritten
    MaxEdits = 3
INVARIANTS
    TypeOK
    NoReloadLost
    OneGenerationInService
PROPERTIES
    ServersMoveForward
    SighupServed
    ServesAsPromised
CHECK_DEADLOCK FALSE
