SPECIFICATION FairSpec
CONSTANTS
    CellsAllocated = TRUE
    StopSends = FALSE
    Written <- MCWritten
    MaxEdits = 3
INVARIANTS
    ReloadDoesNotCrash
CHECK_DEADLOCK FALSE
