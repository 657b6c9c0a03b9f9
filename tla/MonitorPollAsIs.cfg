SPECIFICATION FairSpec
CONSTANTS
    m1 = m1
    m2 = m2
    m3 = m3
    Loops = {l1, l2}
    Intervals = {0, 1}
    StopSends = FALSE
    Monitors = {m1, m2, m3}
    Lists <- MCLists
    Reliable = {m3}
    Versions = {v1, v2}
    FileVersion = file
INVARIANTS
    TypeOK
    FailoverBounded
    FileNeverMixedIn
PROPERTIES
    PublishEndsPoll
    KeepsPolling
    PollEnds
