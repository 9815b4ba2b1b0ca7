SPECIFICATION FairSpec
CONSTANTS
    Feed      <- MixedFeed
    QueueMax  = 1
    MaxBatch  = 2
    MaxFaults <- AllFaults
CHECK_DEADLOCK FALSE
INVARIANTS
    TypeOK
    NothingLost
    RowsUpToDate
PROPERTIES
    SpilledIsSafe
    IsOutbox
    EventuallyWritten
