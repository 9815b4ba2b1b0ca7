SPECIFICATION FairSpec
CONSTANTS
    Feed      <- RefusedFeed
    QueueMax  = 1
    MaxBatch  = 2
    MaxFaults <- NoFaults
CHECK_DEADLOCK FALSE
PROPERTIES
    FailureIsNoObstacle
