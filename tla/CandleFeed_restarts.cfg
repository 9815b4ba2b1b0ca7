SPECIFICATION FairSpec
CONSTANTS
    Period     = 3
    Ttl        = 2
    Lag        = 1
    MaxCandles = 3
    DbEnabled  = TRUE
    MaxLives   = 2
INVARIANTS
    TypeOK
    HandledInOrder
    CandlesAccountedFor
    FinishedHasStopped
    StoppedIsFinished
PROPERTIES
    ActsOnLatest
    StreamTriesAgain
