SPECIFICATION FairSpec
CONSTANTS
    AllowShorts = TRUE
    UseStop     = TRUE
    ReplyKinds  = {"result", "bare", "ack"}
    DbOutcomes  = {"none", "order", "all"}
    MaxOrders   = 3
    MaxFaults   = 2
INVARIANTS
    TypeOK
    ExposureBounded
    EntryOnlyWhenFlat
    BeliefMatchesVenue
    AuditTrail
PROPERTIES
    ExitNeverOpens
    HandlerReturns
    CloseReachesFlat
