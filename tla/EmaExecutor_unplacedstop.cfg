SPECIFICATION Spec
CONSTANTS
    AllowShorts = FALSE
    UseStop     = TRUE
    ReplyKinds  = {"result"}
    DbOutcomes  = {"all"}
    MaxOrders   = 4
    MaxFaults   = 1
PROPERTY
    StaysInPositionWithoutStop
