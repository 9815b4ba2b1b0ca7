SPECIFICATION Spec
CONSTANTS
    AllowShorts = FALSE
    UseStop     = TRUE
    ReplyKinds  = {"result", "bare", "ack"}
    DbOutcomes  = {"all"}
    MaxOrders   = 4
    MaxFaults   = 0
INVARIANT
    EntryProtected
