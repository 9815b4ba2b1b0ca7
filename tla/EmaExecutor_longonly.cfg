SPECIFICATION Spec
CONSTANTS
    AllowShorts = FALSE
    UseStop     = TRUE
    ReplyKinds  = {"result", "bare", "ack"}
    DbOutcomes  = {"order", "all"}
    MaxOrders   = 8
    MaxFaults   = 1
INVARIANTS
    SignalHonoured
    UnprotectedIsAcknowledged
    ExecutionsRecorded
