SPECIFICATION Spec
CONSTANTS
    AllowShorts = TRUE
    UseStop     = TRUE
    ReplyKinds  = {"result"}
    DbOutcomes  = {"all"}
    MaxOrders   = 6
    MaxFaults   = 0
INVARIANT
    SignalHonoured
