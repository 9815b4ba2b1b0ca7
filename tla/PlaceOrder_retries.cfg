SPECIFICATION FairSpec
CONSTANTS
    Calls       = {"entry", "stop"}
    MarketCalls = {"entry"}
    Attempts    = 3
    UniqueAmong = "ever"
CHECK_DEADLOCK FALSE
INVARIANTS
    TypeOK
    AtMostOnce
    RefusalIsFinal
PROPERTIES
    OneOrderPerCall
    CallsEnd
