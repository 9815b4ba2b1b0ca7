SPECIFICATION Spec
CONSTANTS
    Calls       = {"market"}
    MarketCalls = {"market"}
    Attempts    = 5
    UniqueAmong = "open"
CHECK_DEADLOCK FALSE
INVARIANT
    AtMostOnce
