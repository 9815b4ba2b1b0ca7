SPECIFICATION FairSpec
CONSTANTS
    Holders = {a, b}
    NoHolder = none
    Ttl = 2
    MaxCalls = 4
INVARIANTS
    TypeOK
    NeverBothSure
PROPERTIES
    IsLease
    LockLapses
