SPECIFICATION Spec
CONSTANTS
    Fast = 3
    Slow = 7
    Prices = {3, 4, 8}
    Rounded = {"equal"}
    MaxCandles = 5
INVARIANTS
    TypeOK
    AveragesAreMeans
    SignalIsCrossing
    SignalsAlternate
PROPERTIES
    SignalFollowsPrice
