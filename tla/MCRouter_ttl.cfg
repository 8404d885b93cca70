SPECIFICATION Spec
CONSTANTS
    Octet = 5
    a = a
    b = b
    NoHop = NoHop
    Hops = {a, b}
    Interfaces = {0, 1}
    Tables <- LoneTables
    Arrivals <- LoneArrivals
INVARIANT LoweredOnce
CHECK_DEADLOCK FALSE
