SPECIFICATION Spec
CONSTANTS
    Octet = 5
    a = a
    b = b
    NoHop = NoHop
    Hops = {a, b}
    Interfaces = {0, 1}
    Tables <- LookupTables
    Arrivals <- LookupArrivals
INVARIANT FindsRoute
CHECK_DEADLOCK FALSE
