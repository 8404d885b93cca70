SPECIFICATION FairSpec
CONSTANTS
    Octet = 5
    a = a
    b = b
    NoHop = NoHop
    Hops = {a, b}
    Interfaces = {0, 1}
    Tables <- ForwardTables
    Arrivals <- ForwardArrivals
INVARIANTS
    TypeOK
    SearchKeepsRoute
    RoutedRightly
    NoneWaitsInVain
PROPERTY Drains
CHECK_DEADLOCK FALSE
