SPECIFICATION FairSpec
CONSTANTS
    a = a
    b = b
    p = p
    Region = {a, b, p}
    Proxy = {p}
    None = None
    BufferSize = 2
    Scenarios <- MCScenarios
INVARIANTS
    TypeOK
    OneHome
    ListingAgrees
    DelayedNotDropped
PROPERTIES
    SettlesOnOneOwner
    BufferDrains
CHECK_DEADLOCK FALSE
