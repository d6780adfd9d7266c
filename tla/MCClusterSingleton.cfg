SPECIFICATION FairSpec
CONSTANTS
    NumNodes = 2
    Ttl = 2
    NoLease = NoLease
    InitialViews <- MCInitialViews
    ViewValues = {"up", "unreachable", "other", "gone"}
    Scenarios <- MCScenarios
    MaxInbox = 2
INVARIANTS
    TypeOK
    AtMostOneUnderLease
PROPERTIES
    ContractHolds
    SettlesOnTheHost
CHECK_DEADLOCK FALSE
