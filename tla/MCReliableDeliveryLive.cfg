CONSTANTS
    p1 = p1
    p2 = p2
    Producers = {p1}
    Window = 2
    MaxProducers = 1
    MaxOutOfOrder = 1
    MaxSends = 3
    MaxRestarts = 0
    MaxSweeps = 1
SPECIFICATION FairSpec
CHECK_DEADLOCK FALSE
PROPERTIES
    SendsSettle
