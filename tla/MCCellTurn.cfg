\* One cell, every overflow policy, one place in the mailbox, two messages; safety and liveness.
CONSTANTS
    Capacity = 1
    Throughput = 2
    Burst = 1
    StashCapacity = 2
    StopChildrenOnRestart = TRUE
    MaxMessages = 2
    MaxCommands = 1
    MaxCalls = 2
    MaxFailures = 1
    MaxChildren = 1
SPECIFICATION FairSpec
CHECK_DEADLOCK FALSE
INVARIANTS
    TypeOK
    NoLostWakeup
    EachMessageOnce
    SignalsSurvive
    ArrivalOrder
    BoundHeld
PROPERTIES
    StopIsFinal
    QueueDrains
    StopCompletes
