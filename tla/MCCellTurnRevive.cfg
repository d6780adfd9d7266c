\* One cell, every overflow policy, one place in the mailbox, two messages; a parent that keeps its children over a restart.
CONSTANTS
    Capacity = 1
    Throughput = 2
    Burst = 1
    StashCapacity = 2
    StopChildrenOnRestart = FALSE
    MaxMessages = 2
    MaxCommands = 2
    MaxCalls = 2
    MaxFailures = 1
    MaxChildren = 1
SPECIFICATION Spec
CHECK_DEADLOCK FALSE
PROPERTY NeverRevived
