CONSTANTS
    p1 = p1
    p2 = p2
    Producers <- MCProducers
    Window = 2
    MaxProducers = 1
    MaxOutOfOrder = 1
    MaxSends = 3
    MaxRestarts = 1
    MaxSweeps = 1
SYMMETRY MCSymmetry
SPECIFICATION Spec
CHECK_DEADLOCK FALSE
INVARIANTS
    TypeOK
    ConfirmedWasHandled
    NoSilentDuplicate
    ToldOnce
    QueuedOnlyWhenFull
    DedupBounded
