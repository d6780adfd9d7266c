SPECIFICATION Spec
CONSTANTS
    earlier = earlier
    later = later
    Instance = {earlier, later}
    NoOwner = NoOwner
    MaxSeq = 3
    MaxBatch = 2
    Scenarios <- MCScenarios
INVARIANTS
    TypeOK
    StateIsHistory
    HistoryRebuildable
PROPERTIES
    DecidedOnHistory
CHECK_DEADLOCK FALSE
