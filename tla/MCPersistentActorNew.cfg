SPECIFICATION Spec
CONSTANTS
    earlier = earlier
    later = later
    Instance = {earlier, later}
    NoOwner = NoOwner
    MaxSeq = 2
    MaxBatch = 1
    Scenarios <- MCNewEntity
PROPERTIES
    DecidedOnHistory
CHECK_DEADLOCK FALSE
