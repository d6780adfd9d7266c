SPECIFICATION FairSpec
CONSTANTS
    NumNodes = 3
    None = None
    Epoch = 20
    MaxVersion = 99
    Scenarios <- MCScenarios
INVARIANTS
    TypeOK
PROPERTIES
    OwnRecordStands
    Converges
CHECK_DEADLOCK FALSE
