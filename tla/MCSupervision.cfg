CONSTANTS
    guardian = guardian
    parent = parent
    first = first
    second = second
    sibling = sibling
    Cells <- MCCells
    Root = guardian
    Parent <- MCParent
    Name <- MCName
    Strategy <- MCStrategy
    Anew = {"per call"}
    MaxRetries = 1
    KeepsChildren = {}
    Watchful = {guardian}
    Scenarios <- MCScenarios
SPECIFICATION FairSpec
CHECK_DEADLOCK FALSE
INVARIANTS
    TypeOK
    NoOrphan
    NoDeathMissed
PROPERTIES
    StopCompletes
    SuspensionEnds
    StopIsFinal
