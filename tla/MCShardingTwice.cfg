SPECIFICATION Spec
CONSTANTS
    a = a
    b = b
    p = p
    Region = {a, b, p}
    Proxy = {p}
    None = None
    BufferSize = 2
    Scenarios <- MCOneMove
INVARIANT
    OneActorOneNode
CHECK_DEADLOCK FALSE
