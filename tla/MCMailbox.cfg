SPECIFICATION Spec
CONSTANTS
    a1 = a1
    a2 = a2
    a3 = a3
    b1 = b1
    b2 = b2
    b3 = b3
    NoMessage = NoMessage
    Message <- MCMessage
    kind <- MCkind
    previous <- MCprevious
    buffer_size = 2
PROPERTY KeepsContract
PROPERTY EveryCallReturns
CHECK_DEADLOCK FALSE
