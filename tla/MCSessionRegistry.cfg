SPECIFICATION Spec
CONSTANTS
    Threads = {t1, t2}
    Places = {p1, p2}
    limit = 1
    Closable = {}
    Background = TRUE
    MaxCalls = 3
SYMMETRY Symmetry
CHECK_DEADLOCK FALSE
INVARIANTS
    TypeOK
    ChildIsOwned
    OneProcessPerThread
    TurnIsReal
    CapHolds
    ReapingSparesWork
    ShutdownIsComplete
