SPECIFICATION Spec
CONSTANTS
    Threads = {t1, t2}
    Places = {p1}
    limit = 1
    Closable = {t1}
    Background = FALSE
    MaxCalls = 2
CHECK_DEADLOCK FALSE
INVARIANTS
    ChildIsOwned
