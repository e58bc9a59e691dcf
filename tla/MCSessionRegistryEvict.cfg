SPECIFICATION Spec
CONSTANTS
    Threads = {t1, t2}
    Places = {p1}
    limit = 1
    Closable = {}
    Background = FALSE
    MaxCalls = 3
SYMMETRY Symmetry
CHECK_DEADLOCK FALSE
INVARIANTS
    EvictionSparesTurns
