SPECIFICATION Spec
CONSTANTS
    environment = environment
    thread = thread
    e1 = e1
    e2 = e2
    e3 = e3
    None = None
    Scopes = {environment, thread}
    Ids = {e1, e2, e3}
    WindowMs = 0
    MaxEventsPerScope = 2
    TombstoneWindowMs = 0
    MaxHead = 3
    MaxTime = 1
    MaxBoots = 2
    MaxFormat = 2
SYMMETRY Symmetric
INVARIANTS
    LogIsContiguous
    ReplayIsComplete
    OneCursorPerEvent
    CursorsAreForever
PROPERTIES
    PruneKeepsRecent
