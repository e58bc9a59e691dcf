SPECIFICATION Spec
CONSTANTS
    None = None
    Window = 1
    Backlog = 1
    MaxHead = 3
    MaxUndelivered = 2
    MaxTransients = 1
    MaxOpens = 2
    MaxActivity = 4
    MaxDrops = 1
    MaxRefusals = 1
CHECK_DEADLOCK FALSE
INVARIANTS
    TypeOK
    CursorDescribesCopy
    IsFollowed
    NoOrphans
PROPERTIES
    ImplementsReplica
