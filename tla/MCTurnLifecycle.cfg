SPECIFICATION Spec
CONSTANTS
    c1 = c1
    c2 = c2
    q1 = q1
    Commands = {c1, c2}
    Requests = {q1}
    Plans = {q1}
    MaxTurns = 3
    MaxLoads = 2
    MaxFailures = 0
    MaxBoots = 0
    MaxFaults = 2
CHECK_DEADLOCK FALSE
SYMMETRY Symmetry
INVARIANTS
    TypeOK
    OneOpenTurn
    EndedOnce
    NothingPendingAfterEnd
