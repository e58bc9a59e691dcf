SPECIFICATION Spec
CONSTANTS
    c1 = c1
    c2 = c2
    q1 = q1
    Commands = {c1}
    Requests = {q1}
    Plans = {q1}
    MaxTurns = 2
    MaxLoads = 2
    MaxFailures = 1
    MaxBoots = 1
    MaxFaults = 4
CHECK_DEADLOCK FALSE
INVARIANTS
    MemoryAgreesWithRows
    RetryFindsItsTurn
PROPERTIES
    OpenTurnsEnd
