SPECIFICATION Spec
CONSTANTS
    c1 = c1
    c2 = c2
    q1 = q1
    Commands = {c1}
    Requests = {q1}
    Plans = {q1}
    MaxTurns = 1
    MaxLoads = 1
    MaxFailures = 0
    MaxBoots = 0
    MaxFaults = 1
CHECK_DEADLOCK FALSE
PROPERTIES
    StoppedTurnsNeverPrompt
