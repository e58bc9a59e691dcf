SPECIFICATION Spec
CONSTANTS
    s1 = s1
    w1 = w1
    thread = thread
    environment = environment
    None = None
    Scopes = {thread}
    Subs = {s1}
    ScopeOf <- MCScopeOf
    Windows = {1}
    backlogBytes = 1
    Sizes = {1}
    ReplayThrows = TRUE
    MaxHead = 2
    MaxNotices = 0
    MaxKeepalives = 0
CHECK_DEADLOCK FALSE
PROPERTY
    CallsReturn
