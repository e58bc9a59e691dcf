SPECIFICATION MCSpec
CONSTANTS
    s1 = s1
    w1 = w1
    thread = thread
    environment = environment
    None = None
    Scopes = {thread, environment}
    Subs = {s1, w1}
    ScopeOf <- MCScopeOf
    Windows = {2}
    backlogBytes = 2
    Sizes = {1, 2}
    ReplayThrows = TRUE
    MaxHead = 3
    MaxNotices = 1
    MaxKeepalives = 1
CHECK_DEADLOCK FALSE
INVARIANTS
    TypeOK
    BacklogIsBounded
    FeedIsWhole
    OnlyLiveSubscriptions
PROPERTIES
    LaggingIsCaughtUp
    OpenCallsReturn
