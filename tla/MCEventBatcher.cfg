SPECIFICATION Spec
CONSTANTS
    d1 = d1
    d2 = d2
    x1 = x1
    w1 = w1
    end1 = end1
    None = None
    Events <- MCEvents
    Ev <- MCEv
    Refusable <- MCRefusable
    MaxBatch = 3
    MaxFailures = 2
    MaxNotices = 1
INVARIANTS
    TypeOK
    NothingLostOrReordered
    DroppedForCause
    PublishedInOrder
PROPERTIES
    ImplementsOrderedDurability
    BufferedIsFlushed
