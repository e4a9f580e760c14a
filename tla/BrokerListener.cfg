SPECIFICATION FairSpec
CONSTANTS
    BufferSize = 2
    PendingLimit = 2
    MaxSent = 5
INVARIANTS
    ListenerConsistent
PROPERTIES
    EveryMessageSettled
    ShutdownEnds
CHECK_DEADLOCK FALSE
