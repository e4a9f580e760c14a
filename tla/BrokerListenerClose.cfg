SPECIFICATION Spec
CONSTANTS
    BufferSize = 1
    PendingLimit = 1
    MaxSent = 1
INVARIANTS
    ChannelClosedOnce
CHECK_DEADLOCK FALSE
