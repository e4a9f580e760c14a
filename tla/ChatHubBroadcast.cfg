SPECIFICATION Spec
CONSTANTS
    alice = alice
    bob = bob
    a1 = a1
    a2 = a2
    b1 = b1
    persisted = persisted
    Users <- TwoUsers
    Clients <- OneEach
    Owner <- OneEachOwner
    Listeners <- OneListener
    SendBuffer = 1
    MaxCommands = 1
INVARIANTS
    BroadcastReachesConnected
CHECK_DEADLOCK FALSE
