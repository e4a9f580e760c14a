SPECIFICATION FairSpec
CONSTANTS
    alice = alice
    bob = bob
    a1 = a1
    a2 = a2
    b1 = b1
    persisted = persisted
    Users <- OneUser
    Clients <- TwoDevices
    Owner <- TwoDevicesOwner
    Listeners <- NoListeners
    SendBuffer = 1
    MaxCommands = 1
PROPERTIES
    OfflineOncePerLastClient
    BroadcastsEnd
    GoneClientsAreReleased
    PresenceSettles
CHECK_DEADLOCK FALSE
