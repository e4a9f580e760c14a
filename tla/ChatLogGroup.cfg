SPECIFICATION Spec
CONSTANTS
    alice = alice
    bob = bob
    system = system
    c1 = c1
    noClient = noClient
    SystemSender <- system
    NoClient <- noClient
    Types = {"group", "system"}
    Users <- TwoUsers
    InitialMembers <- Founders
    ClientIds <- NoClientIds
    Kinds <- TextOnly
    Limits = {2, 3}
    MaxSent = 4
    MaxForward = 2
    MaxEdits = 0
    MaxAnnotations = 1
INVARIANTS
    PointerBackedByReceipts
    AnnotationsOnStoredMessages
PROPERTIES
    PointerNeverMovesBack
    StoringTrimsOldest
CHECK_DEADLOCK FALSE
