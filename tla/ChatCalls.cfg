SPECIFICATION Spec
CONSTANTS
    alice = alice
    bob = bob
    carol = carol
    c1 = c1
    c2 = c2
    Users <- ThreeUsers
    Conversations <- TwoConversations
    MaxParticipants = 2
    Limit = 3
    MaxSent = 3
    MaxRequests = 1
INVARIANTS
    CallsConsistent
    CardsShowCalls
PROPERTIES
    CallNeverReopens
SYMMETRY CallsSymmetry
CHECK_DEADLOCK FALSE
