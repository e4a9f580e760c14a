SPECIFICATION Spec
CONSTANTS
    alice = alice
    bob = bob
    system = system
    c1 = c1
    noClient = noClient
    SystemSender <- system
    NoClient <- noClient
    Types = {"direct"}
    Users <- TwoUsers
    InitialMembers <- Founders
    ClientIds <- OneClientId
    Kinds <- TextAndFiles
    Limits = {3}
    MaxSent = 5
    MaxForward = 1
    MaxEdits = 1
    MaxAnnotations = 0
INVARIANTS
    TypeOK
    PreviewShowsNewest
    OneMessagePerClientId
    LostPinIsOlder
PROPERTIES
    UnreadComesBackOnlyByRemoval
SYMMETRY UserSymmetry
