SPECIFICATION Spec
CONSTANTS
    alice = alice
    bob = bob
    carol = carol
    g1 = g1
    ip1 = ip1
    ip2 = ip2
    Texts <- FourWords
    MaxLimit = 7
    MaxPrefix = 4
    Floor = 3
    Minutes = 7
    Users = {alice, bob, carol}
    GroupIds = {g1}
    DirectIds <- OneDirect
    SystemIds <- OneSystem
    Sees <- EveryoneSees
    Drafters = {bob}
    MaxGroupRequests = 2
    Emails = {home, work}
    Devices = {phone}
    Tokens = {token}
    Slots = {1, 2}
    MaxAccountRequests = 4
    Guests = {ip1}
    Codes = {first, second}
    DefaultCode = first
    MaxAttempts = 2
    LockDuration = 1
    MaxAccessTime = 2
    MaxChanges = 2
    MaxReturns = 1
    Addresses = {ip1, ip2}
    Limit = 2
    Window = 3
    MaxEntries = 1
    MaxRsvpTime = 7
    MaxRsvps = 1
    MaxRsvpCrashes = 1
    Names = {developer, nats}
    Foreign = {nats}
    Keys = {k1, k2}
    Folders <- TwoFolders
    MaxSSHRequests = 3
    MaxSSHFaults = 1
    Requests = {r1, r2, r3}
    Media = {m1, m2}
    SummaryPlaces = 1
    MaxOthers = 1
    Files = {f1, f2, f3}
    MaxThumbnails = 2
    MaxBytes = 3
    MaxSize = 4
    Life = 2
    MaxThumbnailTime = 3
    MaxClock = 4
    MaxPending = 2
    MaxUploads = 1
    Places = 2
    MaxRotations = 3
    MaxMediaCrashes = 1
INVARIANTS
    GroupsConsistent
    AliceTextIsKept
    AccountsConsistent
    GuestsConsistent
    SSHAccessConsistent
    GalleryConsistent
CHECK_DEADLOCK FALSE
