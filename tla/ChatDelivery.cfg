SPECIFICATION Spec
CONSTANTS
    alice = alice
    bob = bob
    carol = carol
    system = system
    c1 = c1
    noClient = noClient
    speaker = speaker
    SystemSender <- system
    NoClient <- noClient
    Types = {"group","direct"}
    Users <- MCUsers
    InitialMembers <- Founders
    ClientIds = {c1}
    Limits = {2}
    MaxSent = 2
    MaxRequests = 2
    SendIds = {c1, noClient}
    UploadIds = {c1}
    MediaKinds = {"audio", "file"}
    Senders = {alice}
    Readers = {bob}
    Devices = {speaker}
    DeviceOf <- Speakers
    MaxUploads = 2
    MaxFaults = 1
INVARIANTS
    DeliveryConsistent
    ServedOnce
    StoreIsAnnounced
    SpokenOncePerDevice
PROPERTIES
    EveryFileGoes
CHECK_DEADLOCK FALSE
