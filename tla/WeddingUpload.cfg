SPECIFICATION FairSpec
CONSTANTS
    photo = photo
    video = video
    anna = anna
    Uploads <- TwoUploads
    Videos <- OneVideo
    Genuine <- OneVideo
    Owner <- BothOfAnna
    Requests = {r1, r2}
    Viewers = {v1}
    Size = 2
    Chunk = 2
    MaxSessions = 1
    OwnerLimit = 1
    MaxFaults = 2
INVARIANTS
    UploadsConsistent
    SessionsAreRecorded
    CachedPageIsCurrent
CHECK_DEADLOCK FALSE
PROPERTIES
    EveryUploadCompletes
