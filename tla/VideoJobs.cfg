SPECIFICATION FairSpec
CONSTANTS
    v1 = v1
    v2 = v2
    Videos <- TwoVideos
    Mappings <- MappingsTwo
    MaxAttempts = 2
    MaxFaults = 2
INVARIANTS
    QueueConsistent
    OutcomeIsEarned
PROPERTIES
    UnitForgottenOnlyByShutdown
    FilesKeptWhileUnitRuns
    ImplementsQueue
    EveryVideoSettles
