SPECIFICATION Spec
CONSTANTS
    v1 = v1
    v2 = v2
    Videos <- OneVideo
    Mappings <- NoMappings
    MaxAttempts = 3
    MaxFaults = 2
INVARIANTS
    RunningUnitRecorded
