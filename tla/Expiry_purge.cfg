SPECIFICATION Spec
CONSTANTS
    MsPerSecond = 2
    SecondsPerDay = 2
    FragmentMs = 2
    Retentions = {2, 3}
    DurationBound = 8
    StartTime = 5
    MaxTime = 18
    MaxFrames = 2
INVARIANTS
    TypeOK
    DanglingRowsExpire
PROPERTIES
    KeptLongEnough
    PurgeIsComplete
CHECK_DEADLOCK FALSE
