SPECIFICATION Spec
CONSTANTS
    MsPerSecond = 2
    SecondsPerDay = 2
    FragmentMs = 2
    NoFile = NoFile
    FrameSize = 1
    MaxLead = 0
    DiskMayFail = FALSE
    MaxTime = 4
    MaxFrames = 3
INVARIANT OffsetsAreInTheFile
CHECK_DEADLOCK FALSE
