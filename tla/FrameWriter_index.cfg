SPECIFICATION Spec
CONSTANTS
    MsPerSecond = 2
    SecondsPerDay = 2
    FragmentMs = 2
    NoFile = NoFile
    FrameSize = 2
    MaxLead = 1
    DiskMayFail = TRUE
    MaxTime = 5
    MaxFrames = 3
INVARIANTS
    TypeOK
    RowsResolveOrOverwritten
    IndexNamesTheFile
    FilesStartWithIFrame
    IndexedFramesAreWhole
    OffsetCountsWholeFrames
    FilesHoldOneRun
PROPERTIES
    TruncationNeedsLateFrame
CHECK_DEADLOCK FALSE
