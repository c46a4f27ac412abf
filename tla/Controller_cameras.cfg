SPECIFICATION FairSpec
CONSTANTS
    cam1 = cam1
    cam2 = cam2
    Cameras = {cam1, cam2}
    Days = {0, 1}
    NoName = NoName
    None = None
    MaxRecords = 3
INVARIANTS
    TypeOK
    RecordingHasRetention
PROPERTIES
    LatestIsObeyed
CHECK_DEADLOCK FALSE
