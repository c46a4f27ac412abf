SPECIFICATION FairSpec
CONSTANTS
    cam1 = cam1
    cam2 = cam2
    worker1 = worker1
    worker2 = worker2
    Cameras = {cam1, cam2}
    Workers = {worker1}
    Days = {0}
    Ages = {0}
    DurationBound = 1
    NoName = NoName
    Nobody = Nobody
    MaxConfigs = 2
PROPERTIES
    PurgeStops
CHECK_DEADLOCK FALSE
