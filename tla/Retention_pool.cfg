SPECIFICATION FairSpec
CONSTANTS
    cam1 = cam1
    cam2 = cam2
    worker1 = worker1
    worker2 = worker2
    Cameras = {cam1}
    Workers = {worker1, worker2}
    Days = {0, 1, 3}
    Ages = {0, 1}
    DurationBound = 2
    NoName = NoName
    Nobody = Nobody
    MaxConfigs = 2
INVARIANTS
    TypeOK
    OneWorkerPerCamera
    RoundsAreJoined
    OnlyZeroIsForgotten
PROPERTIES
    OnlyExpiredIsDeleted
    ZeroIsForgotten
    StopsOrHangsInSend
CHECK_DEADLOCK FALSE
