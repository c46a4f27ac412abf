SPECIFICATION FairSpec
CONSTANTS
    MsgCap = 1
    BatchSize = 2
    ConfigFiles = 2
    MaxBeats = 2
    MaxFaults = 1
INVARIANTS
    TypeOK
    ClosedAfterUse
    DeliveredOnceInOrder
PROPERTIES
    ServiceEnds
    DigestsAreDelivered
CHECK_DEADLOCK FALSE
