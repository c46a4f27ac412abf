SPECIFICATION FairSpec
CONSTANTS
    p1 = p1
    p2 = p2
    cam1 = cam1
    Pipelines = {p1, p2}
    Topics = {cam1}
    NoPipeline = NoPipeline
    TopicOf <- SameCamera
    FramesCap = 1
    OffsetsCap = 1
    MaxRecords = 2
    MaxPoll = 2
INVARIANTS
    TypeOK
    RegistryHoldsOpenChannels
    OneLivePipelinePerTopic
    PanicOnlyAfterCancel
    NothingRunsAfterReturn
    OrphanHasPredecessor
PROPERTIES
    CancelledPipelineReturns
    ConsumerGetsUnstuck
    ShutdownCompletes
CHECK_DEADLOCK FALSE
