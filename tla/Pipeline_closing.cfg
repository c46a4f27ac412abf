SPECIFICATION Spec
CONSTANTS
    p1 = p1
    p2 = p2
    cam1 = cam1
    Pipelines = {p1, p2}
    Topics = {cam1}
    NoPipeline = NoPipeline
    TopicOf <- SameCamera
    FramesCap = 1
    OffsetsCap = 1
    MaxRecords = 4
    MaxPoll = 2

INVARIANT
    ClosingChannelsOnlySignals
CHECK_DEADLOCK FALSE
