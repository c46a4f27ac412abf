SPECIFICATION FairSpec
CONSTANTS
    file1 = file1
    file2 = file2
    Keys = {file1, file2}
    VideoCounts = {1, 2}
    BatchSize = 2
    MaxOffsets = 3
    MaxFaults = 2
    CommitAckMayBeLost = TRUE
INVARIANTS
    TypeOK
    ExactlyOnce
PROPERTIES
    ImplementsStore
    OffsetsBecomeDurable
CHECK_DEADLOCK FALSE
