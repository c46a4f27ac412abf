SPECIFICATION Spec
CONSTANTS
    file1 = file1
    file2 = file2
    Keys = {file1, file2}
    VideoCounts = {1}
    BatchSize = 2
    MaxOffsets = 2
    MaxFaults = 0
    CommitAckMayBeLost = FALSE
INVARIANT FlushRemainingOnExit
CHECK_DEADLOCK FALSE
