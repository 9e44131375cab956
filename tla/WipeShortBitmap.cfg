SPECIFICATION Spec
CONSTANTS
    FirstCluster = 0
    TotalClusters = 4
    ClusterSize = 2
    DataStart = 0
    TableEnd = 3
    Passes <- ZeroPattern
    WipeChunkSize = 3
    ImageSizes = {8}
    MaxRuns = 1
    MaxAllocations = 0
INVARIANT
    LiveUntouched
CHECK_DEADLOCK FALSE
