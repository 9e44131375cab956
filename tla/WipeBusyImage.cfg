SPECIFICATION SharedSpec
CONSTANTS
    FirstCluster = 2
    TotalClusters = 5
    ClusterSize = 2
    DataStart = 1
    TableEnd = 5
    Passes <- TwoPasses
    WipeChunkSize = 3
    ImageSizes = {7}
    MaxRuns = 1
    MaxAllocations = 1
INVARIANTS
    WipedTogether
    VerifiedCleanAlone
PROPERTY
    SparesLive
CHECK_DEADLOCK FALSE
