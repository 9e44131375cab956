SPECIFICATION Spec
CONSTANTS
    FirstCluster = 2
    TotalClusters = 6
    ClusterSize = 2
    DataStart = 1
    TableEnd = 6
    Passes <- DodPattern
    WipeChunkSize = 3
    ImageSizes = {9, 8}
    MaxRuns = 2
    MaxAllocations = 0
INVARIANTS
    TypeOK
    LiveUntouched
    DoneMeansWiped
    BytesCounted
    RangesExact
    RangesApart
PROPERTIES
    PassesInOrder
    JobEnds
CHECK_DEADLOCK FALSE
