SPECIFICATION ScanSpec
CONSTANTS
    ClusterSize = 2
    SourceClusters = 4
    Lengths = {1, 2}
    Deltas <- SmallDeltas
    MaxEncoded = 3
    MaxAsked = 5
    SectorBytes = 512
    RecordSectors = 4
    FirstAttribute = 56
    Attributes <- SomeAttributes
    MaxAttributes = 3
    UsaCounts = {0, 2, 5, 7}
    BitmapIndex = 1
    MaxRecordsScanned = 3
INVARIANTS
    ReadsUpToHole
    GoodRecordsListed
