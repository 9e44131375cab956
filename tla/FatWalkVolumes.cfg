SPECIFICATION Spec
CONSTANTS
    LastCluster = 4
    SlotsPerCluster = 1
    MaxChainClusters = 1000000
INVARIANTS
    TypeOK
    FindsEachDeletedOnce
    PathsLeadThere
    DepthBounded
    DirectoryIsWhole
PROPERTY
    WalkEnds
