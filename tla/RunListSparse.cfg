SPECIFICATION Spec
CONSTANTS
    ClusterSize = 2
    SourceClusters = 4
    Lengths = {1, 2}
    Deltas <- SmallDeltas
    MaxEncoded = 3
    MaxAsked = 5
INVARIANT
    ReadsFileContent
