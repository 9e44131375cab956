SPECIFICATION Spec
CONSTANTS
    Bytes <- MCBytes
    Size = 7
    Sigs <- MCSigs
    Header <- MCHeader
    Footer <- MCFooter
    MaxSize <- MCMaxSize
    Overlap = 3
    ChunkSizes = {0, 2, 3, 4}
INVARIANTS
    TypeOK
    PrefixCarved
    UniqueStarts
    ExtentsSound
PROPERTIES
    ScanEnds
    ImplementsCarveSpec
