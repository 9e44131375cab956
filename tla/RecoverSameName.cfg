SPECIFICATION Spec
CONSTANTS
    a = a
    b = b
    Names = {a, b}
    NRecords = 2
    NClusters = 3
    BitmapEnd = 3
    MaxRuns = 2
    Sizes = {0, 1, 2}
    BadClusters = {1, 3}
    LossyRecords = {1}
    CarvedFirst = {1}
    MaxChosen = 2
    MadeRuns <- FewRuns
    MaxOdd = 0
INVARIANT
    RecordRemembered
