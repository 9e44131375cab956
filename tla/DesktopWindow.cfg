SPECIFICATION Spec
CONSTANTS
    img1 = img1
    img2 = img2
    db1 = db1
    db2 = db2
    Images = {img1, img2}
    Dbs = {db1, db2}
    MaxFiles = 1
    MaxScans = 2
    MaxCalls = 2
    MaxRestarts = 1
    SameMillisecond = FALSE
    None = None
SYMMETRY Symmetric
INVARIANTS
    TypeOK
    RecoversOnlyTicked
    ListedCanBeLoaded
    SavedSessionsKept
    ShownCanBeKept
CHECK_DEADLOCK FALSE
