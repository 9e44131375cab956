SPECIFICATION Spec
CONSTANTS
    img1 = img1
    img2 = img2
    db1 = db1
    Images = {img1, img2}
    Dbs = {db1}
    MaxFiles = 1
    MaxScans = 2
    MaxCalls = 2
    MaxRestarts = 1
    SameMillisecond = FALSE
    None = None
INVARIANT
    RecoversFromOwnImage
CHECK_DEADLOCK FALSE
