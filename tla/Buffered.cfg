SPECIFICATION BufferedSpec
CONSTANTS
    e1 = e1
    e2 = e2
    e3 = e3
    e4 = e4
    e5 = e5
    Events <- MCEvents
    Size <- MCSize
    BufferLimit = 2
    FileLimits <- MCFileLimits
    MaxOpenErrors = 0
    UploadLimits <- MCUploadLimits
INVARIANT NothingLost
CONSTRAINT Claimed
