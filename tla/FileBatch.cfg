SPECIFICATION FileSpec
CONSTANTS
    e1 = e1
    e2 = e2
    e3 = e3
    e4 = e4
    NoEvent = NoEvent
    Events <- MCEvents
    Size <- MCSize
    FileLimits <- MCFileLimits
    UploadLimits <- MCUploadLimits
    ReadCap = 100
    MaxCuts = 1
    MaxWriteErrors = 1
    MaxCopyErrors = 1
INVARIANTS CacheExact NothingLost ExactQueue OlderEventsSurvive
