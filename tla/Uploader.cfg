SPECIFICATION FairSpec
CONSTANTS
    e1 = e1
    e2 = e2
    big1 = big1
    big2 = big2
    Events <- MCEvents
    Size <- MCSize
    FileLimits <- ZeroLimits
    UploadLimits <- ZeroLimits
    MaxOpenErrors = 0
    SizeMax = 9
INVARIANT ExactlyOnce
PROPERTIES DropsOnlyUnsendable EventuallyUploaded
