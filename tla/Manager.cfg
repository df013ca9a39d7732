SPECIFICATION FairSpec
CONSTANTS
    r1 = r1
    r2 = r2
    r3 = r3
    old = old
    Events <- MCEvents
    Realtime <- MCEvents
    Critical <- MCCritical
    Leftover <- MCLeftover
    MemoryLimit = 2
    MaxRefusals = 1
INVARIANTS ExactlyOnePlace MemoryIsSaved
PROPERTY EventuallyReceived
