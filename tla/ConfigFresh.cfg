SPECIFICATION Spec
CONSTANTS
    Configs = 1
    MaxVersion = 2
    IsSet <- OneConfig
    Refresh = {2, 3}
    BackoffCap = 2
    MaxTime = 7
    MaxDeaths = 1
    GarbageStatus = {"200", "other"}
INVARIANT NotStale
PROPERTY RetriesAreSpaced
