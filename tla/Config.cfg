SPECIFICATION Spec
CONSTANTS
    Configs = 2
    MaxVersion = 1
    IsSet <- TwoConfigs
    Refresh = {1}
    BackoffCap = 2
    MaxTime = 2
    MaxDeaths = 1
    GarbageStatus = {"304", "other"}
VIEW WithoutHistory
INVARIANT LimitsAreApplied
