SPECIFICATION Spec
CONSTANTS
    TextFields = {"OfflineFlagSourcePath", "TargetUri"}
    IntFields = {"MaxCacheSize"}
    MaxOptions = 2
INVARIANTS
    ConnectsAsConfigured
    LastOptionWins
CHECK_DEADLOCK FALSE
