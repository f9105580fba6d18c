SPECIFICATION FairSpec
CONSTANTS
    Flags = {f1, f2}
    Evals = {}
    Types <- BoolOnly
    MaxVersion = 1
    WireCap = 2
    MaxRetries = 2
    CacheModes = {TRUE, FALSE}
    CacheCap = 1
    Codes <- OtherOnly
    NoEntry = NoEntry
PROPERTIES
    ShutdownCompletes
    InitCompletes
    ExhaustionReported
    ChangeReported
CHECK_DEADLOCK FALSE
