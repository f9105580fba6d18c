SPECIFICATION Spec
CONSTANTS
    Flags = {f1}
    Evals = {e1}
    Types <- AllTypes
    MaxVersion = 1
    WireCap = 1
    MaxRetries = 1
    CacheModes = {TRUE}
    CacheCap = 1
    Codes <- AllCodes
    NoEntry = NoEntry
INVARIANTS
    CacheCoherent
    InitVerdict
