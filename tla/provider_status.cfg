SPECIFICATION ProviderSpec
CONSTANTS
    Flags = {f1}
    MaxVersion = 1
    MaxChanges = 1
    MaxBreaks = 1
    EventCap = 1
    SyncEventCap = 1
    MaxCallbacks = 1
    Rejects = FALSE
    Malformed = {Bad}
INVARIANTS
    SourceFollowed
    StaleHasTimer
    PanicOnlyInShutdown
    StatusTruthful
CHECK_DEADLOCK FALSE
