SPECIFICATION ProviderFairSpec
CONSTANTS
    Flags = {f1}
    MaxVersion = 1
    MaxChanges = 2
    MaxBreaks = 0
    EventCap = 1
    SyncEventCap = 1
    MaxCallbacks = 0
    Rejects = FALSE
    Malformed = {Bad}
PROPERTIES
    ShutdownWhileForwarding
CHECK_DEADLOCK FALSE
