SPECIFICATION FairSpec
CONSTANTS
    MaxVersion = 2
    MaxFaults = 1
    MaxPending = 2
    HeaderSets = {{"ETag"}, {"Last-Modified"}}
    None = None
INVARIANTS
    CacheSound
    SyncHandsOver
PROPERTIES
    NothingAfterShutdown
    ShutdownEnds
CHECK_DEADLOCK FALSE
