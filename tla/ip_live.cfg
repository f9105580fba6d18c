SPECIFICATION LiveSpec
CONSTANTS
    Flags = {f1}
    MaxVersion = 1
    MaxChanges = 0
    MaxBreaks = 1
    EventCap = 1
    SyncEventCap = 1
    MaxCallbacks = 0
    Rejects = TRUE
    Malformed = {Bad}
INVARIANTS
    InitMeansServing
PROPERTIES
    ShutdownCompletes
    SourceConverges
    OutageReported
CHECK_DEADLOCK FALSE
