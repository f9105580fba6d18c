SPECIFICATION Spec
CONSTANTS
    Flags = {f1}
    MaxVersion = 1
    MaxChanges = 1
    MaxBreaks = 1
    EventCap = 2
    SyncEventCap = 1
    MaxCallbacks = 1
    Rejects = FALSE
    Malformed = {Bad}
INVARIANTS
    RecoveryAnnounced
CHECK_DEADLOCK FALSE
