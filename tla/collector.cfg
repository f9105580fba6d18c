SPECIFICATION FairSpec
CONSTANTS
    Events = {e1, e2}
    Max = 1
    Remote = TRUE
    MaxStarts = 2
    MaxIdleStops = 1
    MaxFailures = 1
    NoOne = NoOne
INVARIANTS
    NothingLost
    DuplicatesOnlyByFailure
    StopIsLast
PROPERTIES
    FlushedOnStop
    StopCompletes
    FlushedPeriodically
CHECK_DEADLOCK FALSE
