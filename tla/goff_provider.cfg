SPECIFICATION FairSpec
CONSTANTS
    Evaluations = {e1}
    MaxVersion = 2
    MaxFaults = 2
    MaxInits = 2
    MaxShutdowns = 2
    EventChannelBuffer = 2
    None = None
INVARIANTS
    AnswerConsistent
    EventsTruthful
    CacheFresh
PROPERTIES
    ShutdownCompletes
    ChangeArrives
CHECK_DEADLOCK FALSE
