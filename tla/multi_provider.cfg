SPECIFICATION FairSpec
CONSTANTS
    Providers = {p1, p2, p3}
    Values = {v0, v1}
    Default = v0
    NoOne = NoOne
INVARIANTS
    OutcomeJustified
    FirstSuccessVerdict
    ComparisonOutcome
PROPERTIES
    EvaluationEnds
CHECK_DEADLOCK FALSE
