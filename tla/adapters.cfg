SPECIFICATION Spec
CONSTANT MaxInits = 2
INVARIANTS
    AnswerConveyed
    ClosedUse
PROPERTIES
    KeepsContract
CHECK_DEADLOCK FALSE
