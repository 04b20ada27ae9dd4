SPECIFICATION ViewSpec
CONSTANTS
    a = a
    b = b
    c = c
    d = d
    Stories <- SafetyStories
CHECK_DEADLOCK FALSE
INVARIANTS
    Consistent
    Landing
    AnswersMatch
    ContextIntact
    MountIsActive
PROPERTIES
    NothingTakenBack
