SPECIFICATION Spec
CONSTANTS
    s1 = s1
    s2 = s2
    f1 = f1
    Steers <- TwoSteers
    FollowUps <- OneFollowUp
    QueueModes <- BothModes
    MaxCalls = 2
    MaxRequests = 2
    MaxFaults = 1
CONSTRAINT InOrder
CHECK_DEADLOCK FALSE
INVARIANTS
    Delivery
    AnsweredInOrder
    AbortHoldsBack
