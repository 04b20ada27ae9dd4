SPECIFICATION FairSpec
CONSTANTS
    c1 = c1
    c2 = c2
    r1 = r1
    None = None
    Children = {c1, c2}
    Roots = {r1}
    MaxEpoch = 3
    MaxLinks <- FirstReconnects
    MaxFaults = 1
CONSTRAINT OneStory
CHECK_DEADLOCK FALSE
INVARIANTS
    EpochsAgree
PROPERTIES
    RetiresInTurn
    ReloadsEnd
