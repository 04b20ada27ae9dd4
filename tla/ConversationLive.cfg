SPECIFICATION FairSpec
CONSTANTS
    a = a
    b = b
    c = c
    d = d
    Stories <- LiveStories
CHECK_DEADLOCK FALSE
PROPERTIES
    WorkEnds
