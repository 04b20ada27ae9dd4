SPECIFICATION FairSpec
CONSTANTS
    a = a
    b = b
    c = c
    r = r
    Jobs = {a, b, c}
    Readers = {r}
    Close = Close
    Kinds = {"commit", "snapshot", "watch", "unload", "close"}
CONSTRAINT OneMix
CHECK_DEADLOCK FALSE
INVARIANTS
    CacheIsRight
    NoLostUpdate
    FailureContained
    ReadersAreCurrent
    CloseIsFinal
PROPERTIES
    FailedNeverWrites
    CallsEnd
