SPECIFICATION Spec
CONSTANTS
    t = t
    c = c
    h = h
    Tasks = {t}
    Documents = {c, h}
    CurrentOnly = {c}
    Batches <- AllBatches
    Torn = Torn
    Unavailable = Unavailable
    FsyncOptions = {TRUE, FALSE}
    MaxAttempts = 5
    MaxFaults = 2
CONSTRAINT OneFamily
CHECK_DEADLOCK FALSE
INVARIANTS
    NeverCorrupt
    ReadersSeeCommitted
    FilesAgree
PROPERTIES
    ImplementsContract
