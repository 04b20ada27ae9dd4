SPECIFICATION Spec
CONSTANTS
    Kinds <- AllKinds
    MaxEntries = 4
    MaxReads = 1
CONSTRAINT OneTranscript
INVARIANTS ReadsAreExact ResultsFollowCalls
CHECK_DEADLOCK FALSE
