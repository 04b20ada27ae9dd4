SPECIFICATION Spec
CONSTANTS
    MaxTasks = 2
    MaxConvs = 2
    TaskShapes <- RaceShapes
    ConvShapes <- SubConv
    Waits <- PairWaits
    Abortable = {1, 2}
    AbortScopes = {1, 2}
    Inboxes = {1, 2}
    Extension = {}
    MaxRestarts = 1
    MaxLine = 2
CONSTRAINT OneRace
CHECK_DEADLOCK FALSE
INVARIANTS
    WaitGraphAcyclic
    NothingForgotten
PROPERTIES
    DecidedIsFinal
