SPECIFICATION Spec
CONSTANTS
    MaxTasks = 3
    MaxConvs = 2
    TaskShapes <- OwnerShapes
    ConvShapes <- SubConv
    Waits <- FlatWaits
    Abortable = {1}
    AbortScopes = {}
    Inboxes = {}
    Extension = {1, 2}
    MaxRestarts = 1
    MaxLine = 1
CONSTRAINT OneTree
CHECK_DEADLOCK FALSE
INVARIANTS
    LiveChildHasLiveOwner
    AbortRunsAlone
    AbandonedNeverResumes
    NothingForgotten
PROPERTIES
    DrainBeforeTerminal
    OrphanedByRequest
