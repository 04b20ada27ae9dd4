SPECIFICATION FairSpec
CONSTANTS
    MaxTasks = 2
    MaxConvs = 2
    TaskShapes <- LiveShapes
    ConvShapes <- SubConv
    Waits <- LiveWaits
    Abortable = {1}
    AbortScopes = {}
    Inboxes = {}
    Extension = {2}
    MaxRestarts = 1
    MaxLine = 1
CONSTRAINT OneFault
CHECK_DEADLOCK FALSE
PROPERTIES
    CancellationEnds
    WaitEnds
