SPECIFICATION FairSpec
CONSTANTS
    a = a
    b = b
    c = c
    d = d
    f = f
    g = g
    p = p
    q = q
    r = r
    None = None
    Calls = {a, b, c, d}
    Paths = {p, q, r}
    Files = {f, g}
    PathOf <- FourCalls
    FileOf <- TwoFiles
    Links = {}
    Shared = {f}
CHECK_DEADLOCK FALSE
INVARIANTS
    MutualExclusion
    QueueOrder
PROPERTIES
    EveryCallEnds
