SPECIFICATION Spec
CONSTANTS
    a = a
    b = b
    c = c
    d = d
    f = f
    g = g
    p = p
    q = q
    r = r
    None = None
    Calls = {a, b}
    Paths = {p}
    Files = {f}
    PathOf <- LinkCalls
    FileOf <- LinkFile
    Links = {p}
    Shared = {}
CHECK_DEADLOCK FALSE
INVARIANTS
    OneKeyPerFile
