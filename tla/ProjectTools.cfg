CONSTANTS
    None = None
    root = root
    web = web
    src = src
    lib = lib
    out = out
    a = a
    b = b
    c = c
    d = d
    t1 = t1
    t2 = t2
    t3 = t3
    p1 = p1
    p2 = p2
    Procs = {p1, p2}
    Root = root
    Dirs <- MCDirs
    Above <- MCAbove
    Roles <- MCRoles
    Tools <- MCTools
    Origins <- MCOrigins
    Plans <- MCPlans
    Sites <- MCSites
    MaxDepth = 2
SPECIFICATION Spec
INVARIANTS
    TypeOK
    ResolutionExact
    NearestLayer
CHECK_DEADLOCK FALSE
