SPECIFICATION CacheSpec
CONSTANTS
    p1 = p1
    p2 = p2
    p3 = p3
    d1 = d1
    d2 = d2
    d3 = d3
    None = None
    Procs = {p1, p2}
    Older = {}
    Kernels <- SharedOrNot
    Inodes = {1, 2}
    Dirs = {d1, d2}
    Does = {"load", "clean", "refresh"}
    MayFail = {"unlink", "wait", "git", "info", "remove"}
INVARIANTS
    NoLiveStagingRemoved
    OnlyWholeCopies
PROPERTIES
    ImplementsLock
SYMMETRY Symmetry
