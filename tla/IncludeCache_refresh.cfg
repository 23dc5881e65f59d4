SPECIFICATION CacheSpec
CONSTANTS
    p1 = p1
    p2 = p2
    p3 = p3
    d1 = d1
    d2 = d2
    d3 = d3
    None = None
    Procs = {p1, p2}
    Older = {}
    Kernels <- Shared
    Inodes = {1, 2}
    Dirs = {d1, d2}
    Does = {"load", "refresh"}
    MayFail = {}
PROPERTIES
    RefreshFetches
