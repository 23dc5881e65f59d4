SPECIFICATION Spec
CONSTANTS
    p1 = p1
    p2 = p2
    p3 = p3
    Procs = {p1, p2, p3}
    Older = {p3}
    Kernels <- Shared
    Inodes = {1, 2, 3}
    None = None
    MayFail = {"create", "open", "flock", "read", "mark", "unlink", "wait"}
INVARIANTS
    MutualExclusion
PROPERTIES
    WaitsEnd
