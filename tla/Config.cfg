SPECIFICATION Spec
CONSTANTS
    None = None
    Layouts <- AllLayouts
    Companion <- Companions
    Running = 2
    Breaking = {1, 2}
INVARIANTS
    TrustIsTheOwners
    BundlesReadThemselves
    BundlesCovered
    AcceptedIsRunnable
    PathsStayWithTheirWriter
PROPERTIES
    LoadEnds
CHECK_DEADLOCK FALSE
