SPECIFICATION EscapeSpec
CONSTANTS
    root = root
    app = app
    db = db
    pulled = pulled
    built = built
    None = None
    Containers = {root, app}
    Root = root
    Deps <- PairDeps
    NetTarget <- PairNet
    Images = {pulled, built}
    ImageOf <- PairImages
    Built = {built}
    Tagged = {}
    IfNotPresent = {pulled}
    Completes = {}
    ExternallyChecked = {}
    SetupCommands <- NoSetups
    MaxParallelism = 2
    Settings <- EitherCleanup
    MayFail = {"create", "stop", "remove", "network_removal"}
    MaxSignals = 3
INVARIANTS
    AbandonTakesTwoSignals
    NoSilentLeak
    CleanExitMeansClean
    BuildsAccountedFor
PROPERTIES
    ImplementsContract
    EscapeHatch
