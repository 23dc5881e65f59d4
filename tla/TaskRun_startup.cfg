SPECIFICATION Spec
CONSTANTS
    root = root
    app = app
    db = db
    pulled = pulled
    built = built
    None = None
    Containers = {root, app, db}
    Root = root
    Deps <- ChainDeps
    NetTarget <- ChainNet
    Images = {pulled, built}
    ImageOf <- ChainImages
    Built = {built}
    Tagged = {built}
    IfNotPresent = {pulled}
    Completes = {db}
    ExternallyChecked = {app}
    SetupCommands <- ChainSetups
    MaxParallelism = 1
    Settings <- OneSetting
    MayFail = {"network", "image", "create", "prepare", "start", "wait", "health", "setup", "stream", "inspect"}
    MaxSignals = 1
INVARIANTS
    StartedAfterDependencies
    DependencyOutlivesDependents
    MainCommandExitWins
PROPERTIES
    UnexpectedExitIsGenuine
    RunEnds
