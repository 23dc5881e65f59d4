SPECIFICATION Spec
CONSTANTS
    None = None
    RowsKept = 3
    Sessions <- MCSessions
    TaskContainer = "t"
    Widths = {1, 2}
    Styles = {"all"}
    StreamChunks <- MCStreamChunks
    Procs = {"p1", "p2"}
    Situations <- MCSituations
    Leftover <- MCLeftover
    KeyOf <- MCKeyOf
    Machines <- MCMachines
    MaxVanish = 1
    Lines <- MCLines
    Verbs <- MCVerbs
    TakesValue <- MCTakesValue
    ExitCodes = {1, 127, 255}
    Targets <- MCTargets
INVARIANTS
    RowsKeepToThemselves
    ShownIsTrue
    LinesAsWritten
    CleanIsAsAsked
    ConnectionAsAsked
    ExitTellsOutcome
PROPERTIES
    ConvertKeepsFiles
CHECK_DEADLOCK FALSE
