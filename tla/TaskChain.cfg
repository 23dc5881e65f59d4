SPECIFICATION ChainSpec
CONSTANTS
    Names = {1, 2, 3, 4}
    Wildcard = Wildcard
    Matches = {2, 3, 4}
    Projects <- EveryProject
    Requested = 1
    Tags = {3}
    ChainFails = {"evaluate", "run"}
    MaxSignals = 2
INVARIANTS
    CheckIsExact
    PrerequisitesFirst
PROPERTIES
    SignalsStopTheChain
    ChainEnds
