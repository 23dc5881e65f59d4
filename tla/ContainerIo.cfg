SPECIFICATION Spec
CONSTANTS
    dep = dep
    Sessions = 2
    Chunks = 2
    Lines = 1
    Background = {dep}
    Environments <- Invocations
    MayFail = {"retry", "read", "write", "attach", "enable", "start", "output",
               "stdout", "restore", "cancel", "code", "stop", "remove", "escalate",
               "inspect", "events"}
INVARIANTS
    InputAccounted
    TerminalRestored
    NoOutputAfterRemoval
PROPERTIES
    NothingHangs
    VerdictHeard
CHECK_DEADLOCK FALSE
