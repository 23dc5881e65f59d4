SPECIFICATION Spec
CONSTANTS
    SIGINT = SIGINT
    Signals = {SIGINT, SIGTERM}
    NoSignal = NoSignal
    Waiters = {w1, w2}
    MaxArrivals = 3
    MaxThreshold = 2
INVARIANTS
    NoMissedWakeup
PROPERTY WaiterReturns
CHECK_DEADLOCK FALSE
