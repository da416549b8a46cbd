SPECIFICATION Spec
CONSTANTS
    Clients = {c1, c2}
    CallbackThreads = {b1}
    Observers = {o1}
    MaxReconnect = 1
    MaxCrashes = 2
    MaxFailures = 1
    MaxQueue = 1
SYMMETRY Symmetry
INVARIANT TypeOK
INVARIANT ReleasedIsDisconnected
CHECK_DEADLOCK FALSE
