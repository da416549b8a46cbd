SPECIFICATION Spec
CONSTANTS
    Clients = {c1}
    CallbackThreads = {b1}
    Observers = {o1}
    MaxReconnect = 2
    MaxCrashes = 2
    MaxFailures = 1
    MaxQueue = 2
INVARIANT StoredForReconnection
CHECK_DEADLOCK FALSE
