SPECIFICATION FairSpec
CONSTANTS
    Clients = {c1}
    CallbackThreads = {b1}
    Observers = {o1}
    MaxReconnect = 2
    MaxCrashes = 3
    MaxFailures = 1
    MaxQueue = 2
INVARIANT ProxyFollowsExtension
INVARIANT ObserversFollowReconnection
PROPERTY Reconnects
CHECK_DEADLOCK FALSE
