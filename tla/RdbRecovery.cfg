SPECIFICATION Spec
CONSTANTS
    Keys = {k1, k2}
    Subscribers = {s1, s2}
    Threads = {t1}
    NoSubscriber = NoSubscriber
    MaxObservers = 2
    MaxChanges = 0
    MaxRestarts = 1
INVARIANT ServiceCarriesEnabled
PROPERTY RecoveryRestoresStatus
CHECK_DEADLOCK FALSE
