SPECIFICATION Spec
CONSTANTS
    Keys = {k1, k2}
    Subscribers = {s1}
    Threads = {t1}
    NoSubscriber = NoSubscriber
    MaxObservers = 1
    MaxChanges = 1
    MaxRestarts = 1
SYMMETRY Symmetry
INVARIANT ServiceCarriesEnabled
INVARIANT NoMissedChange
CHECK_DEADLOCK FALSE
