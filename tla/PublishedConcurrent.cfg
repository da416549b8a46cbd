SPECIFICATION Spec
CONSTANTS
    Keys = {k1}
    Subscribers = {s1, s2}
    Threads = {t1, t2}
    NoSubscriber = NoSubscriber
    MaxObservers = 2
    MaxChanges = 2
    MaxRestarts = 0
SYMMETRY Symmetry
INVARIANT TypeOK
INVARIANT ServiceCarriesEnabled
INVARIANT NoMissedChange
CHECK_DEADLOCK FALSE
