SPECIFICATION Spec
CONSTANTS
    Keys = {k1}
    Subscribers = {s1, s2}
    Threads = {t1}
    NoSubscriber = NoSubscriber
    MaxObservers = 2
    MaxChanges = 2
    MaxRestarts = 0
PROPERTY MarkedWhenNobodyEnabled
CHECK_DEADLOCK FALSE
