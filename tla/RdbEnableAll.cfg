SPECIFICATION Spec
CONSTANTS
    Keys = {k1}
    Subscribers = {s1}
    Threads = {t1}
    NoSubscriber = NoSubscriber
    MaxObservers = 2
    MaxChanges = 0
    MaxRestarts = 0
PROPERTY EnableEnablesObservers
CHECK_DEADLOCK FALSE
