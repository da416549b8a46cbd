SPECIFICATION Spec
CONSTANTS
    Parts = {"call", "reporter", "recovery", "connection", "sa", "rdb", "published", "proxydata", "item", "stub", "wire", "ani"}
    RESET_COUNT_THRESHOLD = 2
    ACCESS_COUNT_THRESHOLD = 3
    TIME_THRESHOLD = 2
    Funcs = {"Insert"}
    MaxTime = 4
    MaxCalls = 7
    RecoveryThreads = {"t1"}
    Controllers = {"c1"}
    ObserverUris = {"u1", "u2"}
    Observers = {"o1"}
    MaxEpoch = 2
    MaxRecoveryCalls = 3
    Callers = {"t1"}
    ExtObservers = {"o1"}
    MAX_RECONNECT = 2
    MaxSessions = 3
    MaxUpdates = 1
    SaThreads = {"t1", "t2"}
    MaxLives = 3
    Threads = {"t1", "t2"}
    Subs = {"s1", "s2"}
    MaxChange = 2
    RdbKeys <- TwoTemplates
    MaxRdbOps = 3
    PublishedKeys = {"k1"}
    MaxPublishedOps = 4
    ProxyUris = {"u1", "u2"}
    Reentrant = {"s2"}
    MaxProxyOps = 4
    Slots = {"a", "b"}
    Blobs = {"b1", "b2"}
    Texts = {"t"}
    MaxHandles = 3
    StubKinds = {"rdb", "published", "proxy"}
    Messages <- StubMessages
    MAX_VEC_SIZE = 3
    MaxRequests = 2
    MaxPredicateOps = 1
    MaxIpcSize = 14
    Fields = {"", "col", "deep"}
    AniUris = {"u", "v", "w"}
    AniCodes = {0, 1}
    MaxPerUri = 2
    MaxBuckets = 3
    MaxChanges = 3
INVARIANT SuccessIsReal
INVARIANT LimitsCallRate
INVARIANT DeadPeerIsForgotten
INVARIANT CallbackUsesLiveController
INVARIANT RecoveryKeepsObservers
INVARIANT SessionsEnd
INVARIANT EnabledIsUpToDate
INVARIANT ObservedIsSubscribed
INVARIANT RemovedIsSilent
INVARIANT RegionsHaveOneHolder
INVARIANT SharedDataArrives
INVARIANT SurvivesWire
INVARIANT DamageIsRefused
INVARIANT PathsAgree
INVARIANT ValuesKeepPlace
CHECK_DEADLOCK FALSE
