SPECIFICATION Spec
CONSTANTS
    Parts = {"cursor"}
    HeaderSize = 4
    GroupSize = 12
    CellSize = 4
    RowOffsetsNum = 2
    ColMaxNum = 3
    BlockSize = 70
    FailAfterRows = TRUE
    IntBits = 3
    SourceRows <- SampleRows
    Columns = 2
    ParseLong <- NumberOf
    ParseDouble <- TenthsOf
    FfiBlockSizes = {50, 74}
    FfiColumns = {1, 2}
    FfiValues <- WrittenValues
    FfiMaxRows = 3
    FfiMaxCalls = 7
    JsonKeys = {"a", "b"}
    Width16 = 4
    Width32 = 8
    Width64 = 16
    IpcThreads = {t1, t2}
    CallKinds = {"insert", "query", "update", "uri", "batch_update"}
    TRY_TIMES = 1
    MaxCalls = 2
    AniHelpers = {"h1", "h2"}
    AniUris = {"u"}
    Callbacks = {"c"}
    Workers = {w1}
    MaxObservers = 2
    MaxAniCalls = 1
INVARIANT ReadsOwnRow
CHECK_DEADLOCK FALSE
