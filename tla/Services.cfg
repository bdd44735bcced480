SPECIFICATION Spec
CONSTANTS
    Streams <- GameStreams
    PROTOCOL_QUEUE_LINES = 1
    LOG_QUEUE_LINES = 2
    LOG_QUEUE_BYTES = 2
    Says <- Meanings
    MaxWrites = 2
    Waiters = {w}
    QUEUE_CAPACITY = 2
    QUEUE_BYTES = 3
    MAX_BATCH_RECORDS = 2
    MAX_BATCH_BYTES = 2
    MaxSubmissions = 3
    MaxRetries = 1
    Queries = {q1, q2}
    MaxConcurrency = 1
    Limit = 1
    MaxLines = 2
    MaxEntries = 4
INVARIANTS
    UpdatesAreHonest ExportsAreAccounted QueriesAreSound
PROPERTIES
    ProcessEnds LoggingSettles
CHECK_DEADLOCK FALSE
