SPECIFICATION Spec
CONSTANTS
    None = None
    Addresses <- OneContract
    ChunkSize = 1
    MaxRetry = 1
    History = 2
    FromBlock = None
    MaxRange = 1
    Capacity = 1
    U64 = 16
    Kinds = {"OpPoked"}
    FirstHead = 1
    MinReport = 0
    MaxHead = 3
    MaxLogs = 1
    MaxFaults = 2
INVARIANT CursorNotAhead
CHECK_DEADLOCK FALSE
