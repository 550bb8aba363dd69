SPECIFICATION LiveSpec
CONSTANTS
    None = None
    Addresses <- OneContract
    ChunkSize = 1
    MaxRetry = 1
    History = 1
    FromBlock = None
    MaxRange = 1
    Capacity = 1
    U64 = 16
    Kinds = {"OpPoked"}
    FirstHead = 3
    MinReport = 2
    MaxHead = 4
    MaxLogs = 1
    MaxFaults = 0
PROPERTY TipIsPolled
CHECK_DEADLOCK FALSE
