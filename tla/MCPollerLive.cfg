SPECIFICATION LiveSpec
CONSTANTS
    None = None
    Addresses <- TwoContracts
    ChunkSize = 1
    MaxRetry = 1
    History = 1
    FromBlock = None
    MaxRange = 2
    Capacity = 1
    U64 = 16
    Kinds = {"OpPoked"}
    FirstHead = 3
    MinReport = 3
    MaxHead = 5
    MaxLogs = 2
    MaxFaults = 1
PROPERTY LogsAreSent
PROPERTY CancelStops
CHECK_DEADLOCK FALSE
