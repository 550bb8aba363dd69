SPECIFICATION Spec
CONSTANTS
    None = None
    Addresses <- TwoContracts
    ChunkSize = 1
    MaxRetry = 1
    History = 1
    FromBlock = None
    MaxRange = 1
    Capacity = 1
    U64 = 16
    Kinds = {"OpPoked", "malformed"}
    FirstHead = 3
    MinReport = 2
    MaxHead = 5
    MaxLogs = 2
    MaxFaults = 2
INVARIANT TypeOK
INVARIANT NoGap
INVARIANT GivesUpAfterStreak
INVARIANT CursorNotAhead
PROPERTY FreshEventsInOrder
PROPERTY KeepsFeed
CHECK_DEADLOCK FALSE
