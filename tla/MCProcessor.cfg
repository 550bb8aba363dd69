SPECIFICATION LiveSpec
CONSTANTS
    None = None
    Pokes <- TwoPokes
    Period = 3
    Capacity = 2
    MaxEvents = 3
INVARIANT TypeOK
INVARIANT OnlyCurrentTaskLive
PROPERTY KeepsIntent
PROPERTY ShutdownEndsTasks
PROPERTY SuccessEndsChallenge
CHECK_DEADLOCK FALSE
