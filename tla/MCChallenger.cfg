SPECIFICATION System
CONSTANTS
    None = None
    Contract = "a"
    Pokes <- LogPositions
    Period = 1
    Periods = {2}
    Capacity = 2
    MaxEvents = 6
    Kinds = {"valid", "invalid", "challenged"}
    U64 = 16
    Offsets <- Clocks
    MaxLogs = 3
    MaxHead = 4
    MaxRewinds = 1
INVARIANT SystemTypeOK
INVARIANT ChallengesAreJustified
INVARIANT RepeatNeedsRewind
INVARIANT NoPokeForgotten
PROPERTY SuccessIsFinal
PROPERTY AgeIsJudged
CHECK_DEADLOCK FALSE
