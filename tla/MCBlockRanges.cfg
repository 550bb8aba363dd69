SPECIFICATION Spec
CONSTANTS
    U64 <- MCU64
    Heads <- SmallHeads
    Limits <- SmallLimits
INVARIANT TypeOK
INVARIANT Tiles
INVARIANT Disjoint
PROPERTY Terminates
PROPERTY ZeroLimitLoops
CHECK_DEADLOCK FALSE
