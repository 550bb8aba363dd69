SPECIFICATION LiveSpec
CONSTANTS
    None = None
    Calls <- TwoCalls
    Pokes <- TwoPokes
    HasPrivate = TRUE
    MaxNonce = 4
INVARIANT TypeOK
INVARIANT OkMeansSettled
INVARIANT NoNeedlessFallback
INVARIANT NothingStuck
INVARIANT FailuresHaveCause
PROPERTY CallEnds
PROPERTY PokeFallsOrRaced
CHECK_DEADLOCK FALSE
