SPECIFICATION Spec
CONSTANTS
    None = None
    Calls <- TwoCalls
    Pokes <- TwoPokes
    HasPrivate = FALSE
    MaxNonce = 4
INVARIANT OkMeansChallenged
CHECK_DEADLOCK FALSE
