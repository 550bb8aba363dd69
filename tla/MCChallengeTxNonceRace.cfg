SPECIFICATION LiveSpec
CONSTANTS
    None = None
    Calls <- TwoCalls
    Pokes <- TwoPokes
    HasPrivate = FALSE
    MaxNonce = 4
PROPERTY PokeFalls
CHECK_DEADLOCK FALSE
