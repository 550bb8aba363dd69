SPECIFICATION LiveSpec
CONSTANTS
    None = None
    Poller = Poller
    Collector = Collector
    Spellings <- FourSpellings
    AddressOf <- SpelledAddress
    CommandLines <- TwoSpellings
PROPERTY SenderlessStop
CHECK_DEADLOCK FALSE
