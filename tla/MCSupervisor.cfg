SPECIFICATION LiveSpec
CONSTANTS
    None = None
    Poller = Poller
    Collector = Collector
    Spellings <- FourSpellings
    AddressOf <- SpelledAddress
    CommandLines <- AllCommandLines
INVARIANT TypeOK
INVARIANT AddressesWatched
INVARIANT OnlyDuplicatesStayDeaf
INVARIANT NobodyLeftBehind
PROPERTY ProgramEnds
CHECK_DEADLOCK FALSE
