SPECIFICATION Spec
CONSTANTS
    Addrs <- MCAddrs
    Sizes <- MCSizes
    WordSize = 2
    MaxSamples = 2
    Words <- MCWords
    Module <- MCModule
    NoSize = NoSize
INVARIANTS
    SummaryExact
    DetailsExact
CHECK_DEADLOCK FALSE
