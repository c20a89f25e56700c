SPECIFICATION Spec
CONSTANTS
    Threads = {t1, t2}
    Main = t1
    Addrs = {a1, a2}
    NoAddr = NoAddr
    Sizes <- MCSizes
    NoSize = NoSize
    Counts <- MCCounts
    ReallocOutcomes <- AllOutcomes
    MaxSessions = 2
SYMMETRY Symmetry
INVARIANTS
    TypeOK
    EntriesTrue
    ReportSound
    CompleteInPlace
    ReportExact
PROPERTIES
    EraseOnlyTaken
