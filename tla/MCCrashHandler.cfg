SPECIFICATION FairSpec
CONSTANTS
    Threads = {t1, t2}
    Main = t1
    Nobody = Nobody
    Signals = {SIGSEGV, SIGABRT}
    Sync = {SIGSEGV}
    Dispositions <- MCDispositions
    MaxMs = 1
    MaxDepth = 2
INVARIANTS
    TypeOK
    CrashReported
PROPERTIES
    CrashEnds
CHECK_DEADLOCK FALSE
