SPECIFICATION FairSpec
CONSTANTS
    Threads = {t1, t2, t3}
    Main = t1
    NoThread = NoThread
    Fds = {f1, f2}
    NoFd = NoFd
    NoFile = NoFile
    MaxSessions = 2
INVARIANTS
    TypeOK
    FdsTracked
    LeaksReported
    ReportedAreOpenFirst
PROPERTIES
    ShutdownEnds
