SPECIFICATION FairSpec
CONSTANTS
    Threads = {t1, t2}
    Main = t1
    NoThread = NoThread
    Fds = {f1, f2}
    NoFd = NoFd
    NoFile = NoFile
    MaxSessions = 2
INVARIANT ReportedAreOpen
