SPECIFICATION FairSpec
CONSTANTS
    Threads = {t1, t2}
    Nobody = Nobody
    RealFunctions <- MCRealFunctions
    Sizes = {2}
    BufSize = 5
    DlsymCalls <- MCDlsymCalls
    MaxDlsymCalls = 1
INVARIANTS
    TypeOK
    BootSafe
PROPERTIES
    OnceSpec
    HooksReturn
CHECK_DEADLOCK FALSE
