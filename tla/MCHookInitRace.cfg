SPECIFICATION Spec
CONSTANTS
    Threads = {t1, t2}
    Nobody = Nobody
    RealFunctions <- MCRealFunctions
    Sizes = {2}
    BufSize = 5
    DlsymCalls <- MCDlsymCalls
    MaxDlsymCalls = 1
INVARIANTS
    BootBlocks
CHECK_DEADLOCK FALSE
