SPECIFICATION FairSpec
CONSTANTS
    Threads = {t1, t2}
    NoThread = NoThread
    Sizes <- MCSizes
    Alignments <- MCAlignments
    Capacities <- MCCapacities
    MinBlock = 8
    HeaderSize = 2
    Bases <- MCBases
INVARIANTS
    TypeOK
    InBounds
    LiveDisjoint
PROPERTIES
    PoolSpec
    GrowOnlyWhenFull
    HolderReleases
