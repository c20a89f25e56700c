SPECIFICATION FairSpec
CHECK_DEADLOCK FALSE
CONSTANTS
    Capacities <- MCCapacities
    MinBlock = 2
    Failures <- Throwing
    MaxInits = 3
INVARIANTS
    TypeOK
    ReporterAlive
    EnabledPartsRun
PROPERTIES
    ShutdownLeavesNothing
    ShutdownReturns
