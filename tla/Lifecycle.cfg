SPECIFICATION FairSpec
CHECK_DEADLOCK FALSE
CONSTANTS
    Dispatcher = dispatcher
    Callers <- DispatcherOnly
    MaxWorkers = 2
INVARIANTS
    TypeOK
    CleanMeansDrained
    TransportNeverWaits
PROPERTIES
    ShutdownTerminates
    CleanIfInTime
