SPECIFICATION PoolFairSpec
CHECK_DEADLOCK FALSE
CONSTANTS
    Callers <- FourCallers
    MaxWorkers = 2
INVARIANTS
    PoolTypeOK
    InFlightIsJobs
PROPERTIES
    DrainEnds
    RefinesJobLimit
