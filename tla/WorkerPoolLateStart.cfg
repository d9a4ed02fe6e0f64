SPECIFICATION PoolSpec
CHECK_DEADLOCK FALSE
CONSTANTS
    Callers <- TwoCallers
    MaxWorkers = 1
PROPERTIES
    StoppedStartsNone
