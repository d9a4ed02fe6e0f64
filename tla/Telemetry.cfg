SPECIFICATION FairSpec
CHECK_DEADLOCK FALSE
CONSTANTS
    Files = {"net"}
    Layers <- Twice
    Interval = 50
    ClockSteps <- ForthAndBack
    NoReading = NoReading
    MaxCount = 2
    MaxTime = 1
    MaxMisreads = 1
    MaxLeaves = 1
    MaxSettings = 1
INVARIANTS
    TypeOK
    EveryCountOnce
PROPERTIES
    RatesBounded
    ShareIsOfTheWindow
    TelemetryStops
