SPECIFICATION FairSpec
CHECK_DEADLOCK FALSE
CONSTANTS
    Capacity = 2
    MaxAttempts = 3
    MaxSessions = 1
    MaxFrames = 6
    MaxBreaks = 1
INVARIANTS
    TypeOK
    NumbersAccounted
    AtMostOneBehind
PROPERTIES
    TasksStop
    StopsOnShutdown
