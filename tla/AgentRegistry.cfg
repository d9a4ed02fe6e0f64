SPECIFICATION FairSpec
CONSTANTS
    Targets = {"dp1", "dp2", "dp3"}
    Assignments <- SeveralAssignments
    BaseBackoff = 2
    MaxBackoff = 7
    NoAssignment = NoAssignment
    MaxFaults = 5
    MaxChanges = 2
    MaxLosses = 3
INVARIANTS
    TypeOK
    NoRetryWithinRound
    BackoffCountsLosses
PROPERTIES
    CacheDroppedWhenExhausted
    StopsAfterShutdown
    SettlesOnPreferred
