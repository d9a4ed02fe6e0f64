SPECIFICATION Spec
CONSTANTS
    Targets = {"dp1", "dp2", "dp3"}
    Assignments <- OneCandidate
    BaseBackoff = 2
    MaxBackoff = 7
    NoAssignment = NoAssignment
    MaxFaults = 2
    MaxChanges = 0
    MaxLosses = 3
INVARIANTS
    PausesBeforeRetry
