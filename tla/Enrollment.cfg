SPECIFICATION FairSpec
CONSTANTS
    NoFile = NoFile
    Garbled = Garbled
    Transports = {"plain", "tls"}
    MaxExpiries = 1
    MaxFaults = 1
    MaxMisreads = 1
    MaxInstalls = 1
    MaxPowerLosses = 1
INVARIANTS
    TypeOK
    CertFitsKey
    TargetMarksCompletion
PROPERTIES
    TokenSpentOnlyInNeed
    EventuallyEnrolled
