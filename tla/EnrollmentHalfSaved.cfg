SPECIFICATION Spec
CONSTANTS
    NoFile = NoFile
    Garbled = Garbled
    Transports = {"tls"}
    MaxExpiries = 0
    MaxFaults = 1
    MaxMisreads = 0
    MaxInstalls = 0
    MaxPowerLosses = 0
INVARIANTS
    ReusesOnlyEnrolled
