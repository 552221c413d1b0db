CONSTANTS
    f1 = f1
    f2 = f2
    NoFp = NoFp
    Missing = Missing
    Corrupt = Corrupt
    Keys <- TwoJobs
    Fingerprints <- Fps
    Faults <- OrderlyFaults
    MaxSnapshots = 3
SPECIFICATION Spec
INVARIANT NoRepeatedEvent
PROPERTY ImplementsAuditChain
CHECK_DEADLOCK FALSE
