CONSTANTS
    f1 = f1
    f2 = f2
    NoFp = NoFp
    Missing = Missing
    Corrupt = Corrupt
    Keys <- TwoJobs
    Fingerprints <- Fps
    Faults <- AllFaults
    MaxSnapshots = 3
SPECIFICATION Spec
INVARIANTS
    TypeOK
    IInv
    DedupNeverLosesAnEvent
    AcknowledgedStatusIsTrue
    AcknowledgedSnapshotIsDurable
PROPERTY ImplementsAuditTrail
