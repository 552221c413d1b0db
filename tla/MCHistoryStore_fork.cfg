CONSTANTS
    f1 = f1
    f2 = f2
    NoFp = NoFp
    Missing = Missing
    Corrupt = Corrupt
    Keys <- TwoJobs
    Fingerprints <- Fps
    Faults <- Kills
    MaxSnapshots = 2
SPECIFICATION Spec
PROPERTY ImplementsAuditChain
