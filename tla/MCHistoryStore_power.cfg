CONSTANTS
    f1 = f1
    f2 = f2
    NoFp = NoFp
    Missing = Missing
    Corrupt = Corrupt
    Keys <- TwoJobs
    Fingerprints <- Fps
    Faults <- PowerLosses
    MaxSnapshots = 2
SPECIFICATION Spec
INVARIANT IndexSurvives
