CONSTANTS
    f1 = f1
    f2 = f2
    NoFp = NoFp
    Missing = Missing
    Corrupt = Corrupt
    scrape = scrape
    reader = reader
    watcher = watcher
    Archiver = archiver
    Keys <- OneJob
    Fingerprints <- Fps
    Faults <- DiskFaults
    MaxSnapshots = 2
    TTL = 1
    Serials = 2
    Scrapes <- TheScrape
    Readers <- TheReader
    Watchers <- TheWatcher
    Contents <- Alternating
SPECIFICATION FairSpec
INVARIANTS
    TypeOK
    ToldHeadIsArchived
PROPERTIES
    ToldHeadEndsASnapshot
    SameSnapshotAddsNoEvent
    PagesNeedNoDisk
    StatusNeedsNoSlurm
    ScrapesReturn
    ArchiveKeepsWriting
CHECK_DEADLOCK FALSE
