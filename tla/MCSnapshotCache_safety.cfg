CONSTANTS
    scrape = scrape
    jobs = jobs
    archive = archive
    sinfo = sinfo
    sacct = sacct
    NoData = NoData
    NoEntry = NoEntry
    Nobody = Nobody
    NoSnapshot = NoSnapshot
    Requests <- TwoRequests
    Background <- TheArchive
    Callers <- ThreeCallers
    Fast <- FastTier
    Slow <- SlowTier
    Hangs <- SlowTier
    TTL = 2
    SlowRefresh = 3
    Timeout = 1
    MaxAge = 8
    Serials = 2
SPECIFICATION Spec
INVARIANTS
    TypeOK
    SingleFlight
    HandedOutDataIsRecent
    LastGoodDataIsServed
PROPERTIES
    FailedRefreshIsRetried
    SlowTierIsSpared
    ImplementsSharedSnapshot
