CONSTANTS
    scrape = scrape
    jobs = jobs
    archive = archive
    sinfo = sinfo
    sacct = sacct
    NoData = NoData
    NoEntry = NoEntry
    Nobody = Nobody
    NoSnapshot = NoSnapshot
    Requests <- OneRequest
    Background <- TheArchive
    Callers <- TwoCallers
    Fast <- FastTier
    Slow <- SlowTier
    Hangs <- FastTier
    TTL = 1
    SlowRefresh = 2
    Timeout = 1
    MaxAge = 6
    Serials = 3
SPECIFICATION FairSpec
PROPERTY EveryGetReturns
