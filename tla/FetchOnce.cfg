\* Two browser tasks with one context, an http task, one site under two
\* schemes; two attempts each.
SPECIFICATION FairSpec
CONSTANTS
    b1 = b1
    b2 = b2
    h = h
    https = https
    http = http
    site = site
    Tasks = {b1, b2, h}
    BrowserTasks = {b1, b2}
    Origins = {https, http}
    OriginOf <- Mixed
    Netlocs = {site}
    NetlocOf <- OneSite
    Published <- MixedPublished
    RespectCrawlDelay = TRUE
    Unit = 2
    NormalRate = 2
    SlowRate = 1
    Burst = 1
    Horizon = 2
    PoolSize = 1
    MaxAttempts = 2
INVARIANTS
    TypeOK
    RobotsRespected
    PaceIsKept
    ContextsAreExclusive
PROPERTIES
    FetchesPolitely
    EveryFetchEnds
\* Every fetch ends.
CHECK_DEADLOCK FALSE
