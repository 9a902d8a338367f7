\* An http task and a browser task in one domain.
SPECIFICATION Spec
CONSTANTS
    b1 = b1
    b2 = b2
    h = h
    https = https
    http = http
    site = site
    Tasks = {b1, h}
    BrowserTasks = {b1}
    Origins = {https}
    OriginOf <- Together
    Netlocs = {site}
    NetlocOf <- OneSite
    Published <- TogetherPublished
    RespectCrawlDelay = TRUE
    Unit = 2
    NormalRate = 2
    SlowRate = 1
    Burst = 1
    Horizon = 2
    PoolSize = 1
    MaxAttempts = 1
INVARIANT SamePaceForBoth
\* Every fetch ends.
CHECK_DEADLOCK FALSE
