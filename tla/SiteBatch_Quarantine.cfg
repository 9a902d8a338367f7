\* A crawl, its batch and its quarantined items.
SPECIFICATION CrawlSpec
CONSTANTS
    Records <- Scraped
    MaxBatch = 3
    MaxRejected = 3
INVARIANT QuarantineVolumeCounts
\* The batch is full, or an exception ended the crawl.
CHECK_DEADLOCK FALSE
