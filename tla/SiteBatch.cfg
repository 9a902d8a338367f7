\* Crawls of each site, with batches of up to 60 records with a few defects.
SPECIFICATION CrawlSpec
CONSTANTS
    Records <- AnyRecord
    MaxBatch = 60
    MaxRejected = 1
CONSTRAINT FewDefects
INVARIANTS
    TypeOK
    PublishedIsMostlyFlawless
    SmallBatchesAreStrict
    PublishedBySite
    SystematicChangeIsNoticed
PROPERTY GoodRecordNeverHurts
\* The batch is full, or an exception ended the crawl.
CHECK_DEADLOCK FALSE
