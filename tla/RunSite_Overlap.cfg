\* Two runs of one site, overlapping or not: one page each, up to two records.
SPECIFICATION Spec
CONSTANTS
    r1 = r1
    r2 = r2
    r3 = r3
    s1 = s1
    s2 = s2
    h1 = h1
    h2 = h2
    Runs = {r1, r2}
    Sites = {s1}
    SiteOf <- SameSite
    PagesOf <- OnePage
    Hashes = {h1, h2}
    MaxPerPage = 2
    TtlDays = 1
    LastDay = 2
SYMMETRY Symmetry
INVARIANTS
    TypeOK
    ManifestIsCommitRecord
    CuratedWasGated
    NoRepublishWithinTtl
    NothingDroppedUnseen
    SeenIsAccountedFor
    LatestReportTraceable
    ExitZeroMeansPublished
PROPERTY PublishedIsImmutable
\* Every run ends, and a run is started once.
CHECK_DEADLOCK FALSE
