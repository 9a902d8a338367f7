\* Two runs of one site: the quarantine file of a finished run.
SPECIFICATION Spec
CONSTANTS
    r1 = r1
    r2 = r2
    r3 = r3
    s1 = s1
    s2 = s2
    h1 = h1
    h2 = h2
    Runs = {r1, r2}
    Sites = {s1}
    SiteOf <- SameSite
    PagesOf <- OnePage
    Hashes = {h1}
    MaxPerPage = 1
    TtlDays = 1
    LastDay = 1
INVARIANT QuarantineNeverLost
\* Every run ends, and a run is started once.
CHECK_DEADLOCK FALSE
