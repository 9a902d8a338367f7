\* Two tasks that share one escalating fetcher and one breaker.
SPECIFICATION FairSpec
CONSTANTS
    Tasks = {"t1", "t2"}
    FailMax = 3
    ResetTimeout = 2
INVARIANTS
    TypeOK
    BrowsersAreFew
    EscalatesShellsOnly
    BrowserFailuresNeverTrip
PROPERTIES
    OnlyLateFailuresSetBack
    NeverSkippedForEver
    Recovers
