\* Two domains, any order of calls.
SPECIFICATION Spec
CONSTANTS
    Domains = {"up", "down"}
    FailMax = 3
    ResetTimeout = 3
INVARIANT TypeOK
PROPERTY KeepsPromise
