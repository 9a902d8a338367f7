\* Two tasks that escalate before the first browser is there.
SPECIFICATION Spec
CONSTANTS
    Tasks = {"t1", "t2"}
    FailMax = 3
    ResetTimeout = 2
INVARIANT LaunchedOnce
