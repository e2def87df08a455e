\* A drone comes and goes over a short queue; the program may stop or restart.
SPECIFICATION FairSpec
CONSTANTS
    u1 = u1  u2 = u2  None = None
    UasIds = {u1}
    Ttl = 0
    Debounce = 1
    QueueMax = 2
    MaxTime = 2
    RxUntil = 1
    MaxRows = 3
    MayStop = TRUE
    MayRestart = TRUE
INVARIANTS TypeOK ClearComing
PROPERTIES ClearedUnlessLost EventuallyShown
CHECK_DEADLOCK FALSE
