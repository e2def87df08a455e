\* A drone reappears before its expiry was drained.
SPECIFICATION Spec
CONSTANTS
    u1 = u1  u2 = u2  None = None
    UasIds = {u1}
    Ttl = 0
    Debounce = 1
    QueueMax = 6
    MaxTime = 3
    RxUntil = 1
    MaxRows = 3
    MayStop = FALSE
    MayRestart = FALSE
PROPERTIES LiveTopicKept
