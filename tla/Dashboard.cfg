\* A drone comes and goes while a page polls and its user presses a unit button.
SPECIFICATION FairDashSpec
CONSTANTS
    u1 = u1  u2 = u2
    None = None
    Slots = {"poll", "user"}
    HistoryOn = TRUE
    IdleAfter = 2
    MaxClicks = 1
    MaxFails = 1
    UasIds = {u1}
    Ttl = 0
    MaxTime = 2
    RxUntil = 0
    MaxMessages = 2
PROPERTIES PageMovesForward PageConverges
CHECK_DEADLOCK FALSE
