\* One client reads the feed and /status while a radio updates and the sweeper evicts
\* or is stopped; then silence.
SPECIFICATION FairSpec
CONSTANTS
    ble = ble  wifi = wifi  m1 = m1  m2 = m2  u1 = u1  u2 = u2
    None = None
    Threads = {ble}
    SourceOf <- BleTwice
    RssisOf <- Measured
    Readers = {"http"}
    Macs = {m1}
    UasIds = {u1}
    IdTypes = {"serial"}
    UaTypes = {}
    Reports <- OneReport
    OpFixes = {}
    OpAlts = {}
    SelfIds = {}
    OperatorIds = {}
    Kinds = {"basic_id", "location"}
    Ttl = 0
    MaxTime = 2
    RxUntil = 1
    MaxMessages = 3
    MayStop = TRUE
INVARIANTS DocsConsistent
PROPERTIES DocsMoveForward EventuallyEmpty
CHECK_DEADLOCK FALSE
